--------------------------- MODULE OAuthLoginProofs ---------------------------
(***************************************************************************)
(* Proofs about OAuthLogin: whatever callbacks and changes interleave,      *)
(* every account keeps a login method, unlinking reaches every session, and  *)
(* a session that was revoked links nothing any more.                       *)
(***************************************************************************)
EXTENDS OAuthLogin, TLAPS

\* What a request has gathered by each of its steps.
Whole(row) ==
    /\ row.pc = "consumed" => row.provider \in Provider
    /\ row.pc \in {"found", "read"} => row.id \in Identity
    /\ row.pc \in {"unlink", "set_password"} => row.session \in Session

RequestsAreWhole == \A r \in Request : Whole(request[r])
AttemptsAreWhole == \A a \in Attempt : attempt[a].open => attempt[a].provider \in Provider
SessionsAreOwned == \A s \in Session : session[s].state # "absent" => Owner(s) \in User

Rows == TypeOK /\ RequestsAreWhole /\ AttemptsAreWhole /\ SessionsAreOwned
IInv == Rows /\ LoginMethodRemains

\* A step that at most ends sessions.
OnlyEnds ==
    /\ session' = [x \in Session |-> session'[x]]
    /\ \A x \in Session : \/ session'[x] = session[x]
                          \/ Live(x) /\ session'[x] = Ended(session[x])
                          \/ Unrevoked(x) /\ session'[x] = Revoked(session[x])

\* A step that stores a session of u.
Starts(u, via) ==
    \E s \in Session :
        /\ session[s] = NoSession
        /\ session'[s] = [state |-> "live", user |-> u, via |-> via]
        /\ \A x \in Session \ {s} : session'[x] = session[x]

-----------------------------------------------------------------------------
(* What the helpers change *)

\* A finished request, and the rows of an empty database.
LEMMA EmptyRows ==
    /\ Idle \in Local /\ Whole(Idle) /\ Idle.pc = "idle"
    /\ Absent \in UserRow /\ Absent.status = "absent"
    /\ NoSession \in SessionRow /\ NoSession.state = "absent" /\ NoSession.via = None
    /\ NoAttempt \in AttemptRow /\ ~NoAttempt.open
<1>1. 0 \in 0..MaxVersion
  BY OAuthAssumption
<1>2. Idle \in Local /\ Whole(Idle) /\ Idle.pc = "idle"
  BY <1>1 DEF Idle, Local, Whole
<1>3. Absent \in UserRow /\ Absent.status = "absent"
  BY <1>1 DEF Absent, UserRow
<1>4. NoSession \in SessionRow /\ NoSession.state = "absent" /\ NoSession.via = None
  BY DEF NoSession, SessionRow
<1>5. NoAttempt \in AttemptRow /\ ~NoAttempt.open
  BY DEF NoAttempt, AttemptRow
<1>. QED
  BY <1>2, <1>3, <1>4, <1>5

\* One request goes on to another step.
LEMMA RequestGoesOn ==
    ASSUME Rows, NEW r \in Request, NEW next \in Local, Whole(next),
           request' = [request EXCEPT ![r] = next]
    PROVE  request' \in [Request -> Local] /\ RequestsAreWhole'
<1>1. request' \in [Request -> Local]
  BY DEF Rows, TypeOK
<1>2. \A q \in Request : request'[q] = next \/ request'[q] = request[q]
  BY DEF Rows, TypeOK
<1>3. RequestsAreWhole'
  BY <1>2 DEF Rows, RequestsAreWhole, Whole
<1>. QED
  BY <1>1, <1>3

\* A request that is answered or given up.
LEMMA RequestEnds ==
    ASSUME Rows, NEW r \in Request, Finished(r)
    PROVE  request' \in [Request -> Local] /\ RequestsAreWhole'
  BY RequestGoesOn, EmptyRows DEF Finished

\* The sessions that live after a step that only ends some lived before.
LEMMA EndsKeep ==
    ASSUME Rows, OnlyEnds
    PROVE  session' \in [Session -> SessionRow] /\ SessionsAreOwned'
<1>1. ASSUME NEW x \in Session
      PROVE  /\ session'[x] \in SessionRow
             /\ session'[x].state # "absent" => session'[x].user \in User
  <2>1. session[x] \in SessionRow /\ (session[x].state # "absent" => session[x].user \in User)
    BY DEF Rows, TypeOK, SessionsAreOwned, Owner
  <2>2. /\ Ended(session[x]) \in SessionRow
        /\ Ended(session[x]).user = session[x].user
        /\ Revoked(session[x]) \in SessionRow
        /\ Revoked(session[x]).user = session[x].user
    BY <2>1 DEF Ended, Revoked, SessionRow
  <2>3. Live(x) \/ Unrevoked(x) => session[x].state # "absent"
    BY DEF Live, Unrevoked
  <2>. QED
    BY <2>1, <2>2, <2>3 DEF OnlyEnds
<1>2. session' \in [Session -> SessionRow]
  BY <1>1 DEF OnlyEnds
<1>. QED
  BY <1>1, <1>2 DEF SessionsAreOwned, Owner

\* revoke_other_sessions ends sessions.
LEMMA RevokeEnds ==
    ASSUME Rows, NEW s, RevokeOthers(s)
    PROVE  OnlyEnds
  BY DEF RevokeOthers, OnlyEnds

\* _create_session
LEMMA SessionStarts ==
    ASSUME Rows, NEW u \in User, NEW via \in Identity \cup {None}, NewSession(u, via)
    PROVE  session' \in [Session -> SessionRow] /\ SessionsAreOwned' /\ Starts(u, via)
<1>1. PICK s \in Session :
          /\ session[s] = NoSession
          /\ session' = [session EXCEPT ![s] = [state |-> "live", user |-> u, via |-> via]]
  BY DEF NewSession
<1>2. [state |-> "live", user |-> u, via |-> via] \in SessionRow
  BY DEF SessionRow
<1>3. /\ session' \in [Session -> SessionRow]
      /\ session'[s] = [state |-> "live", user |-> u, via |-> via]
      /\ \A x \in Session \ {s} : session'[x] = session[x]
  BY <1>1, <1>2 DEF Rows, TypeOK
<1>4. SessionsAreOwned'
  BY <1>3 DEF Rows, SessionsAreOwned, Owner
<1>. QED
  BY <1>1, <1>3, <1>4 DEF Starts

\* The owner of a session is a user.
LEMMA UnrevokedIsOwned ==
    ASSUME Rows, NEW s \in Session, Unrevoked(s)
    PROVE  Owner(s) \in User
  BY DEF Rows, SessionsAreOwned, Unrevoked

LEMMA LiveIsOwned ==
    ASSUME Rows, NEW s \in Session, Live(s)
    PROVE  Owner(s) \in User
  BY DEF Rows, SessionsAreOwned, Live

-----------------------------------------------------------------------------
(* What each kind of step does to the rows *)

\* Attempts that begin, expire or are consumed.
LEMMA AttemptRows ==
    ASSUME Rows, NEW a \in Attempt, NEW row \in AttemptRow, row.open => row.provider \in Provider,
           attempt' = [attempt EXCEPT ![a] = row]
    PROVE  attempt' \in [Attempt -> AttemptRow] /\ AttemptsAreWhole'
  BY DEF Rows, TypeOK, AttemptsAreWhole

\* begin stores an attempt of a provider.
LEMMA BeginAttemptRows ==
    ASSUME Rows, NEW a \in Attempt, NEW p \in Provider, NEW s \in Session \cup {None},
           BeginAttempt(a, p, s)
    PROVE  Rows'
<1>1. [open |-> TRUE, provider |-> p, session |-> s] \in AttemptRow
  BY DEF AttemptRow
<1>2. attempt' \in [Attempt -> AttemptRow] /\ AttemptsAreWhole'
  BY <1>1, AttemptRows DEF BeginAttempt
<1>. QED
  BY <1>2 DEF BeginAttempt, Rows, TypeOK, RequestsAreWhole, Whole, SessionsAreOwned, Owner

\* The row of an expired attempt is removed.
LEMMA AttemptExpiresRows ==
    ASSUME Rows, NEW a \in Attempt, AttemptExpires(a)
    PROVE  Rows'
<1>1. attempt' \in [Attempt -> AttemptRow] /\ AttemptsAreWhole'
  BY EmptyRows, AttemptRows DEF AttemptExpires
<1>. QED
  BY <1>1 DEF AttemptExpires, Rows, TypeOK, RequestsAreWhole, Whole, SessionsAreOwned, Owner

\* complete takes provider and session from the attempt it consumes.
LEMMA ConsumeRows ==
    ASSUME Rows, NEW r \in Request, NEW a \in Attempt, Consume(r, a)
    PROVE  Rows'
<1>1. attempt' \in [Attempt -> AttemptRow] /\ AttemptsAreWhole'
  BY EmptyRows, AttemptRows DEF Consume
<1>. DEFINE next == [Idle EXCEPT !.pc = "consumed", !.session = attempt[a].session,
                                 !.provider = attempt[a].provider]
<1>2. next \in Local /\ Whole(next)
  <2>1. /\ attempt[a].session \in Session \cup {None}
        /\ attempt[a].provider \in Provider
    BY DEF Consume, Rows, TypeOK, AttemptRow, AttemptsAreWhole
  <2>2. next \in Local /\ next.pc = "consumed" /\ next.provider = attempt[a].provider
    BY <2>1, EmptyRows DEF Local
  <2>. QED
    BY <2>1, <2>2 DEF Whole
<1>3. request' = request \/ request' = [request EXCEPT ![r] = next]
  BY DEF Consume
<1>4. request' \in [Request -> Local] /\ RequestsAreWhole'
  <2>1. CASE request' = request
    BY <2>1 DEF Rows, TypeOK, RequestsAreWhole, Whole
  <2>2. CASE request' = [request EXCEPT ![r] = next]
    BY <1>2, <2>2, RequestGoesOn
  <2>. QED
    BY <1>3, <2>1, <2>2
<1>. QED
  BY <1>1, <1>4 DEF Consume, Rows, TypeOK, SessionsAreOwned, Owner

\* fetch_identity finds an account of the attempt's provider.
LEMMA ExchangeRows ==
    ASSUME Rows, NEW r \in Request, Exchange(r)
    PROVE  Rows'
<1>0. request[r] \in Local /\ request[r].pc = "consumed" /\ request[r].provider \in Provider
  BY DEF Exchange, Rows, TypeOK, RequestsAreWhole, Whole
<1>1. request' \in [Request -> Local] /\ RequestsAreWhole'
  <2>1. ASSUME NEW subject \in Subject,
               request' = [request EXCEPT ![r].pc = "found", ![r].provider = None,
                             ![r].id = <<request[r].provider, subject>>]
        PROVE  request' \in [Request -> Local] /\ RequestsAreWhole'
    <3>. DEFINE id == <<request[r].provider, subject>>
                next == [request[r] EXCEPT !.pc = "found", !.provider = None, !.id = id]
    <3>1. id \in Identity
      BY <1>0 DEF Identity
    <3>2. next \in Local /\ next.pc = "found" /\ next.id = id
      BY <1>0, <3>1 DEF Local
    <3>3. Whole(next)
      BY <3>1, <3>2 DEF Whole
    <3>4. request' = [request EXCEPT ![r] = next]
      BY <2>1 DEF Rows, TypeOK
    <3>. QED
      BY <3>2, <3>3, <3>4, RequestGoesOn
  <2>2. CASE Finished(r)
    BY <2>2, RequestEnds
  <2>. QED
    BY <2>1, <2>2 DEF Exchange
<1>. QED
  BY <1>1 DEF Exchange, Rows, TypeOK, AttemptsAreWhole, SessionsAreOwned, Owner

\* _finish reads the owner of the identity.
LEMMA ReadIdentityRows ==
    ASSUME Rows, NEW r \in Request, ReadIdentity(r)
    PROVE  Rows'
<1>. DEFINE stored == identity[request[r].id]
<1>1. request[r] \in Local /\ request[r].id \in Identity
  BY DEF ReadIdentity, Rows, TypeOK, RequestsAreWhole, Whole
<1>2. stored \in User \cup {None}
  BY <1>1 DEF Rows, TypeOK
<1>3. request' \in [Request -> Local] /\ RequestsAreWhole'
  <2>1. CASE request' = [request EXCEPT ![r].pc = "read", ![r].stored = stored]
    <3>. DEFINE next == [request[r] EXCEPT !.pc = "read", !.stored = stored]
    <3>1. next \in Local /\ next.pc = "read" /\ next.id = request[r].id
      BY <1>1, <1>2 DEF Local
    <3>2. Whole(next)
      BY <1>1, <3>1 DEF Whole
    <3>3. request' = [request EXCEPT ![r] = next]
      BY <2>1 DEF Rows, TypeOK
    <3>. QED
      BY <3>1, <3>2, <3>3, RequestGoesOn
  <2>2. CASE request' = [request EXCEPT ![r].pc = "read"]
    <3>. DEFINE next == [request[r] EXCEPT !.pc = "read"]
    <3>1. next \in Local /\ next.pc = "read" /\ next.id = request[r].id
      BY <1>1 DEF Local
    <3>2. Whole(next)
      BY <1>1, <3>1 DEF Whole
    <3>3. request' = [request EXCEPT ![r] = next]
      BY <2>2 DEF Rows, TypeOK
    <3>. QED
      BY <3>1, <3>2, <3>3, RequestGoesOn
  <2>3. CASE Finished(r)
    BY <2>3, RequestEnds
  <2>. QED
    BY <2>1, <2>2, <2>3 DEF ReadIdentity
<1>. QED
  BY <1>3 DEF ReadIdentity, Rows, TypeOK, AttemptsAreWhole, SessionsAreOwned, Owner

-----------------------------------------------------------------------------
(* The steps that end a callback *)

\* A callback that starts over, with what it has gathered.
LEMMA StartsOver ==
    ASSUME Rows, NEW r \in Request, request[r].pc = "read",
           request' = [request EXCEPT ![r].pc = "found", ![r].retried = TRUE]
    PROVE  request' \in [Request -> Local] /\ RequestsAreWhole'
<1>. DEFINE again == [request[r] EXCEPT !.pc = "found", !.retried = TRUE]
<1>1. request[r] \in Local /\ request[r].id \in Identity
  BY DEF Rows, TypeOK, RequestsAreWhole, Whole
<1>2. again \in Local /\ again.pc = "found" /\ again.id = request[r].id
  BY <1>1 DEF Local
<1>3. Whole(again)
  BY <1>1, <1>2 DEF Whole
<1>4. request' = [request EXCEPT ![r] = again]
  BY DEF Rows, TypeOK
<1>. QED
  BY <1>2, <1>3, <1>4, RequestGoesOn

\* A callback that links an identity, starts over or is refused.
LEMMA FinishLinkKeeps ==
    ASSUME IInv, NEW r \in Request, FinishLink(r)
    PROVE  /\ Rows' /\ LoginMethodRemains'
           /\ session' = session
           /\ \/ identity' = identity
              \/ LET s == request[r].session
                 IN  /\ request[r].pc = "read" /\ s \in Session
                     /\ Unrevoked(s) /\ Active(Owner(s)) /\ Owner(s) \in User
                     /\ identity[request[r].id] \in {None, Owner(s)}
                     /\ identity' = [identity EXCEPT ![request[r].id] = Owner(s)]
<1>. DEFINE s == request[r].session
            id == request[r].id
<1>1. s \in Session /\ id \in Identity /\ request[r].pc = "read"
  BY DEF FinishLink, IInv, Rows, TypeOK, Local, RequestsAreWhole, Whole
<1>2. ASSUME request' \in [Request -> Local], RequestsAreWhole', identity' = identity
      PROVE  Rows' /\ LoginMethodRemains' /\ session' = session
  <2>1. LoginMethodRemains'
    BY <1>2 DEF FinishLink, IInv, LoginMethodRemains, Identities
  <2>2. Rows'
    BY <1>2 DEF FinishLink, IInv, Rows, TypeOK, AttemptsAreWhole, SessionsAreOwned, Owner
  <2>. QED
    BY <2>1, <2>2 DEF FinishLink
<1>3. CASE /\ MayLink(r) /\ identity[id] \in {None, Owner(s)}
           /\ identity' = [identity EXCEPT ![id] = Owner(s)]
           /\ Finished(r)
  <2>1. Unrevoked(s) /\ Active(Owner(s)) /\ Owner(s) \in User
    BY <1>1, <1>3, UnrevokedIsOwned DEF MayLink, IInv
  <2>2. identity' \in [Identity -> User \cup {None}]
    BY <1>3, <2>1 DEF IInv, Rows, TypeOK
  <2>3. \A u \in User : Identities(u) \subseteq Identities(u)'
    BY <1>1, <1>3, <2>1, OAuthAssumption DEF Identities, IInv, Rows, TypeOK
  <2>4. LoginMethodRemains'
    BY <2>3 DEF FinishLink, IInv, LoginMethodRemains
  <2>5. request' \in [Request -> Local] /\ RequestsAreWhole'
    BY <1>3, RequestEnds DEF IInv
  <2>6. Rows'
    BY <2>2, <2>5 DEF FinishLink, IInv, Rows, TypeOK, AttemptsAreWhole, SessionsAreOwned, Owner
  <2>. QED
    BY <1>1, <1>3, <2>1, <2>4, <2>6 DEF FinishLink
<1>4. CASE /\ request' = [request EXCEPT ![r].pc = "found", ![r].retried = TRUE]
           /\ UNCHANGED identity
  <2>1. request' \in [Request -> Local] /\ RequestsAreWhole'
    BY <1>1, <1>4, StartsOver DEF IInv
  <2>. QED
    BY <1>2, <1>4, <2>1
<1>5. CASE Finished(r) /\ UNCHANGED identity
  <2>1. request' \in [Request -> Local] /\ RequestsAreWhole'
    BY <1>5, RequestEnds DEF IInv
  <2>. QED
    BY <1>2, <1>5, <2>1
<1>. QED
  BY <1>3, <1>4, <1>5 DEF FinishLink

\* A callback that logs in with an identity its owner still has, or is refused.
LEMMA FinishLoginKeeps ==
    ASSUME IInv, NEW r \in Request, FinishLogin(r)
    PROVE  /\ Rows' /\ LoginMethodRemains'
           /\ identity' = identity /\ user' = user
           /\ \/ session' = session
              \/ \E u \in User : /\ identity[request[r].id] = u
                                 /\ Starts(u, request[r].id)
<1>. DEFINE u == request[r].stored
            id == request[r].id
<1>1. u \in User /\ id \in Identity
  BY DEF FinishLogin, IInv, Rows, TypeOK, Local, RequestsAreWhole, Whole
<1>2. request' \in [Request -> Local] /\ RequestsAreWhole'
  BY RequestEnds DEF FinishLogin, IInv
<1>3. LoginMethodRemains'
  BY DEF FinishLogin, IInv, LoginMethodRemains, Identities
<1>4. CASE StillOwns(r) /\ Active(u)
  <2>1. NewSession(u, id)
    BY <1>4 DEF FinishLogin
  <2>2. session' \in [Session -> SessionRow] /\ SessionsAreOwned' /\ Starts(u, id)
    BY <1>1, <2>1, SessionStarts DEF IInv
  <2>3. Rows'
    BY <1>2, <2>2 DEF FinishLogin, IInv, Rows, TypeOK, AttemptsAreWhole
  <2>. QED
    BY <1>1, <1>3, <1>4, <2>2, <2>3 DEF FinishLogin, StillOwns
<1>5. CASE ~(StillOwns(r) /\ Active(u))
  <2>1. session' = session
    BY <1>5 DEF FinishLogin
  <2>2. Rows'
    BY <1>2, <2>1 DEF FinishLogin, IInv, Rows, TypeOK, AttemptsAreWhole, SessionsAreOwned, Owner
  <2>. QED
    BY <1>3, <2>1, <2>2 DEF FinishLogin
<1>. QED
  BY <1>4, <1>5

\* A callback that creates an account with its identity, tries again or is refused.
LEMMA FinishSignupKeeps ==
    ASSUME IInv, NEW r \in Request, FinishSignup(r)
    PROVE  /\ Rows' /\ LoginMethodRemains'
           /\ \/ identity' = identity /\ session' = session
              \/ \E u \in User :
                    /\ user[u] = Absent /\ identity[request[r].id] = None
                    /\ identity' = [identity EXCEPT ![request[r].id] = u]
                    /\ Starts(u, request[r].id)
<1>. DEFINE id == request[r].id
<1>1. id \in Identity /\ request[r].pc = "read"
  BY DEF FinishSignup, IInv, Rows, TypeOK, RequestsAreWhole, Whole
<1>2. ASSUME identity[id] = None, Finished(r), NEW u \in User, user[u] = Absent,
             user' = [user EXCEPT ![u] = [Absent EXCEPT !.status = "active"]],
             identity' = [identity EXCEPT ![id] = u], NewSession(u, id)
      PROVE  Rows' /\ LoginMethodRemains' /\ Starts(u, id)
  <2>1. session' \in [Session -> SessionRow] /\ SessionsAreOwned' /\ Starts(u, id)
    BY <1>1, <1>2, SessionStarts DEF IInv
  <2>2. request' \in [Request -> Local] /\ RequestsAreWhole'
    BY <1>2, RequestEnds DEF IInv
  <2>3. user' \in [User -> UserRow]
    <3>1. [Absent EXCEPT !.status = "active"] \in UserRow
      BY EmptyRows DEF UserRow
    <3>. QED
      BY <1>2, <3>1 DEF IInv, Rows, TypeOK
  <2>4. identity' \in [Identity -> User \cup {None}] /\ identity'[id] = u
    BY <1>1, <1>2 DEF IInv, Rows, TypeOK
  <2>5. Rows'
    BY <2>1, <2>2, <2>3, <2>4 DEF FinishSignup, IInv, Rows, TypeOK, AttemptsAreWhole
  <2>6. ASSUME NEW v \in User, user'[v].status # "absent"
        PROVE  user'[v].password \/ Identities(v)' # {}
    <3>1. CASE v = u
      BY <1>1, <2>4, <3>1 DEF Identities
    <3>2. CASE v # u
      <4>1. user'[v] = user[v]
        BY <1>2, <3>2 DEF IInv, Rows, TypeOK
      <4>2. Identities(v) \subseteq Identities(v)'
        BY <1>2, OAuthAssumption DEF Identities, IInv, Rows, TypeOK
      <4>. QED
        BY <2>6, <4>1, <4>2 DEF IInv, LoginMethodRemains
    <3>. QED
      BY <3>1, <3>2
  <2>. QED
    BY <2>1, <2>5, <2>6 DEF LoginMethodRemains
<1>3. ASSUME request' \in [Request -> Local], RequestsAreWhole', UNCHANGED <<user, identity, session>>
      PROVE  Rows' /\ LoginMethodRemains'
  <2>1. Rows'
    BY <1>3 DEF FinishSignup, IInv, Rows, TypeOK, AttemptsAreWhole, SessionsAreOwned, Owner
  <2>2. LoginMethodRemains'
    BY <1>3 DEF IInv, LoginMethodRemains, Identities
  <2>. QED
    BY <2>1, <2>2
<1>4. CASE request' = [request EXCEPT ![r].pc = "found", ![r].retried = TRUE]
           /\ UNCHANGED <<user, identity, session>>
  <2>1. request' \in [Request -> Local] /\ RequestsAreWhole'
    BY <1>1, <1>4, StartsOver DEF IInv
  <2>. QED
    BY <1>3, <1>4, <2>1
<1>5. CASE Finished(r) /\ UNCHANGED <<user, identity, session>>
  <2>1. request' \in [Request -> Local] /\ RequestsAreWhole'
    BY <1>5, RequestEnds DEF IInv
  <2>. QED
    BY <1>3, <1>5, <2>1
<1>6. CASE /\ identity[id] = None
           /\ \E u \in User :
                 /\ user[u] = Absent
                 /\ user' = [user EXCEPT ![u] = [Absent EXCEPT !.status = "active"]]
                 /\ identity' = [identity EXCEPT ![id] = u]
                 /\ NewSession(u, id)
           /\ Finished(r)
  BY <1>2, <1>6
<1>. QED
  BY <1>4, <1>5, <1>6 DEF FinishSignup

-----------------------------------------------------------------------------
(* Changes of the login methods *)

\* An authenticated request has a live session of a user.
LEMMA BeginChangeRows ==
    ASSUME Rows, NEW r \in Request, NEW s \in Session, NEW pc \in {"unlink", "set_password"},
           NEW p \in Provider \cup {None}, BeginChange(r, s, pc, p)
    PROVE  Rows'
<1>1. PICK usable \in SUBSET (Provider \ {p}) :
          request' = [request EXCEPT ![r] = [Idle EXCEPT
                        !.pc = pc, !.session = s, !.provider = p,
                        !.version = user[Owner(s)].version, !.usable = usable]]
  BY DEF BeginChange
<1>. DEFINE version == user[Owner(s)].version
            next == [Idle EXCEPT !.pc = pc, !.session = s, !.provider = p,
                                 !.version = version, !.usable = usable]
<1>2. version \in 0..MaxVersion
  BY LiveIsOwned DEF BeginChange, Authenticated, Rows, TypeOK, UserRow
<1>3. next \in Local /\ next.pc = pc /\ next.session = s
  <2>. HIDE DEF version
  <2>1. usable \in SUBSET Provider
    OBVIOUS
  <2>. QED
    BY <1>2, <2>1, EmptyRows DEF Local
<1>4. Whole(next)
  <2>. HIDE DEF next
  <2>. QED
    BY <1>3 DEF Whole
<1>5. request' \in [Request -> Local] /\ RequestsAreWhole'
  BY <1>1, <1>3, <1>4, RequestGoesOn
<1>. QED
  BY <1>5 DEF BeginChange, Rows, TypeOK, AttemptsAreWhole, SessionsAreOwned, Owner

\* Unlinking leaves a method, and no other session.
LEMMA UnlinkKeeps ==
    ASSUME IInv, NEW r \in Request, Unlink(r)
    PROVE  /\ Rows' /\ LoginMethodRemains' /\ OnlyEnds
           /\ \/ identity' = identity
              \/ /\ \A i \in Identity : \/ identity'[i] = identity[i]
                                        \/ /\ identity[i] = Owner(request[r].session)
                                           /\ identity'[i] = None
                 /\ RevokeOthers(request[r].session)
<1>. DEFINE s == request[r].session
            u == Owner(s)
            target == {i \in Identities(u) : i[1] = request[r].provider}
<1>1. s \in Session
  BY DEF Unlink, IInv, Rows, TypeOK, Local, RequestsAreWhole, Whole
<1>2. request' \in [Request -> Local] /\ RequestsAreWhole'
  BY RequestEnds DEF Unlink, IInv
<1>3. CASE ValidateMutation(r) /\ target # {} /\ MethodRemains(r, u)
  <2>1. /\ identity' = [i \in Identity |-> IF i \in target THEN None ELSE identity[i]]
        /\ RevokeOthers(s)
    BY <1>3 DEF Unlink
  <2>2. OnlyEnds
    BY <2>1, RevokeEnds DEF IInv
  <2>3. session' \in [Session -> SessionRow] /\ SessionsAreOwned'
    BY <2>2, EndsKeep DEF IInv
  <2>4. identity' \in [Identity -> User \cup {None}]
    BY <2>1 DEF IInv, Rows, TypeOK
  <2>5. Rows'
    BY <1>2, <2>3, <2>4 DEF Unlink, IInv, Rows, TypeOK, AttemptsAreWhole
  <2>6. \A i \in Identity : \/ identity'[i] = identity[i]
                            \/ identity[i] = u /\ identity'[i] = None
    BY <2>1 DEF Identities
  <2>7. user' = user
    BY DEF Unlink
  <2>8. ASSUME NEW v \in User, user'[v].status # "absent"
        PROVE  user'[v].password \/ Identities(v)' # {}
    <3>1. CASE v # u
      <4>1. Identities(v)' = Identities(v)
        BY <2>6, <3>1, OAuthAssumption DEF Identities
      <4>. QED
        BY <2>7, <2>8, <4>1 DEF IInv, LoginMethodRemains
    <3>2. CASE v = u
      <4>1. CASE user[u].password
        BY <2>7, <3>2, <4>1
      <4>2. CASE \E i \in Identities(u) : i[1] # request[r].provider
        <5>1. PICK i \in Identities(u) : i[1] # request[r].provider
          BY <4>2
        <5>2. i \in Identity /\ identity'[i] = u
          BY <2>1, <5>1 DEF Identities
        <5>3. i \in Identities(v)'
          BY <3>2, <5>2 DEF Identities
        <5>. QED
          BY <5>3
      <4>. QED
        BY <1>3, <4>1, <4>2 DEF MethodRemains
    <3>. QED
      BY <3>1, <3>2
  <2>. QED
    BY <2>1, <2>2, <2>5, <2>6, <2>8 DEF LoginMethodRemains
<1>4. CASE ~(ValidateMutation(r) /\ target # {} /\ MethodRemains(r, u))
  <2>1. identity' = identity /\ session' = session /\ user' = user
    BY <1>4 DEF Unlink
  <2>2. Rows'
    BY <1>2, <2>1 DEF Unlink, IInv, Rows, TypeOK, AttemptsAreWhole, SessionsAreOwned, Owner
  <2>3. LoginMethodRemains' /\ OnlyEnds
    BY <2>1 DEF IInv, Rows, TypeOK, LoginMethodRemains, Identities, OnlyEnds
  <2>. QED
    BY <2>1, <2>2, <2>3
<1>. QED
  BY <1>3, <1>4

\* A user with more ways to log in, or the same, under another version or ban.
LEMMA UserChangeKeepsMethod ==
    ASSUME IInv, NEW u \in User, NEW row \in UserRow,
           user' = [user EXCEPT ![u] = row], identity' = identity,
           \/ row.password = TRUE
           \/ user[u].status # "absent" /\ row.password = user[u].password
    PROVE  user' \in [User -> UserRow] /\ LoginMethodRemains'
<1>1. /\ user' \in [User -> UserRow] /\ user'[u] = row
      /\ \A v \in User : v # u => user'[v] = user[v]
  BY DEF IInv, Rows, TypeOK
<1>2. \A v \in User : Identities(v)' = Identities(v)
  BY DEF Identities
<1>3. user[u].status # "absent" => user[u].password \/ Identities(u) # {}
  BY DEF IInv, LoginMethodRemains
<1>4. row.password \/ Identities(u) # {}
  BY <1>3
<1>5. ASSUME NEW v \in User, user'[v].status # "absent"
      PROVE  user'[v].password \/ Identities(v)' # {}
  <2>1. CASE v = u
    BY <1>1, <1>2, <1>4, <2>1
  <2>2. CASE v # u
    BY <1>1, <1>2, <1>5, <2>2 DEF IInv, LoginMethodRemains
  <2>. QED
    BY <2>1, <2>2
<1>. QED
  BY <1>1, <1>5 DEF LoginMethodRemains

\* The first password of a user ends the user's other sessions.
LEMMA SetPasswordKeeps ==
    ASSUME IInv, NEW r \in Request, SetPassword(r)
    PROVE  Rows' /\ LoginMethodRemains' /\ OnlyEnds /\ identity' = identity
<1>. DEFINE s == request[r].session
            u == Owner(s)
            row == [user[u] EXCEPT !.password = TRUE, !.version = @ + 1]
<1>1. s \in Session /\ identity' = identity /\ attempt' = attempt
  BY DEF SetPassword, IInv, Rows, TypeOK, Local, RequestsAreWhole, Whole
<1>2. request' \in [Request -> Local] /\ RequestsAreWhole'
  BY RequestEnds DEF SetPassword, IInv
<1>3. CASE ValidateMutation(r) /\ ~user[u].password /\ user[u].version < MaxVersion
  <2>1. u \in User
    BY <1>1, <1>3, LiveIsOwned DEF ValidateMutation, IInv
  <2>2. user[u].version + 1 \in 0..MaxVersion
    BY <1>3, <2>1, OAuthAssumption DEF IInv, Rows, TypeOK, UserRow
  <2>3. row \in UserRow /\ row.password = TRUE
    BY <2>1, <2>2 DEF IInv, Rows, TypeOK, UserRow
  <2>4. user' = [user EXCEPT ![u] = row] /\ RevokeOthers(s)
    BY <1>3, <2>1 DEF SetPassword, IInv, Rows, TypeOK
  <2>5. user' \in [User -> UserRow] /\ LoginMethodRemains'
    <3>. HIDE DEF row, u, s
    <3>. QED
      BY <1>1, <2>1, <2>3, <2>4, UserChangeKeepsMethod
  <2>6. OnlyEnds
    BY <2>4, RevokeEnds DEF IInv
  <2>7. session' \in [Session -> SessionRow] /\ SessionsAreOwned'
    BY <2>6, EndsKeep DEF IInv
  <2>. QED
    BY <1>1, <1>2, <2>5, <2>6, <2>7 DEF IInv, Rows, TypeOK, AttemptsAreWhole
<1>4. CASE ~(ValidateMutation(r) /\ ~user[u].password /\ user[u].version < MaxVersion)
  <2>1. session' = session /\ user' = user
    BY <1>4 DEF SetPassword
  <2>2. LoginMethodRemains' /\ OnlyEnds
    BY <1>1, <2>1 DEF IInv, Rows, TypeOK, LoginMethodRemains, Identities, OnlyEnds
  <2>. QED
    BY <1>1, <1>2, <2>1, <2>2 DEF IInv, Rows, TypeOK, AttemptsAreWhole, SessionsAreOwned, Owner
<1>. QED
  BY <1>3, <1>4

-----------------------------------------------------------------------------
(* The rest of the application *)

\* An account with a password, and its first session.
LEMMA RegisterKeeps ==
    ASSUME IInv, NEW u \in User, Register(u)
    PROVE  Rows' /\ LoginMethodRemains' /\ Starts(u, None) /\ identity' = identity
<1>. DEFINE row == [Absent EXCEPT !.status = "active", !.password = TRUE]
<1>1. row \in UserRow /\ row.password = TRUE
  BY EmptyRows DEF UserRow
<1>2. user' \in [User -> UserRow] /\ LoginMethodRemains'
  <2>1. user' = [user EXCEPT ![u] = row] /\ identity' = identity
    BY DEF Register
  <2>. HIDE DEF row
  <2>. QED
    BY <1>1, <2>1, UserChangeKeepsMethod
<1>3. session' \in [Session -> SessionRow] /\ SessionsAreOwned' /\ Starts(u, None)
  BY SessionStarts DEF Register, IInv
<1>. QED
  BY <1>2, <1>3 DEF Register, IInv, Rows, TypeOK, AttemptsAreWhole, RequestsAreWhole, Whole

\* A login by password.
LEMMA LoginKeeps ==
    ASSUME IInv, NEW u \in User, Login(u)
    PROVE  Rows' /\ LoginMethodRemains' /\ Starts(u, None) /\ identity' = identity
<1>1. session' \in [Session -> SessionRow] /\ SessionsAreOwned' /\ Starts(u, None)
  BY SessionStarts DEF Login, IInv
<1>2. LoginMethodRemains'
  BY DEF Login, IInv, LoginMethodRemains, Identities
<1>. QED
  BY <1>1, <1>2 DEF Login, IInv, Rows, TypeOK, AttemptsAreWhole, RequestsAreWhole, Whole

\* A new password ends the user's other sessions.
LEMMA ChangePasswordKeeps ==
    ASSUME IInv, NEW s \in Session, ChangePassword(s)
    PROVE  Rows' /\ LoginMethodRemains' /\ OnlyEnds /\ identity' = identity
<1>. DEFINE u == Owner(s)
            row == [user[u] EXCEPT !.version = @ + 1]
<1>1. u \in User
  BY LiveIsOwned DEF ChangePassword, Authenticated, IInv
<1>2. user[u].version + 1 \in 0..MaxVersion
  BY <1>1, OAuthAssumption DEF ChangePassword, IInv, Rows, TypeOK, UserRow
<1>3. row \in UserRow /\ row.password = TRUE
  BY <1>1, <1>2 DEF ChangePassword, IInv, Rows, TypeOK, UserRow
<1>4. user' = [user EXCEPT ![u] = row]
  BY <1>1 DEF ChangePassword, IInv, Rows, TypeOK
<1>5. user' \in [User -> UserRow] /\ LoginMethodRemains'
  BY <1>1, <1>3, <1>4, UserChangeKeepsMethod DEF ChangePassword
<1>6. OnlyEnds
  BY RevokeEnds DEF ChangePassword, IInv
<1>7. session' \in [Session -> SessionRow] /\ SessionsAreOwned'
  BY <1>6, EndsKeep DEF IInv
<1>. QED
  BY <1>5, <1>6, <1>7
  DEF ChangePassword, IInv, Rows, TypeOK, AttemptsAreWhole, RequestsAreWhole, Whole

\* A session is revoked by its user.
LEMMA LogoutKeeps ==
    ASSUME IInv, NEW s \in Session, Logout(s)
    PROVE  Rows' /\ LoginMethodRemains' /\ OnlyEnds /\ identity' = identity
<1>1. OnlyEnds
  BY DEF Logout, OnlyEnds, IInv, Rows, TypeOK
<1>2. session' \in [Session -> SessionRow] /\ SessionsAreOwned'
  BY <1>1, EndsKeep DEF IInv
<1>3. LoginMethodRemains'
  BY DEF Logout, IInv, LoginMethodRemains, Identities
<1>. QED
  BY <1>1, <1>2, <1>3
  DEF Logout, IInv, Rows, TypeOK, AttemptsAreWhole, RequestsAreWhole, Whole

\* A session expires or is withdrawn.
LEMMA SessionEndsKeeps ==
    ASSUME IInv, NEW s \in Session, SessionEnds(s)
    PROVE  Rows' /\ LoginMethodRemains' /\ OnlyEnds /\ identity' = identity
<1>1. OnlyEnds
  BY DEF SessionEnds, OnlyEnds, IInv, Rows, TypeOK
<1>2. session' \in [Session -> SessionRow] /\ SessionsAreOwned'
  BY <1>1, EndsKeep DEF IInv
<1>3. LoginMethodRemains'
  BY DEF SessionEnds, IInv, LoginMethodRemains, Identities
<1>. QED
  BY <1>1, <1>2, <1>3
  DEF SessionEnds, IInv, Rows, TypeOK, AttemptsAreWhole, RequestsAreWhole, Whole

\* A ban ends the user's sessions.
LEMMA SetBanKeeps ==
    ASSUME IInv, NEW u \in User, SetBan(u)
    PROVE  Rows' /\ LoginMethodRemains' /\ OnlyEnds /\ identity' = identity
<1>. DEFINE row == [user[u] EXCEPT !.status = IF user[u].status = "active"
                                              THEN "banned" ELSE "active"]
<1>1. row \in UserRow /\ row.password = user[u].password
  BY DEF IInv, Rows, TypeOK, UserRow
<1>2. user' = [user EXCEPT ![u] = row]
  BY DEF SetBan, IInv, Rows, TypeOK
<1>3. user' \in [User -> UserRow] /\ LoginMethodRemains'
  BY <1>1, <1>2, UserChangeKeepsMethod DEF SetBan
<1>4. OnlyEnds
  BY DEF SetBan, OnlyEnds
<1>5. session' \in [Session -> SessionRow] /\ SessionsAreOwned'
  BY <1>4, EndsKeep DEF IInv
<1>. QED
  BY <1>3, <1>4, <1>5
  DEF SetBan, IInv, Rows, TypeOK, AttemptsAreWhole, RequestsAreWhole, Whole

-----------------------------------------------------------------------------
(* Steps *)

\* Every step that leaves the identities alone only ends sessions or starts one:
\* by password, or with the identity that its user has.
StartsOrEnds ==
    /\ identity' = identity
    /\ \/ OnlyEnds
       \/ \E u \in User : Starts(u, None)
       \/ \E u \in User, i \in Identity : identity[i] = u /\ Starts(u, i)

\* An identity is given to a new user with its first session, ...
SignsUp ==
    \E u \in User, i \in Identity :
        /\ user[u] = Absent
        /\ identity[i] = None /\ identity' = [identity EXCEPT ![i] = u]
        /\ Starts(u, i)

\* ... or to the owner of the session whose link is carried out, ...
Links ==
    \E r \in Request, s \in Session, i \in Identity :
        /\ request[r].pc = "read" /\ request[r].session = s /\ request[r].id = i
        /\ Unrevoked(s) /\ Active(Owner(s)) /\ Owner(s) \in User /\ session' = session
        /\ identity[i] \in {None, Owner(s)}
        /\ identity' = [identity EXCEPT ![i] = Owner(s)]

\* ... or taken from the owner of a session that ends the others.
Unlinks ==
    \E r \in Request :
        /\ request[r].pc = "unlink"
        /\ RevokeOthers(request[r].session)
        /\ \A i \in Identity : \/ identity'[i] = identity[i]
                               \/ /\ identity[i] = Owner(request[r].session)
                                  /\ identity'[i] = None

Effect == StartsOrEnds \/ SignsUp \/ Links \/ Unlinks

\* Every step keeps the invariant and has one of these effects.
LEMMA NextKeeps ==
    ASSUME IInv, [Next]_vars
    PROVE  IInv' /\ Effect
<1>0. ASSUME UNCHANGED <<session, identity>> PROVE Effect
  BY <1>0 DEF Effect, StartsOrEnds, OnlyEnds, IInv, Rows, TypeOK
<1>a. ASSUME Rows', UNCHANGED <<user, identity>> PROVE IInv'
  BY <1>a DEF IInv, LoginMethodRemains, Identities
<1>1. ASSUME NEW r \in Request, NEW a \in Attempt, Consume(r, a) PROVE IInv' /\ Effect
  BY <1>0, <1>a, <1>1, ConsumeRows DEF Consume, IInv
<1>2. ASSUME NEW r \in Request, Exchange(r) PROVE IInv' /\ Effect
  BY <1>0, <1>a, <1>2, ExchangeRows DEF Exchange, IInv
<1>3. ASSUME NEW r \in Request, ReadIdentity(r) PROVE IInv' /\ Effect
  BY <1>0, <1>a, <1>3, ReadIdentityRows DEF ReadIdentity, IInv
<1>b. ASSUME NEW r \in Request, request[r].pc = "read" PROVE request[r].id \in Identity
  BY <1>b DEF IInv, Rows, RequestsAreWhole, Whole
<1>4. ASSUME NEW r \in Request, FinishLink(r) PROVE IInv' /\ Effect
  <2>1. request[r].id \in Identity
    BY <1>b, <1>4 DEF FinishLink
  <2>. QED
    BY <1>0, <1>4, <2>1, FinishLinkKeeps DEF IInv, Effect, Links
<1>5. ASSUME NEW r \in Request, FinishLogin(r) PROVE IInv' /\ Effect
  <2>1. request[r].id \in Identity
    BY <1>b, <1>5 DEF FinishLogin
  <2>. QED
    BY <1>0, <1>5, <2>1, FinishLoginKeeps DEF IInv, Effect, StartsOrEnds
<1>6. ASSUME NEW r \in Request, FinishSignup(r) PROVE IInv' /\ Effect
  <2>1. request[r].id \in Identity
    BY <1>b, <1>6 DEF FinishSignup
  <2>. QED
    BY <1>0, <1>6, <2>1, FinishSignupKeeps DEF IInv, Effect, SignsUp
<1>7. ASSUME NEW r \in Request, NEW s \in Session, NEW pc \in {"unlink", "set_password"},
             NEW p \in Provider \cup {None}, BeginChange(r, s, pc, p)
      PROVE  IInv' /\ Effect
  BY <1>0, <1>a, <1>7, BeginChangeRows DEF BeginChange, IInv
<1>8. ASSUME NEW r \in Request, Unlink(r) PROVE IInv' /\ Effect
  <2>1. request[r].pc = "unlink"
    BY <1>8 DEF Unlink
  <2>. QED
    BY <1>8, <2>1, UnlinkKeeps DEF IInv, Effect, StartsOrEnds, Unlinks
<1>9. ASSUME NEW r \in Request, SetPassword(r) PROVE IInv' /\ Effect
  BY <1>9, SetPasswordKeeps DEF IInv, Effect, StartsOrEnds
<1>10. ASSUME NEW a \in Attempt, NEW p \in Provider, NEW s \in Session \cup {None},
              BeginAttempt(a, p, s)
       PROVE  IInv' /\ Effect
  BY <1>0, <1>a, <1>10, BeginAttemptRows DEF BeginAttempt, IInv
<1>11. ASSUME NEW a \in Attempt, AttemptExpires(a) PROVE IInv' /\ Effect
  BY <1>0, <1>a, <1>11, AttemptExpiresRows DEF AttemptExpires, IInv
<1>12. ASSUME NEW u \in User, Register(u) PROVE IInv' /\ Effect
  BY <1>12, RegisterKeeps DEF IInv, Effect, StartsOrEnds
<1>13. ASSUME NEW u \in User, Login(u) PROVE IInv' /\ Effect
  BY <1>13, LoginKeeps DEF IInv, Effect, StartsOrEnds
<1>14. ASSUME NEW u \in User, SetBan(u) PROVE IInv' /\ Effect
  BY <1>14, SetBanKeeps DEF IInv, Effect, StartsOrEnds
<1>15. ASSUME NEW s \in Session, ChangePassword(s) PROVE IInv' /\ Effect
  BY <1>15, ChangePasswordKeeps DEF IInv, Effect, StartsOrEnds
<1>16. ASSUME NEW s \in Session, SessionEnds(s) PROVE IInv' /\ Effect
  BY <1>16, SessionEndsKeeps DEF IInv, Effect, StartsOrEnds
<1>c. ASSUME NEW s \in Session, Logout(s) PROVE IInv' /\ Effect
  BY <1>c, LogoutKeeps DEF IInv, Effect, StartsOrEnds
<1>17. CASE UNCHANGED vars
  <2>1. Rows'
    BY <1>17 DEF vars, IInv, Rows, TypeOK, RequestsAreWhole, Whole, AttemptsAreWhole,
                 SessionsAreOwned, Owner
  <2>. QED
    BY <1>0, <1>a, <1>17, <2>1 DEF vars
<1>18. ASSUME NEW r \in Request, Callback(r) PROVE IInv' /\ Effect
  BY <1>1, <1>2, <1>3, <1>4, <1>5, <1>6, <1>18 DEF Callback
<1>19. ASSUME NEW r \in Request, Change(r) PROVE IInv' /\ Effect
  BY <1>7, <1>8, <1>9, <1>19 DEF Change
<1>20. CASE Environment
  BY <1>10, <1>11, <1>12, <1>13, <1>14, <1>15, <1>16, <1>c, <1>20 DEF Environment
<1>. QED
  BY <1>17, <1>18, <1>19, <1>20 DEF Next

\* The empty database.
LEMMA InitEstablishesIInv == Init => IInv
<1>. SUFFICES ASSUME Init PROVE IInv
  OBVIOUS
<1>1. TypeOK
  BY EmptyRows DEF Init, TypeOK
<1>2. RequestsAreWhole /\ AttemptsAreWhole /\ SessionsAreOwned
  BY EmptyRows DEF Init, RequestsAreWhole, AttemptsAreWhole, SessionsAreOwned
<1>3. LoginMethodRemains
  BY EmptyRows DEF Init, LoginMethodRemains
<1>. QED
  BY <1>1, <1>2, <1>3 DEF IInv, Rows

\* The invariant holds in every behaviour.
THEOREM Safety == Spec => []IInv
<1>1. IInv /\ [Next]_vars => IInv'
  BY NextKeeps
<1>. QED
  BY <1>1, InitEstablishesIInv, PTL DEF Spec

\* Every account has a password or an identity (unlink, set_password and _finish,
\* whatever they interleave with).
THEOREM LoginMethodRemainsHolds == Spec => []LoginMethodRemains
<1>1. IInv => LoginMethodRemains
  BY DEF IInv
<1>. QED
  BY <1>1, Safety, PTL

\* A revoked session gives nobody an identity, whatever its callbacks interleave
\* with (_finish, logout, revoke_other_sessions, set_ban_state).
THEOREM LinksEndWithTheirSessionHolds == Spec => LinksEndWithTheirSession
<1>. DEFINE Goal(i) ==
              \/ user[identity'[i]] = Absent
              \/ \E r \in Request :
                    LET s == request[r].session
                    IN  /\ request[r].pc = "read" /\ request[r].id = i /\ s # None
                        /\ Unrevoked(s) /\ Owner(s) = identity'[i] /\ Active(Owner(s))
            P == \A i \in Identity : identity[i] = None /\ identity'[i] # None => Goal(i)
<1>1. ASSUME IInv, [Next]_vars PROVE P
  <2>. SUFFICES ASSUME NEW i \in Identity, identity[i] = None, identity'[i] # None
                PROVE  Goal(i)
    OBVIOUS
  <2>1. Effect
    BY <1>1, NextKeeps
  <2>2. CASE StartsOrEnds
    BY <2>2 DEF StartsOrEnds
  <2>3. CASE SignsUp
    BY <1>1, <2>3 DEF SignsUp, IInv, Rows, TypeOK
  <2>4. CASE Links
    <3>1. PICK r \in Request, s \in Session, j \in Identity :
              /\ request[r].pc = "read" /\ request[r].session = s /\ request[r].id = j
              /\ Unrevoked(s) /\ Active(Owner(s))
              /\ identity' = [identity EXCEPT ![j] = Owner(s)]
      BY <2>4 DEF Links
    <3>2. i = j /\ identity'[i] = Owner(s)
      BY <1>1, <3>1 DEF IInv, Rows, TypeOK
    <3>3. s # None
      BY OAuthAssumption
    <3>. QED
      BY <3>1, <3>2, <3>3
  <2>5. CASE Unlinks
    BY <2>5 DEF Unlinks
  <2>. QED
    BY <2>1, <2>2, <2>3, <2>4, <2>5 DEF Effect
<1>. QED
  BY <1>1, Safety, PTL DEF Spec, LinksEndWithTheirSession

\* Unlinking an identity ends every session it logged in to, but the one that
\* unlinked it (unlink, revoke_other_sessions, _finish).
THEOREM UnlinkingEndsSessionsHolds == Spec => UnlinkingEndsSessions
<1>. DEFINE P == \A s \in Session :
                    LET via == session'[s].via
                    IN  /\ via # None /\ session'[s].state = "live"
                        /\ identity'[via] # session'[s].user
                        => /\ session[s] # NoSession
                           /\ \/ identity[via] # session[s].user
                              \/ \E r \in Request :
                                    request[r].pc = "unlink" /\ request[r].session = s
<1>1. ASSUME IInv, [Next]_vars PROVE P
  <2>. DEFINE via(s) == session'[s].via
              Goal(s) == /\ session[s] # NoSession
                         /\ \/ identity[via(s)] # session[s].user
                            \/ \E r \in Request :
                                  request[r].pc = "unlink" /\ request[r].session = s
  <2>1. SUFFICES ASSUME NEW s \in Session, via(s) # None, session'[s].state = "live",
                        identity'[via(s)] # session'[s].user
                 PROVE  Goal(s)
    OBVIOUS
  <2>2. IInv' /\ Effect
    BY <1>1, NextKeeps
  <2>3. via(s) \in Identity
    BY <2>1, <2>2 DEF IInv, Rows, TypeOK, SessionRow
  <2>4. ASSUME session'[s] = session[s]
        PROVE  session[s] # NoSession /\ session[s].user \in User
    BY <1>1, <2>1, <2>4, EmptyRows DEF IInv, Rows, SessionsAreOwned, Owner
  <2>5. ASSUME session'[s] = session[s], identity'[via(s)] = identity[via(s)] PROVE Goal(s)
    BY <2>1, <2>4, <2>5
  <2>6. ASSUME session'[s] = session[s], identity[via(s)] = None PROVE Goal(s)
    BY <2>4, <2>6, OAuthAssumption
  <2>7. ASSUME NEW u, NEW i, Starts(u, i), i # None => identity'[i] = u
        PROVE  session'[s] = session[s]
    BY <2>1, <2>7 DEF Starts
  <2>8. session'[s] # Ended(session[s]) /\ session'[s] # Revoked(session[s])
    BY <1>1, <2>1 DEF Ended, Revoked, IInv, Rows, TypeOK, SessionRow
  <2>9. CASE StartsOrEnds
    <3>1. session'[s] = session[s]
      BY <2>7, <2>8, <2>9 DEF StartsOrEnds, OnlyEnds
    <3>. QED
      BY <2>5, <2>9, <3>1 DEF StartsOrEnds
  <2>10. CASE SignsUp
    <3>1. PICK u \in User, i \in Identity :
              /\ identity[i] = None /\ identity' = [identity EXCEPT ![i] = u]
              /\ Starts(u, i)
      BY <2>10 DEF SignsUp
    <3>2. /\ identity'[i] = u
          /\ \A j \in Identity : j # i => identity'[j] = identity[j]
      BY <1>1, <3>1 DEF IInv, Rows, TypeOK
    <3>3. session'[s] = session[s]
      BY <2>7, <3>1, <3>2
    <3>. QED
      BY <2>3, <2>5, <2>6, <3>1, <3>2, <3>3
  <2>11. CASE Links
    <3>1. PICK r \in Request, t \in Session, i \in Identity :
              /\ session' = session /\ identity[i] \in {None, Owner(t)}
              /\ identity' = [identity EXCEPT ![i] = Owner(t)]
      BY <2>11 DEF Links
    <3>2. \A j \in Identity : identity'[j] = identity[j] \/ identity[j] = None
      BY <1>1, <3>1 DEF IInv, Rows, TypeOK
    <3>. QED
      BY <2>3, <2>5, <2>6, <3>1, <3>2
  <2>12. CASE Unlinks
    <3>1. PICK r \in Request :
              /\ request[r].pc = "unlink"
              /\ RevokeOthers(request[r].session)
              /\ \A i \in Identity : \/ identity'[i] = identity[i]
                                     \/ /\ identity[i] = Owner(request[r].session)
                                        /\ identity'[i] = None
      BY <2>12 DEF Unlinks
    <3>2. session'[s] = session[s]
      BY <2>8, <3>1 DEF RevokeOthers
    <3>3. CASE request[r].session = s
      BY <2>4, <3>1, <3>2, <3>3
    <3>4. CASE request[r].session # s
      <4>1. Owner(s) # Owner(request[r].session)
        BY <2>1, <2>8, <3>1, <3>2, <3>4 DEF RevokeOthers, Unrevoked
      <4>2. identity'[via(s)] = identity[via(s)] \/ identity[via(s)] # session[s].user
        BY <2>3, <3>1, <4>1 DEF Owner
      <4>. QED
        BY <2>4, <2>5, <3>2, <4>2
    <3>. QED
      BY <3>3, <3>4
  <2>. QED
    BY <2>2, <2>9, <2>10, <2>11, <2>12 DEF Effect
<1>. QED
  BY <1>1, Safety, PTL DEF Spec, UnlinkingEndsSessions
=============================================================================
