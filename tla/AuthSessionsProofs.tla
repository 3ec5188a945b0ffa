-------------------------- MODULE AuthSessionsProofs --------------------------
(***************************************************************************)
(* Proofs about AuthSessions.  What rotation, revocation and cleanup promise *)
(* follows from facts about rows and from how long a request can rely on the *)
(* rows it read before it locked them; that locks are taken in order follows *)
(* from whose rows a request locks, and that it locks the user first.  Of     *)
(* both together each session is one object, as SessionLifecycle has it.      *)
(***************************************************************************)
EXTENDS AuthSessionsLifecycle, FiniteSetTheorems, TLAPS

\* The transactions that lock the user's row before anything else.
UserLocking == {"login", "refresh", "replay", "logout", "change", "ban", "unban"}

-----------------------------------------------------------------------------
(* Rows *)

SessionsAreWhole ==
    \A s \in Session : session[s].user = None => session[s] = NoSession

\* A token belongs to a session that is there, and is used as often as it was
\* answered; what is not there was never presented.
TokensFit ==
    \A t \in Token :
        /\ token[t].session = None => token[t] = NoToken
        /\ token[t] = NoToken => presented[t] = 0
        /\ token[t] # NoToken =>
             LET s == token[t].session
             IN  /\ s \in Session /\ session[s] # NoSession
                 /\ token[t].left <= session[s].left
                 /\ session[s].revoked = TRUE => token[t].revoked = TRUE
                 /\ presented[t] # 0 => token[t].consumed = TRUE
                 /\ presented[t] = 2 => session[s].revoked = TRUE

Usable(t) ==
    token[t].session # None /\ token[t].revoked = FALSE /\ token[t].consumed = FALSE

\* OneLiveToken, token by token.
OneUsable ==
    \A t1, t2 \in Token :
        Usable(t1) /\ Usable(t2) /\ token[t1].session = token[t2].session => t1 = t2

RowsInv == SessionsAreWhole /\ TokensFit /\ OneUsable

-----------------------------------------------------------------------------
(* Requests *)

\* A transaction has what it begins with, and no more.
RequestsFit ==
    \A r \in Request :
        /\ request[r].kind = "idle" => request[r] = Idle
        /\ request[r].user # None <=> request[r].kind \in UserLocking
        /\ request[r].session # None <=>
             request[r].kind \in {"refresh", "replay", "logout", "change", "revoke"}
        /\ request[r].token # None <=> request[r].kind \in {"refresh", "replay", "logout"}

\* What a request read of its token and its session stays true as long as they are
\* there: neither is given to another session or user while a request refers to it.
ReadsLast ==
    \A r \in Request :
        LET s == request[r].session
            t == request[r].token
        IN  /\ s # None /\ request[r].user # None /\ session[s] # NoSession
                 => session[s].user = request[r].user
            /\ t # None /\ token[t] # NoToken => token[t].session = s
            /\ request[r].kind = "replay" /\ token[t] # NoToken
                 => token[t].consumed = TRUE

\* Requests that share a session or a token read the same of it.
ReadsAgree ==
    \A q, r \in Request :
        /\ request[q].session = request[r].session /\ request[q].session # None
           /\ request[q].user # None /\ request[r].user # None
             => request[q].user = request[r].user
        /\ request[q].token = request[r].token /\ request[q].token # None
             => request[q].session = request[r].session

RequestsInv == RequestsFit /\ ReadsLast /\ ReadsAgree

-----------------------------------------------------------------------------
(* Locks *)

OwnSession(r, s) == s = request[r].session \/ session[s].user = request[r].user
OwnToken(r, t) ==
    \/ t = request[r].token
    \/ token[t] # NoToken /\ session[token[t].session].user = request[r].user

\* The rows that belong to the user of a request.
OwnRow(r, row) ==
    \/ row = <<"user", request[r].user>>
    \/ \E s \in Session : row = <<"session", s>> /\ OwnSession(r, s)
    \/ \E t \in Token : row = <<"token", t>> /\ OwnToken(r, t)

\* A transaction that locks the user locks rows of that user only, the user first.
LocksAreOwn ==
    \A r \in Request, row \in Row : lock[row] = r =>
        /\ request[r].kind # "idle"
        /\ request[r].kind \in UserLocking =>
             OwnRow(r, row) /\ lock[<<"user", request[r].user>>] = r

IInv == TypeOK /\ RowsInv /\ RequestsInv /\ LocksAreOwn

-----------------------------------------------------------------------------
(* What a step may do to the rows that requests rely on *)

LockedByCleanup(row) ==
    lock[row] \in Request /\ request[lock[row]].kind = "cleanup"

\* Rows change hands only when no request refers to them, and go only when their
\* cleanup has locked them.
RowsPass ==
    /\ \A s \in Session :
         \/ session'[s].user = session[s].user
         \/ session[s] = NoSession /\ \A r \in Request : request[r].session # s
         \/ session'[s] = NoSession /\ LockedByCleanup(<<"session", s>>)
    /\ \A t \in Token :
         \/ /\ token'[t].session = token[t].session
            /\ token[t].consumed = TRUE => token'[t].consumed = TRUE
         \/ token[t] = NoToken /\ \A r \in Request : request[r].token # t
         \/ token'[t] = NoToken /\ LockedByCleanup(<<"token", t>>)

\* A request stays as it is, or lets all its locks go: it ends, or goes on to end
\* the session of the consumed token it met.
LetsGo(r) ==
    /\ \A row \in Row : lock'[row] # r
    /\ \/ request'[r] = Idle
       \/ /\ request[r].kind = "refresh" /\ request'[r].kind = "replay"
          /\ request'[r].user = request[r].user
          /\ request'[r].session = request[r].session
          /\ request'[r].token = request[r].token
          /\ token'[request[r].token].consumed = TRUE

RequestsLetGo ==
    /\ \A r \in Request : request'[r] = request[r] \/ LetsGo(r)
    /\ \A row \in Row :
         \/ lock'[row] = lock[row]
         \/ lock'[row] = None /\ \A other \in Row : lock'[other] # lock[row]

\* Types, for the rows that a request names.
LEMMA RequestTypes ==
    ASSUME IInv, NEW r \in Request
    PROVE  /\ request[r] \in Local
           /\ request[r].user \in User \cup {None}
           /\ request[r].session \in Session \cup {None}
           /\ request[r].token \in Token \cup {None}
           /\ request[r].version \in 0..MaxVersion
           /\ None \notin User \cup Session \cup Token \cup Request
  BY SessionsAssumption DEF IInv, TypeOK, Local

\* What is not there belongs to nobody, and an idle request refers to nothing.
LEMMA Nobodys ==
    /\ NoSession.user = None /\ NoSession.revoked = FALSE
    /\ NoToken.session = None /\ NoToken.consumed = FALSE /\ NoToken.revoked = FALSE
    /\ Idle.kind = "idle" /\ Idle.user = None /\ Idle.session = None /\ Idle.token = None
  BY DEF NoSession, NoToken, Idle

\* Where rows only pass and requests only let go, requests and locks stay as they
\* should be.
LEMMA RequestsSurvive ==
    ASSUME IInv, TypeOK', RowsInv', RowsPass, RequestsLetGo
    PROVE  RequestsInv' /\ LocksAreOwn'
<1> USE DEF IInv, RequestsInv
<1>1. ASSUME NEW r \in Request, request'[r] # request[r]
      PROVE  /\ \A row \in Row : lock'[row] # r
             /\ \/ request'[r] = Idle
                \/ /\ request[r].kind = "refresh" /\ request'[r].kind = "replay"
                   /\ request'[r].user = request[r].user
                   /\ request'[r].session = request[r].session
                   /\ request'[r].token = request[r].token
                   /\ token'[request[r].token].consumed = TRUE
  BY <1>1 DEF RequestsLetGo, LetsGo
<1>2. RequestsFit'
  <2> SUFFICES ASSUME NEW r \in Request
               PROVE  /\ request'[r].kind = "idle" => request'[r] = Idle
                      /\ request'[r].user # None <=> request'[r].kind \in UserLocking
                      /\ request'[r].session # None <=>
                           request'[r].kind
                             \in {"refresh", "replay", "logout", "change", "revoke"}
                      /\ request'[r].token # None <=>
                           request'[r].kind \in {"refresh", "replay", "logout"}
    BY DEF RequestsFit
  <2>1. CASE request'[r] = request[r]
    BY <2>1 DEF RequestsFit
  <2>2. CASE request'[r] # request[r] /\ request'[r].kind = "idle"
    BY <1>1, <2>2, Nobodys DEF UserLocking
  <2>3. CASE request'[r] # request[r] /\ request'[r].kind = "replay"
    <3>1. /\ request[r].kind = "refresh" /\ request'[r].user = request[r].user
          /\ request'[r].session = request[r].session
          /\ request'[r].token = request[r].token
      BY <1>1, <2>3, Nobodys
    <3>2. /\ request[r].user # None /\ request[r].session # None
          /\ request[r].token # None
      BY <3>1 DEF RequestsFit, UserLocking
    <3> QED
      BY <2>3, <3>1, <3>2 DEF UserLocking
  <2> QED
    BY <1>1, <2>1, <2>2, <2>3, Nobodys
<1>3. ASSUME NEW r \in Request, request'[r].session # None, request'[r].user # None,
             session'[request'[r].session] # NoSession
      PROVE  session'[request'[r].session].user = request'[r].user
  <2> DEFINE s == request[r].session
  <2>1. request'[r].session = s /\ request'[r].user = request[r].user
    BY <1>1, <1>3, Nobodys
  <2>2. s \in Session
    BY <1>3, <2>1, RequestTypes
  <2>3. session'[s].user = session[s].user
    BY <1>3, <2>1, <2>2 DEF RowsPass
  <2>4. session[s] # NoSession
    BY <1>3, <2>1, <2>2, <2>3, Nobodys DEF RowsInv, SessionsAreWhole
  <2> QED
    BY <1>3, <2>1, <2>3, <2>4 DEF ReadsLast
<1>4. ASSUME NEW r \in Request, request'[r].token # None,
             token'[request'[r].token] # NoToken
      PROVE  /\ token'[request'[r].token].session = request'[r].session
             /\ request'[r].kind = "replay" => token'[request'[r].token].consumed = TRUE
  <2> DEFINE t == request[r].token
  <2>1. request'[r].token = t /\ request'[r].session = request[r].session
    BY <1>1, <1>4, Nobodys
  <2>2. t \in Token
    BY <1>4, <2>1, RequestTypes
  <2>3. /\ token'[t].session = token[t].session
        /\ token[t].consumed = TRUE => token'[t].consumed = TRUE
    BY <1>4, <2>1, <2>2 DEF RowsPass
  <2>4. token[t] # NoToken
    BY <1>4, <2>1, <2>2, <2>3, Nobodys DEF RowsInv, TokensFit
  <2>5. token[t].session = request[r].session
    BY <2>1, <2>4, <1>4 DEF ReadsLast
  <2>6. ASSUME request'[r].kind = "replay" PROVE token'[t].consumed = TRUE
    <3>1. CASE request'[r] = request[r]
      BY <2>3, <2>4, <2>6, <3>1 DEF ReadsLast
    <3>2. CASE request'[r] # request[r]
      BY <1>1, <2>6, <3>2, Nobodys
    <3> QED
      BY <3>1, <3>2
  <2> QED
    BY <2>1, <2>3, <2>5, <2>6
<1>5. ReadsLast'
  BY <1>2, <1>3, <1>4, RequestTypes DEF ReadsLast, RequestsFit
<1>6. ReadsAgree'
  <2>1. \A r \in Request :
          \/ /\ request'[r].user = request[r].user
             /\ request'[r].session = request[r].session
             /\ request'[r].token = request[r].token
          \/ /\ request'[r].user = None /\ request'[r].session = None
             /\ request'[r].token = None
    BY <1>1, Nobodys
  <2> QED
    BY <2>1 DEF ReadsAgree
<1>7. ASSUME NEW r \in Request, NEW row \in Row, lock'[row] = r
      PROVE  /\ request'[r].kind # "idle"
             /\ request'[r].kind \in UserLocking =>
                  OwnRow(r, row)' /\ lock'[<<"user", request'[r].user>>] = r
  <2>1. lock[row] = r /\ request'[r] = request[r]
    <3>1. request'[r] = request[r]
      BY <1>1, <1>7
    <3>2. r # None
      BY RequestTypes
    <3> QED
      BY <1>7, <3>1, <3>2 DEF RequestsLetGo
  <2>2. request'[r].kind # "idle"
    BY <2>1 DEF LocksAreOwn
  <2>3. ASSUME request[r].kind \in UserLocking
        PROVE  OwnRow(r, row)' /\ lock'[<<"user", request'[r].user>>] = r
    <3>1. /\ OwnRow(r, row) /\ lock[<<"user", request[r].user>>] = r
          /\ request[r].user \in User
      BY <2>1, <2>3, RequestTypes DEF LocksAreOwn, RequestsFit
    <3>2. lock'[<<"user", request'[r].user>>] = r
      BY <1>7, <2>1, <3>1 DEF RequestsLetGo, Row
    <3>3. ~LockedByCleanup(row)
      BY <2>1, <2>3 DEF LockedByCleanup, UserLocking
    <3>4. ASSUME NEW s \in Session, row = <<"session", s>>, OwnSession(r, s)
          PROVE  OwnSession(r, s)'
      <4>1. CASE s = request[r].session
        BY <2>1, <4>1 DEF OwnSession
      <4>2. CASE session[s].user = request[r].user
        <5>1. session[s] # NoSession
          BY <3>1, <4>2, RequestTypes, Nobodys
        <5>2. session'[s].user = session[s].user
          BY <3>3, <3>4, <5>1 DEF RowsPass
        <5> QED
          BY <2>1, <4>2, <5>2 DEF OwnSession
      <4> QED
        BY <3>4, <4>1, <4>2 DEF OwnSession
    <3>5. ASSUME NEW t \in Token, row = <<"token", t>>, OwnToken(r, t)
          PROVE  OwnToken(r, t)'
      <4>1. CASE t = request[r].token
        BY <2>1, <4>1 DEF OwnToken
      <4>2. CASE token[t] # NoToken /\ session[token[t].session].user = request[r].user
        <5> DEFINE s == token[t].session
        <5>1. s \in Session /\ session[s] # NoSession /\ s # None
          BY <4>2, RequestTypes DEF RowsInv, TokensFit
        <5>2. token'[t].session = s
          BY <3>3, <3>5, <4>2 DEF RowsPass
        <5>3. token'[t] # NoToken /\ session'[s] # NoSession
          BY <5>1, <5>2, Nobodys DEF RowsInv, TokensFit
        <5>4. session'[s].user = session[s].user
          BY <5>1, <5>3 DEF RowsPass
        <5> QED
          BY <2>1, <4>2, <5>2, <5>3, <5>4 DEF OwnToken
      <4> QED
        BY <3>5, <4>1, <4>2 DEF OwnToken
    <3> QED
      BY <2>1, <3>1, <3>2, <3>4, <3>5 DEF OwnRow
  <2> QED
    BY <2>1, <2>2, <2>3
<1>8. LocksAreOwn'
  BY <1>7 DEF LocksAreOwn
<1> QED
  BY <1>2, <1>5, <1>6, <1>8
-----------------------------------------------------------------------------
(* What the transactions do to the rows *)

\* Types of the rows.
LEMMA RowTypes ==
    ASSUME IInv
    PROVE  /\ \A s \in Session :
                /\ session[s] \in SessionRow /\ session[s].user \in User \cup {None}
                /\ session[s].left \in Nat /\ session[s].revoked \in BOOLEAN
           /\ \A t \in Token :
                /\ token[t] \in TokenRow /\ token[t].session \in Session \cup {None}
                /\ token[t].left \in Nat /\ token[t].revoked \in BOOLEAN
                /\ token[t].consumed \in BOOLEAN /\ presented[t] \in 0..2
  BY SessionsAssumption DEF IInv, TypeOK, SessionRow, TokenRow

\* A new session has one token, which nobody has presented (_create_session).
LEMMA CreateSessionKeepsRows ==
    ASSUME IInv, NEW u \in User, NEW version \in 0..MaxVersion,
           CreateSession(u, version), UNCHANGED presented
    PROVE  /\ session' \in [Session -> SessionRow] /\ token' \in [Token -> TokenRow]
           /\ RowsInv' /\ RowsPass
<1> DEFINE newS == [user |-> u, left |-> RefreshTTL, revoked |-> FALSE, access |-> version]
           newT(s) == [session |-> s, left |-> RefreshTTL, consumed |-> FALSE,
                       revoked |-> FALSE]
<1>1. PICK s \in Session, t \in Token :
        /\ UnusedSession(s) /\ UnusedToken(t)
        /\ session' = [session EXCEPT ![s] = newS]
        /\ token' = [token EXCEPT ![t] = newT(s)]
  BY DEF CreateSession
<1>2. /\ newS \in SessionRow /\ newS.user = u /\ newS.left = RefreshTTL
      /\ newS.revoked = FALSE
      /\ newT(s) \in TokenRow /\ newT(s).session = s /\ newT(s).left = RefreshTTL
      /\ newT(s).revoked = FALSE
  BY SessionsAssumption DEF SessionRow, TokenRow
<1>3. newS # NoSession /\ newT(s) # NoToken
  BY <1>2, Nobodys, SessionsAssumption
<1> HIDE DEF newS, newT
<1>4. /\ session' \in [Session -> SessionRow] /\ session'[s] = newS
      /\ \A x \in Session \ {s} : session'[x] = session[x]
  BY <1>1, <1>2 DEF IInv, TypeOK
<1>5. /\ token' \in [Token -> TokenRow] /\ token'[t] = newT(s)
      /\ \A x \in Token \ {t} : token'[x] = token[x]
  BY <1>1, <1>2 DEF IInv, TypeOK
<1>6. SessionsAreWhole'
  BY <1>2, <1>4, SessionsAssumption DEF IInv, RowsInv, SessionsAreWhole
<1>7. session[s] = NoSession /\ token[t] = NoToken
  BY <1>1 DEF UnusedSession, UnusedToken
<1>8. \A x \in Token \ {t} : token[x].session # s
  BY <1>7, Nobodys, SessionsAssumption DEF IInv, RowsInv, TokensFit
<1>9. TokensFit'
  <2> SUFFICES ASSUME NEW x \in Token
               PROVE  /\ token'[x].session = None => token'[x] = NoToken
                      /\ token'[x] = NoToken => presented'[x] = 0
                      /\ token'[x] # NoToken =>
                           LET a == token'[x].session
                           IN  /\ a \in Session /\ session'[a] # NoSession
                               /\ token'[x].left <= session'[a].left
                               /\ session'[a].revoked = TRUE => token'[x].revoked = TRUE
                               /\ presented'[x] # 0 => token'[x].consumed = TRUE
                               /\ presented'[x] = 2 => session'[a].revoked = TRUE
    BY DEF TokensFit
  <2>1. CASE x = t
    <3>1. presented'[x] = 0
      BY <1>7, <2>1 DEF IInv, RowsInv, TokensFit
    <3> QED
      BY <1>2, <1>3, <1>4, <1>5, <2>1, <3>1, SessionsAssumption
  <2>2. CASE x # t
    <3>1. token'[x] = token[x] /\ presented'[x] = presented[x]
      BY <1>5, <2>2
    <3>2. token[x] # NoToken => session'[token[x].session] = session[token[x].session]
      BY <1>4, <1>8, <2>2 DEF IInv, RowsInv, TokensFit
    <3> QED
      BY <3>1, <3>2 DEF IInv, RowsInv, TokensFit
  <2> QED
    BY <2>1, <2>2
<1>10. OneUsable'
  BY <1>2, <1>5, <1>8 DEF IInv, RowsInv, OneUsable, Usable
<1>11. RowsPass
  BY <1>1, <1>4, <1>5, <1>7 DEF RowsPass, UnusedSession, UnusedToken
<1> QED
  BY <1>4, <1>5, <1>6, <1>9, <1>10, <1>11 DEF RowsInv

\* Revocation, row by row.
LEMMA RevokeAllEffect ==
    ASSUME IInv, NEW S \in SUBSET Session, RevokeAll(S)
    PROVE  /\ \A s \in Session :
                /\ session'[s] \in SessionRow
                /\ session'[s].user = session[s].user /\ session'[s].left = session[s].left
                /\ session'[s].revoked = IF s \in S THEN TRUE ELSE session[s].revoked
                /\ s \notin S => session'[s] = session[s]
           /\ \A t \in Token :
                /\ token'[t] \in TokenRow
                /\ token'[t].session = token[t].session /\ token'[t].left = token[t].left
                /\ token'[t].consumed = token[t].consumed
                /\ token[t].revoked = TRUE => token'[t].revoked = TRUE
                /\ token[t].session \in S => token'[t].revoked = TRUE
                /\ token[t].session \notin S => token'[t] = token[t]
<1>1. ASSUME NEW s \in Session
      PROVE  /\ session'[s] \in SessionRow
             /\ session'[s].user = session[s].user /\ session'[s].left = session[s].left
             /\ session'[s].revoked = IF s \in S THEN TRUE ELSE session[s].revoked
             /\ s \notin S => session'[s] = session[s]
  BY RowTypes DEF RevokeAll, SessionRow
<1>2. ASSUME NEW t \in Token
      PROVE  /\ token'[t] \in TokenRow
             /\ token'[t].session = token[t].session /\ token'[t].left = token[t].left
             /\ token'[t].consumed = token[t].consumed
             /\ token[t].revoked = TRUE => token'[t].revoked = TRUE
             /\ token[t].session \in S => token'[t].revoked = TRUE
             /\ token[t].session \notin S => token'[t] = token[t]
  BY RowTypes DEF RevokeAll, LiveTokens, TokensOf, TokenRow
<1> QED
  BY <1>1, <1>2

\* A revoked session takes its tokens with it; a consumed one may count its second
\* use then (revoke_session, _revoke_user_sessions).
LEMMA RevokeAllKeepsRows ==
    ASSUME IInv, NEW S \in SUBSET Session, RevokeAll(S),
           \A s \in S : session[s] # NoSession,
           presented' \in [Token -> 0..2],
           \A t \in Token :
             \/ presented'[t] = presented[t]
             \/ token[t].consumed = TRUE /\ token[t].session \in S
    PROVE  /\ session' \in [Session -> SessionRow] /\ token' \in [Token -> TokenRow]
           /\ RowsInv' /\ RowsPass
<1>1. ASSUME NEW s \in Session
      PROVE  /\ session'[s] \in SessionRow
             /\ session'[s].user = session[s].user /\ session'[s].left = session[s].left
             /\ session'[s].revoked = IF s \in S THEN TRUE ELSE session[s].revoked
             /\ s \notin S => session'[s] = session[s]
  BY RevokeAllEffect DEF RevokeAll
<1>2. ASSUME NEW t \in Token
      PROVE  /\ token'[t] \in TokenRow
             /\ token'[t].session = token[t].session /\ token'[t].left = token[t].left
             /\ token'[t].consumed = token[t].consumed
             /\ token[t].revoked = TRUE => token'[t].revoked = TRUE
             /\ token[t].session \in S => token'[t].revoked = TRUE
             /\ token[t].session \notin S => token'[t] = token[t]
  BY RevokeAllEffect DEF RevokeAll
<1>3. session' \in [Session -> SessionRow] /\ token' \in [Token -> TokenRow]
  BY <1>1, <1>2 DEF RevokeAll
<1>4. ASSUME NEW s \in Session
      PROVE  session'[s] = NoSession <=> session[s] = NoSession
  <2>1. CASE s \in S
    BY <1>1, <2>1, Nobodys, SessionsAssumption, RowTypes DEF IInv, RowsInv, SessionsAreWhole
  <2>2. CASE s \notin S
    BY <1>1, <2>2
  <2> QED
    BY <2>1, <2>2
<1>5. ASSUME NEW t \in Token
      PROVE  token'[t] = NoToken <=> token[t] = NoToken
  <2>1. CASE token[t].session \in S
    BY <1>2, <2>1, Nobodys, SessionsAssumption
  <2>2. CASE token[t].session \notin S
    BY <1>2, <2>2
  <2> QED
    BY <2>1, <2>2
<1>6. SessionsAreWhole'
  BY <1>1, <1>4 DEF IInv, RowsInv, SessionsAreWhole
<1>7. TokensFit'
  <2> SUFFICES ASSUME NEW x \in Token
               PROVE  /\ token'[x].session = None => token'[x] = NoToken
                      /\ token'[x] = NoToken => presented'[x] = 0
                      /\ token'[x] # NoToken =>
                           LET a == token'[x].session
                           IN  /\ a \in Session /\ session'[a] # NoSession
                               /\ token'[x].left <= session'[a].left
                               /\ session'[a].revoked = TRUE => token'[x].revoked = TRUE
                               /\ presented'[x] # 0 => token'[x].consumed = TRUE
                               /\ presented'[x] = 2 => session'[a].revoked = TRUE
    BY DEF TokensFit
  <2>1. CASE token[x] = NoToken
    <3>1. token[x].session = None /\ presented[x] = 0 /\ token[x].consumed = FALSE
      BY <2>1, Nobodys DEF IInv, RowsInv, TokensFit
    <3> QED
      BY <1>2, <1>5, <2>1, <3>1
  <2>2. CASE token[x] # NoToken
    <3> DEFINE a == token[x].session
    <3>1. /\ a \in Session /\ session[a] # NoSession /\ a # None
          /\ token[x].left <= session[a].left
          /\ session[a].revoked = TRUE => token[x].revoked = TRUE
          /\ presented[x] # 0 => token[x].consumed = TRUE
          /\ presented[x] = 2 => session[a].revoked = TRUE
      BY <2>2, SessionsAssumption DEF IInv, RowsInv, TokensFit
    <3>2. session'[a] # NoSession /\ token'[x] # NoToken /\ token'[x].session = a
      BY <1>2, <1>4, <1>5, <2>2, <3>1
    <3>3. token'[x].left <= session'[a].left
      BY <1>1, <1>2, <3>1
    <3>4. session'[a].revoked = TRUE => token'[x].revoked = TRUE
      BY <1>1, <1>2, <3>1
    <3>5. presented'[x] # 0 => token'[x].consumed = TRUE
      BY <1>2, <3>1
    <3>6. presented'[x] = 2 => session'[a].revoked = TRUE
      BY <1>1, <3>1
    <3> QED
      BY <3>1, <3>2, <3>3, <3>4, <3>5, <3>6
  <2> QED
    BY <2>1, <2>2
<1>8. OneUsable'
  <2>1. \A t \in Token : Usable(t)' => Usable(t)
    BY <1>2, RowTypes DEF Usable
  <2> SUFFICES ASSUME NEW t1 \in Token, NEW t2 \in Token, Usable(t1)', Usable(t2)',
                      token'[t1].session = token'[t2].session
               PROVE  t1 = t2
    BY DEF OneUsable, Usable
  <2>2. token[t1].session = token[t2].session
    BY <1>2
  <2>3. Usable(t1) /\ Usable(t2)
    BY <2>1
  <2> QED
    BY <2>2, <2>3 DEF IInv, RowsInv, OneUsable
<1>9. RowsPass
  BY <1>1, <1>2 DEF RowsPass
<1> QED
  BY <1>3, <1>6, <1>7, <1>8, <1>9 DEF RowsInv

\* The token that is presented is consumed, and its replacement lives no longer than
\* the session (rotate_refresh_token).
LEMMA RefreshKeepsRows ==
    ASSUME IInv, NEW r \in Request, Refresh(r)
    PROVE  /\ session' \in [Session -> SessionRow] /\ token' \in [Token -> TokenRow]
           /\ presented' \in [Token -> 0..2]
           /\ RowsInv' /\ RowsPass
<1> DEFINE t == request[r].token
           s == request[r].session
           newT == [session |-> s, left |-> Lesser(RefreshTTL, session[s].left),
                    consumed |-> FALSE, revoked |-> FALSE]
<1>1. /\ t \in Token /\ s \in Session /\ request[r].user \in User
      /\ token[t] # NoToken /\ token[t].session = s
  BY RequestTypes DEF Refresh, Commits, MayRefresh, IInv, RequestsInv, RequestsFit,
     ReadsLast, UserLocking
<1>2. /\ session[s] # NoSession /\ session[s].revoked = FALSE
      /\ token[t].revoked = FALSE /\ token[t].consumed = FALSE
  <2>1. /\ ~session[s].revoked /\ ~token[t].revoked /\ ~token[t].consumed
    BY <1>1 DEF Refresh, MayRefresh, TokenIsActive, Replayed
  <2>2. session[s] # NoSession
    BY <1>1 DEF IInv, RowsInv, TokensFit
  <2> QED
    BY <1>1, <2>1, <2>2, RowTypes
<1>3. PICK new \in Token :
        /\ UnusedToken(new)
        /\ token' = [token EXCEPT ![t].consumed = TRUE, ![new] = newT]
  BY DEF Refresh
<1>4. new # t /\ token[new] = NoToken
  BY <1>1, <1>3 DEF UnusedToken
<1>5. /\ newT \in TokenRow /\ newT.session = s /\ newT.left <= session[s].left
      /\ newT.consumed = FALSE /\ newT.revoked = FALSE
  <2>1. session[s].left \in 0..RefreshTTL
    BY <1>1, RowTypes DEF SessionRow
  <2> QED
    BY <1>1, <2>1, SessionsAssumption DEF TokenRow, Lesser
<1>6. newT # NoToken
  BY <1>1, <1>5, Nobodys, SessionsAssumption
<1> HIDE DEF newT
<1>7. /\ token' \in [Token -> TokenRow] /\ token'[new] = newT
      /\ token'[t] = [token[t] EXCEPT !.consumed = TRUE]
      /\ \A x \in Token \ {t, new} : token'[x] = token[x]
  <2>1. [token[t] EXCEPT !.consumed = TRUE] \in TokenRow
    BY <1>1, RowTypes DEF TokenRow
  <2> QED
    BY <1>1, <1>3, <1>4, <1>5, <2>1 DEF IInv, TypeOK
<1>8. /\ token'[t].session = s /\ token'[t].left = token[t].left
      /\ token'[t].revoked = FALSE /\ token'[t].consumed = TRUE
  BY <1>1, <1>2, <1>7, RowTypes DEF TokenRow
<1>9. session' = [session EXCEPT ![s].access = user[request[r].user].version]
  BY DEF Refresh
<1>10. /\ session' \in [Session -> SessionRow]
       /\ \A x \in Session :
            /\ session'[x].user = session[x].user /\ session'[x].left = session[x].left
            /\ session'[x].revoked = session[x].revoked
            /\ x # s => session'[x] = session[x]
  BY <1>1, <1>9, RowTypes DEF IInv, TypeOK, SessionRow, UserRow
<1>11. session[s].user # None
  BY <1>1, <1>2 DEF IInv, RowsInv, SessionsAreWhole
<1>12. session'[s] # NoSession
  BY <1>1, <1>10, <1>11, Nobodys
<1>13. SessionsAreWhole'
  BY <1>10, <1>11 DEF IInv, RowsInv, SessionsAreWhole
<1>14. presented[t] = 0 /\ presented[new] = 0
  BY <1>1, <1>2, <1>4 DEF IInv, RowsInv, TokensFit
<1>15. /\ presented' \in [Token -> 0..2] /\ presented'[t] = 1
       /\ \A x \in Token \ {t} : presented'[x] = presented[x]
  <2>1. Lesser(presented[t] + 1, 2) = 1
    BY <1>14 DEF Lesser
  <2>2. presented' = [presented EXCEPT ![t] = Lesser(presented[t] + 1, 2)]
    BY <1>1 DEF Refresh, IInv, TypeOK
  <2> QED
    BY <1>1, <2>1, <2>2 DEF IInv, TypeOK
<1>16. TokensFit'
  <2> SUFFICES ASSUME NEW x \in Token
               PROVE  /\ token'[x].session = None => token'[x] = NoToken
                      /\ token'[x] = NoToken => presented'[x] = 0
                      /\ token'[x] # NoToken =>
                           LET a == token'[x].session
                           IN  /\ a \in Session /\ session'[a] # NoSession
                               /\ token'[x].left <= session'[a].left
                               /\ session'[a].revoked = TRUE => token'[x].revoked = TRUE
                               /\ presented'[x] # 0 => token'[x].consumed = TRUE
                               /\ presented'[x] = 2 => session'[a].revoked = TRUE
    BY DEF TokensFit
  <2>1. CASE x = t
    <3>1. token[t].left <= session[s].left
      BY <1>1 DEF IInv, RowsInv, TokensFit
    <3>2. token'[t] # NoToken /\ s # None
      BY <1>1, <1>8, Nobodys, SessionsAssumption
    <3> QED
      BY <1>1, <1>2, <1>8, <1>10, <1>12, <1>15, <2>1, <3>1, <3>2
  <2>2. CASE x = new
    <3>1. presented'[x] = 0 /\ s # None
      BY <1>1, <1>4, <1>14, <1>15, <2>2, SessionsAssumption
    <3> QED
      BY <1>1, <1>2, <1>5, <1>6, <1>7, <1>10, <1>12, <2>2, <3>1
  <2>3. CASE x \notin {t, new}
    <3>1. token'[x] = token[x] /\ presented'[x] = presented[x]
      BY <1>7, <1>15, <2>3
    <3>2. token[x] # NoToken =>
            LET a == token[x].session
            IN  /\ session'[a] # NoSession /\ session'[a].left = session[a].left
                /\ session'[a].revoked = session[a].revoked
      BY <1>10, <1>12 DEF IInv, RowsInv, TokensFit
    <3> QED
      BY <3>1, <3>2 DEF IInv, RowsInv, TokensFit
  <2> QED
    BY <2>1, <2>2, <2>3
<1>17. OneUsable'
  <2>1. Usable(t)
    BY <1>1, <1>2, SessionsAssumption DEF Usable
  <2>2. \A x \in Token \ {t, new} : Usable(x)' => Usable(x) /\ token[x].session # s
    BY <1>1, <1>7, <2>1 DEF IInv, RowsInv, OneUsable, Usable
  <2>3. \A x \in Token : Usable(x)' => x # t
    BY <1>8 DEF Usable
  <2> SUFFICES ASSUME NEW t1 \in Token, NEW t2 \in Token, Usable(t1)', Usable(t2)',
                      token'[t1].session = token'[t2].session
               PROVE  t1 = t2
    BY DEF OneUsable, Usable
  <2>4. \A x \in Token \ {new} : Usable(x)' =>
          Usable(x) /\ token[x].session # s /\ token'[x] = token[x]
    BY <1>7, <2>2, <2>3
  <2>5. token'[new].session = s
    BY <1>5, <1>7
  <2> QED
    BY <2>4, <2>5 DEF IInv, RowsInv, OneUsable
<1>18. RowsPass
  <2>1. \A x \in Session : session'[x].user = session[x].user
    BY <1>10
  <2>2. \A x \in Token :
          \/ /\ token'[x].session = token[x].session
             /\ token[x].consumed = TRUE => token'[x].consumed = TRUE
          \/ token[x] = NoToken /\ \A q \in Request : request[q].token # x
    BY <1>1, <1>3, <1>7, <1>8 DEF UnusedToken
  <2> QED
    BY <2>1, <2>2 DEF RowsPass
<1> QED
  BY <1>7, <1>10, <1>13, <1>15, <1>16, <1>17, <1>18 DEF RowsInv

\* Expired sessions go, their tokens with them, and the cleanup has locked both.
LEMMA CleanupKeepsRows ==
    ASSUME IInv, NEW r \in Request, Cleanup(r)
    PROVE  /\ session' \in [Session -> SessionRow] /\ token' \in [Token -> TokenRow]
           /\ presented' \in [Token -> 0..2]
           /\ RowsInv' /\ RowsPass
<1>1. /\ session' = [s \in Session |-> IF s \in Expired THEN NoSession ELSE session[s]]
      /\ token' = [t \in Token |-> IF t \in TokensOf(Expired) THEN NoToken ELSE token[t]]
      /\ presented' = [t \in Token |-> IF t \in TokensOf(Expired) THEN 0 ELSE presented[t]]
      /\ request[r].kind = "cleanup" /\ Wants(r) = {}
  BY DEF Cleanup, Commits
<1>2. NoSession \in SessionRow /\ NoToken \in TokenRow
  BY SessionsAssumption DEF NoSession, NoToken, SessionRow, TokenRow
<1>3. session' \in [Session -> SessionRow] /\ token' \in [Token -> TokenRow]
      /\ presented' \in [Token -> 0..2]
  BY <1>1, <1>2, RowTypes
<1>4. SessionsAreWhole'
  BY <1>1 DEF IInv, RowsInv, SessionsAreWhole
<1>5. TokensFit'
  <2> SUFFICES ASSUME NEW x \in Token
               PROVE  /\ token'[x].session = None => token'[x] = NoToken
                      /\ token'[x] = NoToken => presented'[x] = 0
                      /\ token'[x] # NoToken =>
                           LET a == token'[x].session
                           IN  /\ a \in Session /\ session'[a] # NoSession
                               /\ token'[x].left <= session'[a].left
                               /\ session'[a].revoked = TRUE => token'[x].revoked = TRUE
                               /\ presented'[x] # 0 => token'[x].consumed = TRUE
                               /\ presented'[x] = 2 => session'[a].revoked = TRUE
    BY DEF TokensFit
  <2>1. CASE x \in TokensOf(Expired)
    BY <1>1, <2>1
  <2>2. CASE x \notin TokensOf(Expired)
    <3>1. token'[x] = token[x] /\ presented'[x] = presented[x]
      BY <1>1, <2>2
    <3>2. token[x].session \in Session => session'[token[x].session] = session[token[x].session]
      BY <1>1, <2>2 DEF TokensOf
    <3> QED
      BY <3>1, <3>2 DEF IInv, RowsInv, TokensFit
  <2> QED
    BY <2>1, <2>2
<1>6. OneUsable'
  <2>1. \A t \in Token : Usable(t)' => Usable(t) /\ token'[t] = token[t]
    BY <1>1, Nobodys DEF Usable
  <2> QED
    BY <2>1 DEF IInv, RowsInv, OneUsable
<1>7. /\ DOMAIN Plan(r) = {1, 2} /\ Plan(r)[1] = Sessions(Expired)
      /\ Plan(r)[2] = Tokens(TokensOf(Expired))
  BY <1>1 DEF Plan
<1>8. \A i \in {1, 2} : Plan(r)[i] \subseteq Held(r)
  <2> DEFINE unfinished == {i \in {1, 2} : ~(Plan(r)[i] \subseteq Held(r))}
             first == CHOOSE i \in unfinished : \A j \in unfinished : i <= j
  <2> SUFFICES ASSUME unfinished # {} PROVE FALSE
    OBVIOUS
  <2>1. first \in unfinished
    <3>1. \E i \in unfinished : \A j \in unfinished : i <= j
      OBVIOUS
    <3> QED
      BY <3>1
  <2>2. Plan(r)[first] \ Held(r) = {}
    BY <1>1, <1>7 DEF Wants
  <2> QED
    BY <2>1, <2>2
<1>9. /\ \A s \in Expired : lock[<<"session", s>>] = r
      /\ \A t \in TokensOf(Expired) : lock[<<"token", t>>] = r
  BY <1>7, <1>8 DEF Held, Sessions, Tokens
<1>10. RowsPass
  BY <1>1, <1>9 DEF RowsPass, LockedByCleanup
<1> QED
  BY <1>3, <1>4, <1>5, <1>6, <1>10 DEF RowsInv

LEMMA TickKeepsRows ==
    ASSUME IInv, Tick
    PROVE  /\ session' \in [Session -> SessionRow] /\ token' \in [Token -> TokenRow]
           /\ RowsInv' /\ RowsPass
<1>1. ASSUME NEW s \in Session
      PROVE  /\ session'[s] \in SessionRow /\ session'[s].user = session[s].user
             /\ session'[s].revoked = session[s].revoked
             /\ session'[s].left = CountDown(session[s].left)
             /\ session[s] = NoSession => session'[s] = NoSession
  <2>1. session'[s] = [session[s] EXCEPT !.left = CountDown(session[s].left)]
    BY DEF Tick
  <2>2. CountDown(session[s].left) \in 0..RefreshTTL
    BY RowTypes, SessionsAssumption DEF SessionRow, CountDown
  <2> QED
    BY <2>1, <2>2, RowTypes DEF SessionRow, NoSession, CountDown
<1>2. ASSUME NEW t \in Token
      PROVE  /\ token'[t] \in TokenRow /\ token'[t].session = token[t].session
             /\ token'[t].consumed = token[t].consumed
             /\ token'[t].revoked = token[t].revoked
             /\ token'[t].left = CountDown(token[t].left)
             /\ token[t] = NoToken => token'[t] = NoToken
  <2>1. token'[t] = [token[t] EXCEPT !.left = CountDown(token[t].left)]
    BY DEF Tick
  <2>2. CountDown(token[t].left) \in 0..RefreshTTL
    BY RowTypes, SessionsAssumption DEF TokenRow, CountDown
  <2> QED
    BY <2>1, <2>2, RowTypes DEF TokenRow, NoToken, CountDown
<1>3. session' \in [Session -> SessionRow] /\ token' \in [Token -> TokenRow]
      /\ UNCHANGED presented
  BY <1>1, <1>2 DEF Tick
<1>4. SessionsAreWhole'
  BY <1>1 DEF IInv, RowsInv, SessionsAreWhole
<1>5. TokensFit'
  <2> SUFFICES ASSUME NEW x \in Token
               PROVE  /\ token'[x].session = None => token'[x] = NoToken
                      /\ token'[x] = NoToken => presented'[x] = 0
                      /\ token'[x] # NoToken =>
                           LET a == token'[x].session
                           IN  /\ a \in Session /\ session'[a] # NoSession
                               /\ token'[x].left <= session'[a].left
                               /\ session'[a].revoked = TRUE => token'[x].revoked = TRUE
                               /\ presented'[x] # 0 => token'[x].consumed = TRUE
                               /\ presented'[x] = 2 => session'[a].revoked = TRUE
    BY DEF TokensFit
  <2>1. CASE token[x] = NoToken
    BY <1>2, <1>3, <2>1 DEF IInv, RowsInv, TokensFit
  <2>2. CASE token[x] # NoToken
    <3> DEFINE a == token[x].session
    <3>1. /\ a \in Session /\ session[a] # NoSession /\ token[x].left <= session[a].left
          /\ session[a].revoked = TRUE => token[x].revoked = TRUE
          /\ presented[x] # 0 => token[x].consumed = TRUE
          /\ presented[x] = 2 => session[a].revoked = TRUE
      BY <2>2 DEF IInv, RowsInv, TokensFit
    <3>2. token'[x].left <= session'[a].left
      BY <1>1, <1>2, <3>1, RowTypes DEF CountDown
    <3>3. session'[a] # NoSession /\ token'[x].session # None
      BY <1>1, <1>2, <3>1, Nobodys, SessionsAssumption
         DEF IInv, RowsInv, SessionsAreWhole
    <3>4. /\ token'[x].session = a /\ token'[x].consumed = token[x].consumed
          /\ token'[x].revoked = token[x].revoked /\ token'[x] # NoToken
          /\ session'[a].revoked = session[a].revoked /\ presented'[x] = presented[x]
      BY <1>1, <1>2, <1>3, <3>1, <3>3, Nobodys
    <3> QED
      BY <3>1, <3>2, <3>3, <3>4
  <2> QED
    BY <2>1, <2>2
<1>6. OneUsable'
  BY <1>2 DEF IInv, RowsInv, OneUsable, Usable
<1>7. RowsPass
  BY <1>1, <1>2 DEF RowsPass
<1> QED
  BY <1>3, <1>4, <1>5, <1>6, <1>7 DEF RowsInv
-----------------------------------------------------------------------------
(* What the transactions lock *)

\* The statement a transaction is at: it has the locks of the ones before.
LEMMA WantsOfStatement ==
    ASSUME NEW r \in Request, DOMAIN Plan(r) \subseteq {1, 2, 3}, NEW row \in Wants(r)
    PROVE  \E i \in DOMAIN Plan(r) :
             /\ row \in Plan(r)[i] /\ row \notin Held(r)
             /\ \A j \in DOMAIN Plan(r) : j < i => Plan(r)[j] \subseteq Held(r)
<1> DEFINE unfinished == {i \in DOMAIN Plan(r) : ~(Plan(r)[i] \subseteq Held(r))}
           first == CHOOSE i \in unfinished : \A j \in unfinished : i <= j
<1>1. unfinished # {} /\ row \in Plan(r)[first] \ Held(r)
  BY DEF Wants
<1>2. first \in unfinished /\ \A j \in unfinished : first <= j
  <2>1. \E i \in unfinished : \A j \in unfinished : i <= j
    <3>1. unfinished \subseteq {1, 2, 3}
      OBVIOUS
    <3> HIDE DEF unfinished
    <3>2. CASE 1 \in unfinished
      BY <3>1, <3>2
    <3>3. CASE 1 \notin unfinished /\ 2 \in unfinished
      BY <3>1, <3>3
    <3>4. CASE 1 \notin unfinished /\ 2 \notin unfinished
      <4>1. unfinished = {3}
        BY <1>1, <3>1, <3>4
      <4> QED
        BY <4>1
    <3> QED
      BY <3>2, <3>3, <3>4
  <2> QED
    BY <2>1
<1> HIDE DEF first
<1>3. \A j \in DOMAIN Plan(r) : j < first => Plan(r)[j] \subseteq Held(r)
  BY <1>2
<1> QED
  BY <1>1, <1>2, <1>3

\* The tokens of sessions of the request's user are its own.
LEMMA OwnTokens ==
    ASSUME IInv, NEW r \in Request, request[r].user \in User,
           NEW S \in SUBSET Session, \A s \in S : session[s].user = request[r].user,
           NEW row \in Tokens(LiveTokens(S))
    PROVE  row \in Row /\ OwnRow(r, row)
<1>1. PICK t \in Token : row = <<"token", t>> /\ token[t].session \in S
  BY DEF Tokens, LiveTokens, TokensOf
<1>2. token[t] # NoToken
  BY <1>1, Nobodys, SessionsAssumption
<1> QED
  BY <1>1, <1>2 DEF Row, OwnRow, OwnToken

\* A session that a request refers to, and is there, is its user's.
LEMMA OwnSessionThere ==
    ASSUME IInv, NEW r \in Request, request[r].user \in User,
           request[r].session \in Session, NEW t \in Token,
           token[t].session = request[r].session
    PROVE  session[request[r].session].user = request[r].user
<1>1. token[t] # NoToken
  BY Nobodys, SessionsAssumption
<1>2. session[request[r].session] # NoSession
  BY <1>1 DEF IInv, RowsInv, TokensFit
<1> QED
  BY <1>2, SessionsAssumption DEF IInv, RequestsInv, ReadsLast

\* A plan of three statements: the user, and two that lock what is the user's.
LEMMA ThreeStatements ==
    ASSUME NEW r \in Request, NEW B, NEW C,
           Plan(r) = << Users({request[r].user}), B, C >>,
           \A row \in B : row \in Row /\ OwnRow(r, row),
           \A row \in C : row \in Row /\ OwnRow(r, row)
    PROVE  /\ DOMAIN Plan(r) \subseteq {1, 2, 3} /\ 1 \in DOMAIN Plan(r)
           /\ Plan(r)[1] = {<<"user", request[r].user>>}
           /\ \A i \in DOMAIN Plan(r) : i # 1 =>
                \A row \in Plan(r)[i] : row \in Row /\ OwnRow(r, row)
<1>1. Users({request[r].user}) = {<<"user", request[r].user>>}
  BY DEF Users
<1>2. DOMAIN Plan(r) = {1, 2, 3} /\ Plan(r)[2] = B /\ Plan(r)[3] = C
  OBVIOUS
<1>3. ASSUME NEW i \in {2, 3}, NEW row \in Plan(r)[i]
      PROVE  row \in Row /\ OwnRow(r, row)
  BY <1>2, <1>3
<1> QED
  BY <1>1, <1>2, <1>3

\* A transaction that locks the user begins with it, and goes on with what is the
\* user's (the order of statements in persistence/auth.py).
LEMMA PlansAreOwn ==
    ASSUME IInv, NEW r \in Request, request[r].kind \in UserLocking
    PROVE  /\ DOMAIN Plan(r) \subseteq {1, 2, 3} /\ 1 \in DOMAIN Plan(r)
           /\ Plan(r)[1] = {<<"user", request[r].user>>}
           /\ \A i \in DOMAIN Plan(r) : i # 1 =>
                \A row \in Plan(r)[i] : row \in Row /\ OwnRow(r, row)
<1> DEFINE u == request[r].user
           s == request[r].session
           t == request[r].token
           live == IF s = None \/ session[s].revoked THEN {} ELSE {s}
           stale == request[r].version # user[u].version
           others == IF stale THEN {} ELSE Unrevoked(u) \ {s}
<1>1. u \in User
  BY RequestTypes DEF IInv, RequestsInv, RequestsFit
<1>2. ASSUME NEW S \in SUBSET Session,
             \A x \in S : x = s \/ session[x].user = u
      PROVE  \A row \in Sessions(S) : row \in Row /\ OwnRow(r, row)
  BY <1>2 DEF Sessions, Row, OwnRow, OwnSession
<1>3. Users({u}) = {<<"user", u>>}
  BY DEF Users
<1>4. CASE request[r].kind \in {"login", "unban"}
  <2>1. Plan(r) = << Users({u}) >>
    BY <1>4 DEF Plan
  <2> QED
    BY <1>3, <2>1
<1>5. ASSUME request[r].kind \in {"refresh", "replay", "logout"}
      PROVE  /\ s \in Session /\ t \in Token
             /\ \A row \in Tokens(LiveTokens({s})) : row \in Row /\ OwnRow(r, row)
  <2>1. s \in Session /\ t \in Token
    BY <1>5, RequestTypes DEF IInv, RequestsInv, RequestsFit
  <2>2. ASSUME NEW row \in Tokens(LiveTokens({s}))
        PROVE  row \in Row /\ OwnRow(r, row)
    <3>1. PICK x \in Token : token[x].session = s
      BY <2>2 DEF Tokens, LiveTokens, TokensOf
    <3>2. session[s].user = u
      BY <1>1, <2>1, <3>1, OwnSessionThere
    <3> QED
      BY <1>1, <2>1, <2>2, <3>2, OwnTokens
  <2> QED
    BY <2>1, <2>2
<1>6. CASE request[r].kind = "refresh"
  <2>1. Plan(r) = << Users({u}), Tokens({t}), Sessions({s}) >>
    BY <1>6 DEF Plan
  <2>2. \A row \in Tokens({t}) : row \in Row /\ OwnRow(r, row)
    BY <1>5, <1>6 DEF Tokens, Row, OwnRow, OwnToken
  <2>3. \A row \in Sessions({s}) : row \in Row /\ OwnRow(r, row)
    BY <1>2, <1>5, <1>6
  <2> QED
    BY <1>3, <2>1, <2>2, <2>3, ThreeStatements
<1>7. CASE request[r].kind = "replay"
  <2>1. Plan(r) = << Users({u}), Sessions({s}), Tokens(LiveTokens({s})) >>
    BY <1>7 DEF Plan, ReplayPlan
  <2>2. \A row \in Sessions({s}) : row \in Row /\ OwnRow(r, row)
    BY <1>2, <1>5, <1>7
  <2> QED
    BY <1>3, <1>5, <1>7, <2>1, <2>2, ThreeStatements
<1>8. CASE request[r].kind = "logout"
  <2>1. Plan(r) = << Users({u}), Sessions(live), Tokens(LiveTokens(live)) >>
    BY <1>8 DEF Plan
  <2>2. live \in {{}, {s}}
    OBVIOUS
  <2>3. Tokens(LiveTokens({})) = {}
    BY DEF Tokens, LiveTokens, TokensOf
  <2>4. \A row \in Sessions(live) : row \in Row /\ OwnRow(r, row)
    BY <1>2, <1>5, <1>8, <2>2
  <2>5. \A row \in Tokens(LiveTokens(live)) : row \in Row /\ OwnRow(r, row)
    BY <1>5, <1>8, <2>2, <2>3
  <2> QED
    BY <1>3, <2>1, <2>4, <2>5, ThreeStatements
<1>9. CASE request[r].kind = "change"
  <2>1. Plan(r) = << Users({u}), Tokens(LiveTokens(others)), Sessions(others) >>
    BY <1>9 DEF Plan
  <2>2. others \in SUBSET Session /\ \A x \in others : session[x].user = u
    BY DEF Unrevoked
  <2> HIDE DEF others
  <2>3. \A row \in Sessions(others) : row \in Row /\ OwnRow(r, row)
    BY <1>2, <2>2
  <2>4. \A row \in Tokens(LiveTokens(others)) : row \in Row /\ OwnRow(r, row)
    BY <1>1, <2>2, OwnTokens
  <2> QED
    BY <1>3, <2>1, <2>3, <2>4, ThreeStatements
<1>10. CASE request[r].kind = "ban"
  <2> DEFINE all == {x \in Session : session[x].user = u}
  <2>1. Plan(r) = << Users({u}), Sessions(Unrevoked(u)), Tokens(LiveTokens(all)) >>
    BY <1>10 DEF Plan
  <2>2. \A row \in Sessions(Unrevoked(u)) : row \in Row /\ OwnRow(r, row)
    <3>1. Unrevoked(u) \in SUBSET Session /\ \A x \in Unrevoked(u) : session[x].user = u
      BY DEF Unrevoked
    <3> QED
      BY <1>2, <3>1
  <2>3. all \in SUBSET Session /\ \A x \in all : session[x].user = u
    OBVIOUS
  <2> HIDE DEF all
  <2>4. \A row \in Tokens(LiveTokens(all)) : row \in Row /\ OwnRow(r, row)
    BY <1>1, <2>3, OwnTokens
  <2> QED
    BY <1>3, <2>1, <2>2, <2>4, ThreeStatements
<1> QED
  BY <1>4, <1>6, <1>7, <1>8, <1>9, <1>10 DEF UserLocking

\* What a transaction still has to lock is the user, or something of the user once
\* it has locked the user.
LEMMA WantsAreOwn ==
    ASSUME IInv, NEW r \in Request, request[r].kind \in UserLocking, NEW row \in Wants(r)
    PROVE  /\ row \in Row /\ OwnRow(r, row)
           /\ row = <<"user", request[r].user>> \/ lock[<<"user", request[r].user>>] = r
<1>1. request[r].user \in User
  BY RequestTypes DEF IInv, RequestsInv, RequestsFit
<1>2. PICK i \in DOMAIN Plan(r) :
        /\ row \in Plan(r)[i]
        /\ \A j \in DOMAIN Plan(r) : j < i => Plan(r)[j] \subseteq Held(r)
  BY PlansAreOwn, WantsOfStatement
<1>3. CASE i = 1
  BY <1>1, <1>2, <1>3, PlansAreOwn DEF Row, OwnRow
<1>4. CASE i # 1
  <2>1. row \in Row /\ OwnRow(r, row)
    BY <1>2, <1>4, PlansAreOwn
  <2>2. Plan(r)[1] \subseteq Held(r)
    BY <1>2, <1>4, PlansAreOwn
  <2>3. lock[<<"user", request[r].user>>] = r
    BY <2>2, PlansAreOwn DEF Held
  <2> QED
    BY <2>1, <2>3
<1> QED
  BY <1>3, <1>4

\* An idle request wants nothing.
LEMMA IdleWantsNothing ==
    ASSUME NEW r \in Request, request[r].kind = "idle"
    PROVE  Wants(r) = {}
<1>1. Plan(r) = << >>
  BY DEF Plan
<1> QED
  BY <1>1 DEF Wants

-----------------------------------------------------------------------------
(* Every step preserves the invariant *)

\* A transaction that ends lets its locks go.
LEMMA EndKeepsIInv ==
    ASSUME IInv, NEW r \in Request, End(r), RowsInv', RowsPass,
           user' \in [User -> UserRow], session' \in [Session -> SessionRow],
           token' \in [Token -> TokenRow], presented' \in [Token -> 0..2]
    PROVE  IInv'
<1>1. Idle \in Local
  BY SessionsAssumption DEF Idle, Local, Kind
<1>2. /\ request' \in [Request -> Local] /\ request'[r] = Idle
      /\ \A q \in Request \ {r} : request'[q] = request[q]
  BY <1>1 DEF IInv, TypeOK, End
<1>3. /\ lock' \in [Row -> Request \cup {None}]
      /\ \A row \in Row : lock'[row] = IF lock[row] = r THEN None ELSE lock[row]
  BY DEF IInv, TypeOK, End
<1>4. TypeOK'
  BY <1>2, <1>3 DEF TypeOK
<1>5. RequestsLetGo
  BY <1>2, <1>3, SessionsAssumption DEF RequestsLetGo, LetsGo
<1> QED
  BY <1>4, <1>5, RequestsSurvive DEF IInv

\* A transaction that only ends.
LEMMA EmptyEndKeepsIInv ==
    ASSUME IInv, NEW r \in Request, End(r), user' \in [User -> UserRow],
           UNCHANGED <<session, token, presented>>
    PROVE  IInv'
<1>1. RowsInv' /\ RowsPass
  BY DEF IInv, RowsInv, SessionsAreWhole, TokensFit, OneUsable, Usable, RowsPass
<1> QED
  BY <1>1, EndKeepsIInv DEF IInv, TypeOK

\* A request that begins has read rows that are there.
LEMMA BeginKeepsIInv ==
    ASSUME IInv, NEW r \in Request, NEW local \in Local, Begin(r, local),
           local.kind \notin {"idle", "replay"},
           local.user # None <=> local.kind \in UserLocking,
           local.session # None <=>
             local.kind \in {"refresh", "replay", "logout", "change", "revoke"},
           local.token # None <=> local.kind \in {"refresh", "replay", "logout"},
           local.session # None /\ local.user # None =>
             /\ session[local.session] # NoSession
             /\ session[local.session].user = local.user,
           local.token # None => /\ token[local.token] # NoToken
                                 /\ token[local.token].session = local.session
    PROVE  IInv'
<1>1. /\ request' \in [Request -> Local] /\ request'[r] = local
      /\ \A q \in Request \ {r} : request'[q] = request[q]
      /\ UNCHANGED <<user, session, token, lock, presented>>
  BY DEF IInv, TypeOK, Begin
<1>2. request[r].kind = "idle"
  BY Nobodys DEF Begin
<1>3. TypeOK'
  BY <1>1 DEF IInv, TypeOK
<1>4. RowsInv'
  BY <1>1 DEF IInv, RowsInv, SessionsAreWhole, TokensFit, OneUsable, Usable
<1>5. RequestsFit'
  <2> SUFFICES ASSUME NEW q \in Request
               PROVE  /\ request'[q].kind = "idle" => request'[q] = Idle
                      /\ request'[q].user # None <=> request'[q].kind \in UserLocking
                      /\ request'[q].session # None <=>
                           request'[q].kind
                             \in {"refresh", "replay", "logout", "change", "revoke"}
                      /\ request'[q].token # None <=>
                           request'[q].kind \in {"refresh", "replay", "logout"}
    BY DEF RequestsFit
  <2>1. CASE q = r
    BY <1>1, <2>1
  <2>2. CASE q # r
    BY <1>1, <2>2 DEF IInv, RequestsInv, RequestsFit
  <2> QED
    BY <2>1, <2>2
<1>6. ReadsLast'
  <2> SUFFICES ASSUME NEW q \in Request
               PROVE  LET s == request'[q].session
                          t == request'[q].token
                      IN  /\ s # None /\ request'[q].user # None /\ session[s] # NoSession
                               => session[s].user = request'[q].user
                          /\ t # None /\ token[t] # NoToken => token[t].session = s
                          /\ request'[q].kind = "replay" /\ token[t] # NoToken
                               => token[t].consumed = TRUE
    BY <1>1 DEF ReadsLast
  <2>1. CASE q = r
    BY <1>1, <2>1
  <2>2. CASE q # r
    BY <1>1, <2>2 DEF IInv, RequestsInv, ReadsLast
  <2> QED
    BY <2>1, <2>2
<1>7. ReadsAgree'
  <2>1. ASSUME NEW q \in Request
        PROVE  /\ request'[q].session = local.session /\ request'[q].session # None
                  /\ request'[q].user # None /\ local.user # None
                    => request'[q].user = local.user
               /\ request'[q].token = local.token /\ local.token # None
                    => request'[q].session = local.session
    BY <1>1 DEF IInv, RequestsInv, ReadsLast
  <2>2. request'[r] = local
    BY <1>1
  <2>3. ASSUME NEW p \in Request \ {r}, NEW q \in Request \ {r}
        PROVE  /\ request'[p].session = request'[q].session /\ request'[p].session # None
                  /\ request'[p].user # None /\ request'[q].user # None
                    => request'[p].user = request'[q].user
               /\ request'[p].token = request'[q].token /\ request'[p].token # None
                    => request'[p].session = request'[q].session
    BY <1>1 DEF IInv, RequestsInv, ReadsAgree
  <2> QED
    BY <2>1, <2>2, <2>3 DEF ReadsAgree
<1>8. LocksAreOwn'
  <2> SUFFICES ASSUME NEW q \in Request, NEW row \in Row, lock'[row] = q
               PROVE  /\ request'[q].kind # "idle"
                      /\ request'[q].kind \in UserLocking =>
                           /\ OwnRow(q, row)'
                           /\ lock'[<<"user", request'[q].user>>] = q
    BY DEF LocksAreOwn
  <2>1. lock[row] = q /\ q # r
    BY <1>1, <1>2 DEF IInv, LocksAreOwn
  <2>2. request'[q] = request[q]
    BY <1>1, <2>1
  <2>3. OwnRow(q, row) => OwnRow(q, row)'
    BY <1>1, <2>2 DEF OwnRow, OwnSession, OwnToken
  <2> QED
    BY <1>1, <2>1, <2>2, <2>3 DEF IInv, LocksAreOwn
<1> QED
  BY <1>3, <1>4, <1>5, <1>6, <1>7, <1>8 DEF IInv, RequestsInv

LEMMA IdleIsLocal ==
    /\ Idle \in Local /\ Idle.kind = "idle" /\ Idle.user = None
    /\ Idle.session = None /\ Idle.token = None
  BY SessionsAssumption DEF Idle, Local, Kind

LEMMA StartKeepsIInv ==
    ASSUME IInv, NEW r \in Request, Start(r)
    PROVE  IInv'
<1> USE DEF UserLocking
<1>1. ASSUME NEW u \in User, BeginLogin(r, u) \/ BeginBan(r, u)
      PROVE  IInv'
  <2> DEFINE login == [Idle EXCEPT !.kind = "login", !.user = u, !.version = user[u].version]
             ban(kind) == [Idle EXCEPT !.kind = kind, !.user = u]
  <2>1. user[u].version \in 0..MaxVersion /\ u # None
    BY SessionsAssumption DEF IInv, TypeOK, UserRow
  <2>2. CASE Begin(r, login)
    <3>1. /\ login \in Local /\ login.kind = "login" /\ login.user = u
          /\ login.session = None /\ login.token = None
      BY <2>1, IdleIsLocal DEF Local, Kind
    <3> HIDE DEF login
    <3> QED
      BY <2>1, <2>2, <3>1, BeginKeepsIInv
  <2>3. ASSUME NEW kind \in {"ban", "unban"}, Begin(r, ban(kind))
        PROVE  IInv'
    <3>1. /\ ban(kind) \in Local /\ ban(kind).kind = kind /\ ban(kind).user = u
          /\ ban(kind).session = None /\ ban(kind).token = None
      BY <2>1, IdleIsLocal DEF Local, Kind
    <3> HIDE DEF ban
    <3> QED
      BY <2>1, <2>3, <3>1, BeginKeepsIInv
  <2> QED
    BY <1>1, <2>2, <2>3 DEF BeginLogin, BeginBan
<1>2. ASSUME NEW t \in Token, NEW kind \in {"refresh", "logout"}, BeginWithToken(r, t, kind)
      PROVE  IInv'
  <2> DEFINE s == token[t].session
             u == session[s].user
             local == [Idle EXCEPT !.kind = kind, !.token = t, !.session = s, !.user = u]
  <2>1. /\ token[t] # NoToken /\ s \in Session /\ session[s] # NoSession
        /\ u \in User /\ u # None /\ s # None /\ t # None
    <3>1. token[t] # NoToken
      BY <1>2 DEF BeginWithToken
    <3>2. s \in Session /\ session[s] # NoSession
      BY <3>1 DEF IInv, RowsInv, TokensFit
    <3>3. u \in User /\ u # None
      BY <3>2, RowTypes, SessionsAssumption DEF IInv, RowsInv, SessionsAreWhole
    <3> QED
      BY <3>1, <3>2, <3>3, SessionsAssumption
  <2>2. Begin(r, local)
    BY <1>2 DEF BeginWithToken
  <2>3. /\ local \in Local /\ local.kind = kind /\ local.user = u
        /\ local.session = s /\ local.token = t
    BY <2>1, IdleIsLocal DEF Local, Kind
  <2> HIDE DEF local
  <2> QED
    BY <2>1, <2>2, <2>3, BeginKeepsIInv
<1>3. ASSUME NEW s \in Session, BeginChange(r, s)
      PROVE  IInv'
  <2> DEFINE u == session[s].user
             local == [Idle EXCEPT !.kind = "change", !.session = s, !.user = u,
                                   !.version = session[s].access]
  <2>1. u \in User /\ u # None /\ s # None /\ session[s] # NoSession
    BY <1>3, RowTypes, SessionsAssumption, Nobodys DEF BeginChange, Authenticates
  <2>2. Begin(r, local)
    BY <1>3 DEF BeginChange
  <2>3. session[s].access \in 0..MaxVersion
    BY RowTypes DEF SessionRow
  <2>4. /\ local \in Local /\ local.kind = "change" /\ local.user = u
        /\ local.session = s /\ local.token = None
    BY <2>1, <2>3, IdleIsLocal DEF Local, Kind
  <2> HIDE DEF local
  <2> QED
    BY <2>1, <2>2, <2>4, BeginKeepsIInv
<1>4. ASSUME NEW s \in Session, BeginRevoke(r, s)
      PROVE  IInv'
  <2> DEFINE local == [Idle EXCEPT !.kind = "revoke", !.session = s]
  <2>1. Begin(r, local) /\ s # None
    BY <1>4, SessionsAssumption DEF BeginRevoke
  <2>2. /\ local \in Local /\ local.kind = "revoke" /\ local.user = None
        /\ local.session = s /\ local.token = None
    BY IdleIsLocal DEF Local, Kind
  <2> HIDE DEF local
  <2> QED
    BY <2>1, <2>2, BeginKeepsIInv
<1>5. CASE BeginCleanup(r)
  <2> DEFINE local == [Idle EXCEPT !.kind = "cleanup"]
  <2>1. Begin(r, local)
    BY <1>5 DEF BeginCleanup
  <2>2. /\ local \in Local /\ local.kind = "cleanup" /\ local.user = None
        /\ local.session = None /\ local.token = None
    BY IdleIsLocal DEF Local, Kind
  <2> HIDE DEF local
  <2> QED
    BY <2>1, <2>2, BeginKeepsIInv
<1> QED
  BY <1>1, <1>2, <1>3, <1>4, <1>5 DEF Start

LEMMA LockKeepsIInv ==
    ASSUME IInv, NEW r \in Request, Lock(r)
    PROVE  IInv'
<1>1. PICK row \in Wants(r) : lock[row] = None /\ lock' = [lock EXCEPT ![row] = r]
  BY DEF Lock
<1>2. UNCHANGED <<user, session, token, request, presented>>
  BY DEF Lock
<1>3. /\ lock' \in [Row -> Request \cup {None}]
      /\ \A x \in Row : x # row => lock'[x] = lock[x]
      /\ row \in Row => lock'[row] = r
  BY <1>1 DEF IInv, TypeOK
<1>4. TypeOK'
  BY <1>2, <1>3 DEF IInv, TypeOK
<1>5. RowsInv' /\ RequestsInv'
  BY <1>2 DEF IInv, RowsInv, SessionsAreWhole, TokensFit, OneUsable, Usable, RequestsInv,
     RequestsFit, ReadsLast, ReadsAgree
<1>6. LocksAreOwn'
  <2> SUFFICES ASSUME NEW q \in Request, NEW x \in Row, lock'[x] = q
               PROVE  /\ request[q].kind # "idle"
                      /\ request[q].kind \in UserLocking =>
                           OwnRow(q, x) /\ lock'[<<"user", request[q].user>>] = q
    BY <1>2 DEF LocksAreOwn, OwnRow, OwnSession, OwnToken
  <2>1. request[q].kind \in UserLocking => <<"user", request[q].user>> \in Row
    BY RequestTypes DEF IInv, RequestsInv, RequestsFit, Row
  <2>2. CASE x = row
    <3>1. q = r
      BY <1>3, <2>2
    <3>2. request[r].kind # "idle"
      BY <1>1, IdleWantsNothing
    <3>3. ASSUME request[r].kind \in UserLocking
          PROVE  OwnRow(r, x) /\ lock'[<<"user", request[r].user>>] = r
      BY <1>1, <1>3, <2>1, <2>2, <3>1, <3>3, WantsAreOwn
    <3> QED
      BY <3>1, <3>2, <3>3
  <2>3. CASE x # row
    <3>1. lock[x] = q
      BY <1>3, <2>3
    <3>2. request[q].kind \in UserLocking => lock[<<"user", request[q].user>>] # None
      BY <3>1, SessionsAssumption DEF IInv, LocksAreOwn
    <3> QED
      BY <1>1, <1>3, <2>1, <3>1, <3>2 DEF IInv, LocksAreOwn
  <2> QED
    BY <2>2, <2>3
<1> QED
  BY <1>4, <1>5, <1>6 DEF IInv
LEMMA RegisterKeepsIInv ==
    ASSUME IInv, NEW u \in User, Register(u)
    PROVE  IInv'
<1>1. 0 \in 0..MaxVersion /\ UNCHANGED <<request, lock, presented>>
  BY SessionsAssumption DEF Register
<1>2. /\ session' \in [Session -> SessionRow] /\ token' \in [Token -> TokenRow]
      /\ RowsInv' /\ RowsPass
  BY <1>1, CreateSessionKeepsRows DEF Register
<1>3. user' \in [User -> UserRow]
  BY DEF Register, IInv, TypeOK, UserRow
<1>4. TypeOK'
  BY <1>1, <1>2, <1>3 DEF IInv, TypeOK
<1>5. RequestsLetGo
  BY <1>1 DEF RequestsLetGo
<1> QED
  BY <1>2, <1>4, <1>5, RequestsSurvive DEF IInv

LEMMA LoginKeepsIInv ==
    ASSUME IInv, NEW r \in Request, Login(r)
    PROVE  IInv'
<1>1. request[r].user \in User /\ request[r].version \in 0..MaxVersion
  BY RequestTypes DEF Login, Commits, IInv, RequestsInv, RequestsFit, UserLocking
<1>2. UNCHANGED <<user, presented>>
  BY DEF Login
<1>3. /\ session' \in [Session -> SessionRow] /\ token' \in [Token -> TokenRow]
      /\ RowsInv' /\ RowsPass
  BY <1>1, <1>2, CreateSessionKeepsRows DEF Login
<1> QED
  BY <1>2, <1>3, EndKeepsIInv DEF Login, IInv, TypeOK

\* The transactions that revoke sessions and count nothing.
LEMMA RevocationKeepsIInv ==
    ASSUME IInv, NEW r \in Request, NEW S \in SUBSET Session, RevokeAll(S),
           \A s \in S : session[s] # NoSession,
           user' \in [User -> UserRow], UNCHANGED presented, End(r)
    PROVE  IInv'
<1>1. presented' \in [Token -> 0..2]
  BY DEF IInv, TypeOK
<1>2. /\ session' \in [Session -> SessionRow] /\ token' \in [Token -> TokenRow]
      /\ RowsInv' /\ RowsPass
  BY <1>1, RevokeAllKeepsRows
<1> QED
  BY <1>1, <1>2, EndKeepsIInv

LEMMA LogoutKeepsIInv ==
    ASSUME IInv, NEW r \in Request, Logout(r)
    PROVE  IInv'
<1> DEFINE t == request[r].token
           S == IF token[t] = NoToken THEN {} ELSE {request[r].session}
<1>1. t \in Token /\ request[r].session \in Session
  BY RequestTypes DEF Logout, Commits, IInv, RequestsInv, RequestsFit
<1>2. token[t] # NoToken => session[request[r].session] # NoSession
  BY <1>1, SessionsAssumption DEF IInv, RowsInv, TokensFit, RequestsInv, ReadsLast
<1>3. S \in SUBSET Session /\ \A s \in S : session[s] # NoSession
  BY <1>1, <1>2
<1>4. RevokeAll(S) /\ End(r) /\ UNCHANGED <<user, presented>>
  BY DEF Logout
<1> HIDE DEF S
<1> QED
  BY <1>3, <1>4, RevocationKeepsIInv DEF IInv, TypeOK

LEMMA ChangePasswordKeepsIInv ==
    ASSUME IInv, NEW r \in Request, ChangePassword(r)
    PROVE  IInv'
<1> DEFINE u == request[r].user
           S == Unrevoked(u) \ {request[r].session}
<1>1. u \in User
  BY RequestTypes DEF ChangePassword, Commits, IInv, RequestsInv, RequestsFit, UserLocking
<1>2. End(r) /\ UNCHANGED presented
  BY DEF ChangePassword
<1>3. CASE /\ user[u].version < MaxVersion
           /\ user' = [user EXCEPT ![u].version = @ + 1]
           /\ RevokeAll(S)
  <2>1. user' \in [User -> UserRow]
    BY <1>1, <1>3, SessionsAssumption DEF IInv, TypeOK, UserRow
  <2>2. S \in SUBSET Session /\ \A s \in S : session[s] # NoSession
    BY <1>1, Nobodys, SessionsAssumption DEF Unrevoked
  <2> QED
    BY <1>2, <1>3, <2>1, <2>2, RevocationKeepsIInv
<1>4. CASE UNCHANGED <<user, session, token>>
  BY <1>2, <1>4, EmptyEndKeepsIInv DEF IInv, TypeOK
<1> QED
  BY <1>3, <1>4 DEF ChangePassword

LEMMA BanKeepsIInv ==
    ASSUME IInv, NEW r \in Request, Ban(r)
    PROVE  IInv'
<1> DEFINE u == request[r].user
           S == {s \in Session : session[s].user = u}
<1>1. u \in User
  BY RequestTypes DEF Ban, Commits, IInv, RequestsInv, RequestsFit, UserLocking
<1>2. End(r) /\ UNCHANGED presented
  BY DEF Ban
<1>3. CASE user' = [user EXCEPT ![u].status = "banned"] /\ RevokeAll(S)
  <2>1. user' \in [User -> UserRow]
    BY <1>1, <1>3 DEF IInv, TypeOK, UserRow
  <2>2. S \in SUBSET Session /\ \A s \in S : session[s] # NoSession
    BY <1>1, Nobodys, SessionsAssumption
  <2> QED
    BY <1>2, <1>3, <2>1, <2>2, RevocationKeepsIInv
<1>4. CASE UNCHANGED <<user, session, token>>
  BY <1>2, <1>4, EmptyEndKeepsIInv DEF IInv, TypeOK
<1> QED
  BY <1>3, <1>4 DEF Ban

LEMMA RevokeSessionKeepsIInv ==
    ASSUME IInv, NEW r \in Request, RevokeSession(r)
    PROVE  IInv'
<1> DEFINE S == {request[r].session} \cap {s \in Session : session[s] # NoSession}
<1>1. S \in SUBSET Session /\ \A s \in S : session[s] # NoSession
  OBVIOUS
<1>2. RevokeAll(S) /\ End(r) /\ UNCHANGED <<user, presented>>
  BY DEF RevokeSession
<1> QED
  BY <1>1, <1>2, RevocationKeepsIInv DEF IInv, TypeOK

LEMMA RevokeReplayedKeepsIInv ==
    ASSUME IInv, NEW r \in Request, RevokeReplayed(r)
    PROVE  IInv'
<1> DEFINE t == request[r].token
           s == request[r].session
           S == {s} \cap {x \in Session : session[x] # NoSession}
<1>1. t \in Token /\ s \in Session
  BY RequestTypes DEF RevokeReplayed, Commits, IInv, RequestsInv, RequestsFit
<1>2. S \in SUBSET Session /\ \A x \in S : session[x] # NoSession
  OBVIOUS
<1>3. /\ RevokeAll(S) /\ End(r) /\ UNCHANGED user
      /\ presented' = [presented EXCEPT ![t] =
           IF token[t] = NoToken THEN 0 ELSE Lesser(presented[t] + 1, 2)]
  BY <1>1 DEF RevokeReplayed, IInv, TypeOK
<1>4. presented' \in [Token -> 0..2]
  BY <1>1, <1>3, RowTypes DEF IInv, TypeOK, Lesser
<1>5. token[t] # NoToken => token[t].consumed = TRUE /\ token[t].session \in S
  <2> SUFFICES ASSUME token[t] # NoToken
               PROVE  token[t].consumed = TRUE /\ token[t].session \in S
    OBVIOUS
  <2>1. token[t].consumed = TRUE /\ token[t].session = s
    BY <1>1, SessionsAssumption DEF RevokeReplayed, Commits, IInv, RequestsInv, ReadsLast
  <2>2. session[s] # NoSession
    BY <1>1, <2>1 DEF IInv, RowsInv, TokensFit
  <2> QED
    BY <1>1, <2>1, <2>2
<1>6. token[t] = NoToken => presented[t] = 0
  BY <1>1 DEF IInv, RowsInv, TokensFit
<1> HIDE DEF S
<1>7. \A x \in Token : \/ presented'[x] = presented[x]
                       \/ token[x].consumed = TRUE /\ token[x].session \in S
  BY <1>1, <1>3, <1>5, <1>6 DEF IInv, TypeOK
<1>8. /\ session' \in [Session -> SessionRow] /\ token' \in [Token -> TokenRow]
      /\ RowsInv' /\ RowsPass
  BY <1>2, <1>3, <1>4, <1>7, RevokeAllKeepsRows
<1> QED
  BY <1>3, <1>4, <1>8, EndKeepsIInv DEF IInv, TypeOK

LEMMA DetectReplayKeepsIInv ==
    ASSUME IInv, NEW r \in Request, DetectReplay(r)
    PROVE  IInv'
<1>1. request[r].token \in Token /\ request[r].kind = "refresh"
  BY RequestTypes DEF DetectReplay, Commits, IInv, RequestsInv, RequestsFit
<1>2. UNCHANGED <<user, session, token, presented>>
  BY DEF DetectReplay
<1>3. token[request[r].token].consumed = TRUE
  BY <1>1, RowTypes DEF DetectReplay, Replayed
<1>4. /\ request' \in [Request -> Local] /\ request'[r].kind = "replay"
      /\ request'[r].user = request[r].user /\ request'[r].token = request[r].token
      /\ request'[r].session = request[r].session
      /\ \A q \in Request \ {r} : request'[q] = request[q]
  <2>1. /\ [request[r] EXCEPT !.kind = "replay"] \in Local
        /\ [request[r] EXCEPT !.kind = "replay"].user = request[r].user
        /\ [request[r] EXCEPT !.kind = "replay"].token = request[r].token
        /\ [request[r] EXCEPT !.kind = "replay"].session = request[r].session
        /\ [request[r] EXCEPT !.kind = "replay"].kind = "replay"
    BY RequestTypes DEF Local, Kind
  <2>2. request' = [request EXCEPT ![r] = [request[r] EXCEPT !.kind = "replay"]]
    BY DEF DetectReplay
  <2> DEFINE local == [request[r] EXCEPT !.kind = "replay"]
  <2> HIDE DEF local
  <2> QED
    BY <2>1, <2>2 DEF IInv, TypeOK, local
<1>5. /\ lock' \in [Row -> Request \cup {None}]
      /\ \A row \in Row : lock'[row] = IF lock[row] = r THEN None ELSE lock[row]
  BY DEF DetectReplay, IInv, TypeOK
<1>6. TypeOK'
  BY <1>2, <1>4, <1>5 DEF IInv, TypeOK
<1>7. RowsInv' /\ RowsPass
  BY <1>2 DEF IInv, RowsInv, SessionsAreWhole, TokensFit, OneUsable, Usable, RowsPass
<1>8. RequestsLetGo
  BY <1>1, <1>2, <1>3, <1>4, <1>5, SessionsAssumption DEF RequestsLetGo, LetsGo
<1> QED
  BY <1>6, <1>7, <1>8, RequestsSurvive DEF IInv

LEMMA CommitKeepsIInv ==
    ASSUME IInv, NEW r \in Request, Commit(r)
    PROVE  IInv'
<1>1. CASE Refresh(r)
  BY <1>1, RefreshKeepsRows, EndKeepsIInv DEF Refresh, IInv, TypeOK
<1>2. CASE Cleanup(r)
  BY <1>2, CleanupKeepsRows, EndKeepsIInv DEF Cleanup, IInv, TypeOK
<1>3. CASE RefuseRefresh(r)
  BY <1>3, EmptyEndKeepsIInv DEF RefuseRefresh, IInv, TypeOK
<1>4. CASE Unban(r)
  <2>1. user' \in [User -> UserRow]
    BY <1>4 DEF Unban, IInv, TypeOK, UserRow
  <2> QED
    BY <1>4, <2>1, EmptyEndKeepsIInv DEF Unban
<1> QED
  BY <1>1, <1>2, <1>3, <1>4, LoginKeepsIInv, DetectReplayKeepsIInv, RevokeReplayedKeepsIInv,
     LogoutKeepsIInv, ChangePasswordKeepsIInv, BanKeepsIInv, RevokeSessionKeepsIInv
     DEF Commit

LEMMA TickKeepsIInv == IInv /\ Tick => IInv'
<1> SUFFICES ASSUME IInv, Tick PROVE IInv'
  OBVIOUS
<1>1. /\ session' \in [Session -> SessionRow] /\ token' \in [Token -> TokenRow]
      /\ RowsInv' /\ RowsPass
  BY TickKeepsRows
<1>2. UNCHANGED <<user, request, lock, presented>>
  BY DEF Tick
<1>3. TypeOK'
  BY <1>1, <1>2 DEF IInv, TypeOK
<1>4. RequestsLetGo
  BY <1>2 DEF RequestsLetGo
<1> QED
  BY <1>1, <1>3, <1>4, RequestsSurvive DEF IInv

LEMMA InitEstablishesIInv == Init => IInv
<1> SUFFICES ASSUME Init PROVE IInv
  OBVIOUS
<1>1. NoSession \in SessionRow /\ NoToken \in TokenRow
  BY SessionsAssumption DEF NoSession, NoToken, SessionRow, TokenRow
<1>2. TypeOK
  BY <1>1, IdleIsLocal, SessionsAssumption DEF Init, TypeOK, UserRow
<1>3. RowsInv
  BY Nobodys DEF Init, RowsInv, SessionsAreWhole, TokensFit, OneUsable, Usable
<1>4. RequestsInv
  BY Nobodys DEF Init, RequestsInv, RequestsFit, ReadsLast, ReadsAgree, UserLocking
<1>5. LocksAreOwn
  BY SessionsAssumption DEF Init, LocksAreOwn
<1> QED
  BY <1>2, <1>3, <1>4, <1>5 DEF IInv

LEMMA NextKeepsIInv == IInv /\ [Next]_vars => IInv'
<1> SUFFICES ASSUME IInv, [Next]_vars PROVE IInv'
  OBVIOUS
<1>1. ASSUME NEW r \in Request, AbortDeadlock(r) \/ Crash(r)
      PROVE  IInv'
  BY <1>1, EmptyEndKeepsIInv DEF AbortDeadlock, Crash, IInv, TypeOK
<1>2. CASE UNCHANGED vars
  BY <1>2 DEF vars, IInv, TypeOK, RowsInv, SessionsAreWhole, TokensFit, OneUsable, Usable,
     RequestsInv, RequestsFit, ReadsLast, ReadsAgree, LocksAreOwn, OwnRow, OwnSession,
     OwnToken
<1> QED
  BY <1>1, <1>2, RegisterKeepsIInv, StartKeepsIInv, LockKeepsIInv, CommitKeepsIInv,
     TickKeepsIInv DEF Next

-----------------------------------------------------------------------------
(* The theorems *)

\* Every reachable state satisfies the inductive invariant.
THEOREM Safety == Spec => []IInv
  BY InitEstablishesIInv, NextKeepsIInv, PTL DEF Spec

\* Every variable keeps its type.
THEOREM TypeCorrect == Spec => []TypeOK
<1>1. IInv => TypeOK
  BY DEF IInv
<1> QED
  BY <1>1, Safety, PTL

\* However many requests present one refresh token at once, its session has at most
\* one that can still be used (rotate_refresh_token).
THEOREM OneLiveTokenHolds == Spec => []OneLiveToken
<1>1. IInv => OneLiveToken
  <2> SUFFICES ASSUME IInv, NEW s \in Session
               PROVE  Cardinality({t \in LiveTokens({s}) : ~token[t].consumed}) <= 1
    BY DEF OneLiveToken
  <2> DEFINE live == {t \in LiveTokens({s}) : ~token[t].consumed}
  <2>1. \A t1, t2 \in live : t1 = t2
    BY RowTypes, SessionsAssumption
       DEF IInv, RowsInv, OneUsable, Usable, LiveTokens, TokensOf
  <2> HIDE DEF live
  <2>2. ASSUME live = {} PROVE Cardinality(live) <= 1
    BY <2>2, FS_EmptySet
  <2>3. ASSUME live # {} PROVE Cardinality(live) <= 1
    <3>1. PICK t : live = {t}
      BY <2>1, <2>3
    <3> QED
      BY <3>1, FS_Singleton
  <2>4. Cardinality(live) <= 1
    BY <2>2, <2>3
  <2> QED
    BY <2>4 DEF live
<1> QED
  BY <1>1, Safety, PTL

\* A revoked session has no token left, whatever was under way when it was revoked.
THEOREM RevokedIsDeadHolds == Spec => []RevokedIsDead
<1>1. IInv => RevokedIsDead
  <2> SUFFICES ASSUME IInv, NEW s \in Session, session[s].revoked, NEW t \in LiveTokens({s})
               PROVE  FALSE
    BY DEF RevokedIsDead
  <2>1. t \in Token /\ token[t].session = s /\ ~token[t].revoked /\ session[s].revoked = TRUE
    BY RowTypes DEF LiveTokens, TokensOf
  <2>2. token[t] # NoToken
    BY <2>1, Nobodys, SessionsAssumption
  <2> QED
    BY <2>1, <2>2 DEF IInv, RowsInv, TokensFit
<1> QED
  BY <1>1, Safety, PTL

\* Rotation never makes a login last longer than its session.
THEOREM NoTokenOutlivesSessionHolds == Spec => []NoTokenOutlivesSession
<1>1. IInv => NoTokenOutlivesSession
  BY DEF IInv, RowsInv, TokensFit, NoTokenOutlivesSession
<1> QED
  BY <1>1, Safety, PTL

\* A refresh token that was answered twice has ended its session.
THEOREM SecondUseEndsSessionHolds == Spec => []SecondUseEndsSession
<1>1. IInv => SecondUseEndsSession
  BY DEF IInv, RowsInv, TokensFit, SecondUseEndsSession
<1> QED
  BY <1>1, Safety, PTL

\* Two users' requests own no row in common but their own.
LEMMA OwnersAgree ==
    ASSUME IInv, NEW q \in Request, NEW r \in Request, NEW row,
           request[q].kind \in UserLocking, request[r].kind \in UserLocking,
           OwnRow(q, row), OwnRow(r, row)
    PROVE  request[q].user = request[r].user
<1>1. /\ request[q].user \in User /\ request[r].user \in User
      /\ request[q].user # None /\ request[r].user # None
  BY RequestTypes DEF IInv, RequestsInv, RequestsFit
<1>2. CASE row = <<"user", request[q].user>> \/ row = <<"user", request[r].user>>
  BY <1>2 DEF OwnRow
<1>3. ASSUME NEW s \in Session, OwnSession(q, s), OwnSession(r, s)
      PROVE  request[q].user = request[r].user
  <2>1. s # None
    BY SessionsAssumption
  <2>2. session[s].user \in User => session[s] # NoSession
    BY Nobodys, SessionsAssumption
  <2> QED
    BY <1>1, <1>3, <2>1, <2>2
       DEF OwnSession, IInv, RequestsInv, ReadsLast, ReadsAgree
<1>4. ASSUME NEW t \in Token, OwnToken(q, t), OwnToken(r, t)
      PROVE  request[q].user = request[r].user
  <2>1. t # None
    BY SessionsAssumption
  <2>2. CASE t = request[q].token /\ t = request[r].token
    <3>1. request[q].session = request[r].session
      BY <2>1, <2>2 DEF IInv, RequestsInv, ReadsAgree
    <3>2. request[q].session # None
      BY <2>1, <2>2 DEF IInv, RequestsInv, RequestsFit
    <3> QED
      BY <1>1, <3>1, <3>2 DEF IInv, RequestsInv, ReadsAgree
  <2>3. CASE ~(t = request[q].token /\ t = request[r].token)
    <3> DEFINE s == token[t].session
    <3>1. token[t] # NoToken
      BY <1>4, <2>3 DEF OwnToken
    <3>2. s \in Session /\ session[s] # NoSession /\ s # None
      BY <3>1, SessionsAssumption DEF IInv, RowsInv, TokensFit
    <3>3. session[s].user = request[q].user /\ session[s].user = request[r].user
      BY <1>1, <1>4, <2>1, <3>1, <3>2 DEF OwnToken, IInv, RequestsInv, ReadsLast
    <3> QED
      BY <3>3
  <2> QED
    BY <2>2, <2>3
<1> QED
  BY <1>2, <1>3, <1>4 DEF OwnRow

\* A request that locks the user first can only wait for the user's row.
LEMMA WaitsForUser ==
    ASSUME IInv, NEW q \in Request, NEW r \in Request, q # r, WaitsFor(r, q),
           request[q].kind \in UserLocking, request[r].kind \in UserLocking
    PROVE  /\ request[q].user = request[r].user
           /\ lock[<<"user", request[r].user>>] = q
<1>1. PICK row \in Wants(r) : lock[row] = q
  BY DEF WaitsFor
<1>2. /\ row \in Row /\ OwnRow(r, row)
      /\ row = <<"user", request[r].user>> \/ lock[<<"user", request[r].user>>] = r
  BY WantsAreOwn
<1>3. OwnRow(q, row) /\ lock[<<"user", request[q].user>>] = q
  BY <1>1, <1>2 DEF IInv, LocksAreOwn
<1> QED
  BY <1>2, <1>3, OwnersAgree

\* No circle of requests waits for each other's locks but through one of the two
\* that do not lock the user (persistence/auth.py).
THEOREM UserLockOrdersRequestsHolds == Spec => []UserLockOrdersRequests
<1>1. IInv => UserLockOrdersRequests
  <2> SUFFICES ASSUME IInv, NEW D \in SUBSET Request, LockCycle(D),
                      \A r \in D : request[r].kind \notin {"revoke", "cleanup"}
               PROVE  FALSE
    BY DEF UserLockOrdersRequests
  <2>1. \A r \in D : request[r].kind \in UserLocking
    <3> SUFFICES ASSUME NEW r \in D PROVE request[r].kind \in UserLocking
      OBVIOUS
    <3>1. Wants(r) # {}
      BY DEF LockCycle, WaitsFor
    <3>2. request[r].kind # "idle" /\ request[r].kind \in Kind
      BY <3>1, IdleWantsNothing, RequestTypes DEF Local
    <3> QED
      BY <3>2 DEF Kind, UserLocking
  <2>2. \A r \in D : \E q \in D \ {r} :
          request[q].user = request[r].user /\ lock[<<"user", request[r].user>>] = q
    <3> SUFFICES ASSUME NEW r \in D
                 PROVE  \E q \in D \ {r} :
                          /\ request[q].user = request[r].user
                          /\ lock[<<"user", request[r].user>>] = q
      OBVIOUS
    <3>1. PICK q \in D \ {r} : WaitsFor(r, q)
      BY DEF LockCycle
    <3> QED
      BY <2>1, <3>1, WaitsForUser
  <2>3. PICK r \in D : TRUE
    BY DEF LockCycle
  <2>4. PICK q \in D \ {r} :
          request[q].user = request[r].user /\ lock[<<"user", request[r].user>>] = q
    BY <2>2, <2>3
  <2> QED
    BY <2>2, <2>4
<1> QED
  BY <1>1, Safety, PTL
-----------------------------------------------------------------------------
(* Every session is one object *)

CurrentKnown ==
    /\ \A s \in Session, t \in Token : IsCurrent(s, t) => CurrentOf(s) = t
    /\ \A s \in Session : (\A t \in Token : ~IsCurrent(s, t)) => CurrentOf(s) = None

\* The current token of a session is the one that can be used, if there is one.
LEMMA CurrentIsUsable == IInv => CurrentKnown
<1> SUFFICES ASSUME IInv PROVE CurrentKnown
  OBVIOUS
<1>1. ASSUME NEW s \in Session, NEW t \in Token, IsCurrent(s, t)
      PROVE  CurrentOf(s) = t
  <2>1. CurrentOf(s) \in Token /\ IsCurrent(s, CurrentOf(s))
    BY <1>1 DEF CurrentOf
  <2>2. s # None
    BY SessionsAssumption
  <2> HIDE DEF CurrentOf
  <2> QED
    BY <1>1, <2>1, <2>2 DEF IsCurrent, IInv, RowsInv, OneUsable, Usable
<1>2. ASSUME NEW s \in Session, \A t \in Token : ~IsCurrent(s, t)
      PROVE  CurrentOf(s) = None
  BY <1>2 DEF CurrentOf
<1> QED
  BY <1>1, <1>2 DEF CurrentKnown

LifeStep(s) == Life(s)!Next \/ UNCHANGED Life(s)!vars

\* The tokens of a session are the same ones, in the same state.
SameTokens(s) ==
    \A t \in Token :
        /\ token'[t].session = s <=> token[t].session = s
        /\ token[t].session = s => /\ token'[t].revoked = token[t].revoked
                                   /\ token'[t].consumed = token[t].consumed

LEMMA TokensStand ==
    ASSUME CurrentKnown, CurrentKnown', NEW s \in Session, SameTokens(s)
    PROVE  CurrentOf(s)' = CurrentOf(s) /\ SpentOf(s)' = SpentOf(s)
<1>1. \A t \in Token : IsCurrent(s, t)' <=> IsCurrent(s, t)
  BY DEF SameTokens, IsCurrent
<1>2. CurrentOf(s)' = CurrentOf(s)
  <2>1. CASE \E t \in Token : IsCurrent(s, t)
    BY <1>1, <2>1 DEF CurrentKnown
  <2>2. CASE ~ \E t \in Token : IsCurrent(s, t)
    BY <1>1, <2>2 DEF CurrentKnown
  <2> QED
    BY <2>1, <2>2
<1>3. SpentOf(s)' = SpentOf(s)
  BY DEF SameTokens, SpentOf
<1> QED
  BY <1>2, <1>3

\* Where the row, its user's state and its tokens stay, the session's life stands still.
LEMMA NothingHappens ==
    ASSUME CurrentKnown, CurrentKnown', NEW s \in Session, SameTokens(s),
           session'[s].user = session[s].user, session'[s].left = session[s].left,
           session'[s].revoked = session[s].revoked, ActiveOf(s)' = ActiveOf(s)
    PROVE  LifeStep(s)
  BY TokensStand DEF LifeStep, Life!vars

LEMMA QuietMaps ==
    ASSUME CurrentKnown, CurrentKnown', UNCHANGED <<user, session, token>>,
           NEW s \in Session
    PROVE  LifeStep(s)
<1>1. SameTokens(s) /\ ActiveOf(s)' = ActiveOf(s)
  BY DEF SameTokens, ActiveOf
<1> QED
  BY <1>1, NothingHappens

\* A new row is a login, whatever has become of its user, and nothing to the others.
LEMMA CreateMaps ==
    ASSUME IInv, CurrentKnown, CurrentKnown', NEW u \in User, NEW version \in 0..MaxVersion,
           CreateSession(u, version), NEW s \in Session
    PROVE  Life(s)!Next \/ (SameTokens(s) /\ session'[s] = session[s])
<1> DEFINE newS == [user |-> u, left |-> RefreshTTL, revoked |-> FALSE, access |-> version]
           newT(x) == [session |-> x, left |-> RefreshTTL, consumed |-> FALSE,
                       revoked |-> FALSE]
<1>1. PICK x \in Session, t \in Token :
        /\ UnusedSession(x) /\ UnusedToken(t)
        /\ session' = [session EXCEPT ![x] = newS]
        /\ token' = [token EXCEPT ![t] = newT(x)]
  BY DEF CreateSession
<1>2. /\ newS.user = u /\ newS.left = RefreshTTL /\ newS.revoked = FALSE
      /\ newT(x).session = x /\ newT(x).revoked = FALSE /\ newT(x).consumed = FALSE
  OBVIOUS
<1> HIDE DEF newS, newT
<1>3. /\ session[x].user = None /\ token[t].session = None
      /\ x # None /\ s # None
  BY <1>1, Nobodys, SessionsAssumption DEF UnusedSession, UnusedToken
<1>4. /\ session'[x] = newS /\ \A y \in Session \ {x} : session'[y] = session[y]
      /\ token'[t] = newT(x) /\ \A y \in Token \ {t} : token'[y] = token[y]
  BY <1>1 DEF IInv, TypeOK
<1>5. \A y \in Token : token[y].session # x
  BY <1>1, <1>3, Nobodys DEF UnusedSession, IInv, RowsInv, TokensFit
<1>6. CASE s # x
  <2>1. SameTokens(s)
    BY <1>2, <1>3, <1>4, <1>6 DEF SameTokens
  <2> QED
    BY <1>4, <1>6, <2>1
<1>7. CASE s = x
  <2>1. IsCurrent(s, t)'
    BY <1>2, <1>4, <1>7 DEF IsCurrent
  <2>2. CurrentOf(s)' = t
    BY <2>1 DEF CurrentKnown
  <2>3. SpentOf(s)' = {}
    BY <1>2, <1>4, <1>5, <1>7 DEF SpentOf
  <2>4. Life(s)!LogIn(u, t)
    BY <1>2, <1>3, <1>4, <1>7, <2>2, <2>3 DEF Life!LogIn, ActiveOf
  <2> QED
    BY <2>4 DEF Life!Next
<1> QED
  BY <1>6, <1>7

LEMMA RegisterMaps ==
    ASSUME IInv, CurrentKnown, CurrentKnown', NEW u \in User, Register(u), NEW s \in Session
    PROVE  LifeStep(s)
<1>1. Life(s)!Next \/ (SameTokens(s) /\ session'[s] = session[s])
  BY CreateMaps, SessionsAssumption DEF Register
<1>2. /\ user[u].status = "absent" /\ user'[u].status = "active"
      /\ \A v \in User \ {u} : user'[v] = user[v]
  BY DEF Register, IInv, TypeOK, UserRow
<1>3. CASE SameTokens(s) /\ session'[s] = session[s] /\ session[s].user = u
  <2>1. ~ActiveOf(s) /\ ActiveOf(s)' /\ session[s].user # None
    BY <1>2, <1>3, SessionsAssumption DEF ActiveOf
  <2>2. ActiveOf(s) = FALSE /\ ActiveOf(s)' = TRUE
    BY <2>1 DEF ActiveOf
  <2>3. Life(s)!Unban
    BY <1>3, <2>1, <2>2, TokensStand DEF Life!Unban
  <2> QED
    BY <2>3 DEF LifeStep, Life!Next
<1>4. CASE SameTokens(s) /\ session'[s] = session[s] /\ session[s].user # u
  <2>1. ActiveOf(s)' = ActiveOf(s)
    BY <1>2, <1>4, RowTypes DEF ActiveOf
  <2> QED
    BY <1>4, <2>1, NothingHappens
<1> QED
  BY <1>1, <1>3, <1>4 DEF LifeStep

LEMMA LoginMaps ==
    ASSUME IInv, CurrentKnown, CurrentKnown', NEW r \in Request, Login(r), NEW s \in Session
    PROVE  LifeStep(s)
<1>1. request[r].user \in User /\ request[r].version \in 0..MaxVersion
  BY RequestTypes DEF Login, Commits, IInv, RequestsInv, RequestsFit, UserLocking
<1>2. Life(s)!Next \/ (SameTokens(s) /\ session'[s] = session[s])
  BY <1>1, CreateMaps DEF Login
<1>3. session'[s] = session[s] => ActiveOf(s)' = ActiveOf(s)
  BY DEF Login, ActiveOf
<1> QED
  BY <1>2, <1>3, NothingHappens DEF LifeStep

\* What is revoked has no current token and keeps those that were exchanged.
LEMMA RevokedTokens ==
    ASSUME IInv, CurrentKnown', NEW S \in SUBSET Session, RevokeAll(S), NEW s \in S
    PROVE  CurrentOf(s)' = None /\ SpentOf(s)' = SpentOf(s)
<1>1. \A t \in Token :
        /\ token'[t].session = token[t].session /\ token'[t].consumed = token[t].consumed
        /\ token[t].session \in S => token'[t].revoked = TRUE
  BY RevokeAllEffect DEF RevokeAll
<1>2. \A t \in Token : ~IsCurrent(s, t)'
  BY <1>1 DEF IsCurrent
<1>3. SpentOf(s)' = SpentOf(s)
  BY <1>1 DEF SpentOf
<1> QED
  BY <1>2, <1>3 DEF CurrentKnown

\* Logout, replay, a password change and an administrator end sessions that are alive
\* and leave the others as they are, the ones that were over included.
LEMMA RevokeMaps ==
    ASSUME IInv, CurrentKnown, CurrentKnown', NEW S \in SUBSET Session, RevokeAll(S),
           \A x \in S : session[x] # NoSession,
           \A u \in User : user'[u].status = user[u].status, NEW s \in Session
    PROVE  LifeStep(s)
<1>1. /\ session'[s].user = session[s].user /\ session'[s].left = session[s].left
      /\ session'[s].revoked = IF s \in S THEN TRUE ELSE session[s].revoked
  BY RevokeAllEffect DEF RevokeAll
<1>2. \A t \in Token :
        /\ token'[t].session = token[t].session /\ token'[t].consumed = token[t].consumed
        /\ token[t].revoked = TRUE => token'[t].revoked = TRUE
        /\ token[t].session \notin S => token'[t] = token[t]
  BY RevokeAllEffect DEF RevokeAll
<1>3. ActiveOf(s)' = ActiveOf(s)
  BY <1>1, RowTypes DEF ActiveOf
<1>4. CASE s \notin S
  <2>1. SameTokens(s)
    BY <1>2, <1>4 DEF SameTokens
  <2> QED
    BY <1>1, <1>3, <1>4, <2>1, NothingHappens
<1>5. CASE s \in S /\ session[s].revoked = TRUE
  <2>1. ASSUME NEW t \in Token, token[t].session = s PROVE token[t].revoked = TRUE
    BY <1>5, <2>1, Nobodys, SessionsAssumption DEF IInv, RowsInv, TokensFit
  <2>2. SameTokens(s)
    BY <1>2, <2>1 DEF SameTokens
  <2> QED
    BY <1>1, <1>3, <1>5, <2>2, NothingHappens
<1>6. CASE s \in S /\ session[s].revoked # TRUE
  <2>1. session[s].user # None
    BY <1>6 DEF IInv, RowsInv, SessionsAreWhole
  <2>2. CurrentOf(s)' = None /\ SpentOf(s)' = SpentOf(s)
    BY <1>6, RevokedTokens DEF RevokeAll
  <2>3. Life(s)!Revoke
    BY <1>1, <1>3, <1>6, <2>1, <2>2, RowTypes DEF Life!Revoke
  <2> QED
    BY <2>3 DEF LifeStep, Life!Next
<1> QED
  BY <1>4, <1>5, <1>6

LEMMA LogoutMaps ==
    ASSUME IInv, CurrentKnown, CurrentKnown', NEW r \in Request, Logout(r), NEW s \in Session
    PROVE  LifeStep(s)
<1> DEFINE t == request[r].token
           S == IF token[t] = NoToken THEN {} ELSE {request[r].session}
<1>1. t \in Token /\ request[r].session \in Session
  BY RequestTypes DEF Logout, Commits, IInv, RequestsInv, RequestsFit
<1>2. token[t] # NoToken => session[request[r].session] # NoSession
  BY <1>1, SessionsAssumption DEF IInv, RowsInv, TokensFit, RequestsInv, ReadsLast
<1>3. S \in SUBSET Session /\ \A x \in S : session[x] # NoSession
  BY <1>1, <1>2
<1>4. RevokeAll(S) /\ UNCHANGED user
  BY DEF Logout
<1> HIDE DEF S
<1> QED
  BY <1>3, <1>4, RevokeMaps DEF RevokeAll

\* A replay ends its session, an administrator's revocation the one it names.
LEMMA RevokeOneMaps ==
    ASSUME IInv, CurrentKnown, CurrentKnown', NEW r \in Request,
           RevokeReplayed(r) \/ RevokeSession(r), NEW s \in Session
    PROVE  LifeStep(s)
<1> DEFINE S == {request[r].session} \cap {x \in Session : session[x] # NoSession}
<1>1. S \in SUBSET Session /\ \A x \in S : session[x] # NoSession
  OBVIOUS
<1>2. RevokeAll(S) /\ UNCHANGED user
  BY DEF RevokeReplayed, RevokeSession
<1> HIDE DEF S
<1> QED
  BY <1>1, <1>2, RevokeMaps DEF RevokeAll

LEMMA ChangePasswordMaps ==
    ASSUME IInv, CurrentKnown, CurrentKnown', NEW r \in Request, ChangePassword(r),
           NEW s \in Session
    PROVE  LifeStep(s)
<1> DEFINE u == request[r].user
           S == Unrevoked(u) \ {request[r].session}
<1>1. u \in User
  BY RequestTypes DEF ChangePassword, Commits, IInv, RequestsInv, RequestsFit, UserLocking
<1>2. CASE user' = [user EXCEPT ![u].version = @ + 1] /\ RevokeAll(S)
  <2>1. S \in SUBSET Session /\ \A x \in S : session[x] # NoSession
    BY <1>1, Nobodys, SessionsAssumption DEF Unrevoked
  <2>2. \A v \in User : user'[v].status = user[v].status
    BY <1>1, <1>2 DEF IInv, TypeOK, UserRow
  <2> HIDE DEF S
  <2> QED
    BY <1>2, <2>1, <2>2, RevokeMaps DEF RevokeAll
<1>3. CASE UNCHANGED <<user, session, token>>
  BY <1>3, QuietMaps
<1> QED
  BY <1>2, <1>3 DEF ChangePassword

\* A ban ends every session of its user, and no other.
LEMMA BanMaps ==
    ASSUME IInv, CurrentKnown, CurrentKnown', NEW r \in Request, Ban(r), NEW s \in Session
    PROVE  LifeStep(s)
<1> DEFINE u == request[r].user
           S == {x \in Session : session[x].user = u}
<1>1. u \in User
  BY RequestTypes DEF Ban, Commits, IInv, RequestsInv, RequestsFit, UserLocking
<1>2. CASE /\ user[u].status = "active"
           /\ user' = [user EXCEPT ![u].status = "banned"]
           /\ RevokeAll(S)
  <2>1. S \in SUBSET Session /\ (s \in S <=> session[s].user = u)
    OBVIOUS
  <2>2. /\ user'[u].status = "banned"
        /\ \A v \in User \ {u} : user'[v] = user[v]
    BY <1>1, <1>2 DEF IInv, TypeOK, UserRow
  <2> HIDE DEF S
  <2>3. /\ session'[s].user = session[s].user /\ session'[s].left = session[s].left
        /\ session'[s].revoked = IF s \in S THEN TRUE ELSE session[s].revoked
        /\ \A t \in Token :
             /\ token'[t].session = token[t].session
             /\ token[t].session \notin S => token'[t] = token[t]
    BY <1>2, <2>1, RevokeAllEffect DEF RevokeAll
  <2>4. CASE s \in S
    <3>1. session[s].user = u /\ u # None
      BY <1>1, <2>1, <2>4, SessionsAssumption
    <3>2. ActiveOf(s) = TRUE /\ ActiveOf(s)' = FALSE
      BY <1>2, <2>2, <2>3, <3>1 DEF ActiveOf
    <3>3. CurrentOf(s)' = None /\ SpentOf(s)' = SpentOf(s)
      BY <1>2, <2>1, <2>4, RevokedTokens DEF RevokeAll
    <3>4. Life(s)!Ban
      BY <2>3, <2>4, <3>1, <3>2, <3>3 DEF Life!Ban
    <3> QED
      BY <3>4 DEF LifeStep, Life!Next
  <2>5. CASE s \notin S
    <3>1. SameTokens(s)
      BY <2>3, <2>5 DEF SameTokens
    <3>2. ActiveOf(s)' = ActiveOf(s)
      BY <2>1, <2>2, <2>3, <2>5, RowTypes DEF ActiveOf
    <3> QED
      BY <2>3, <2>5, <3>1, <3>2, NothingHappens
  <2> QED
    BY <2>4, <2>5
<1>3. CASE UNCHANGED <<user, session, token>>
  BY <1>3, QuietMaps
<1> QED
  BY <1>2, <1>3 DEF Ban

LEMMA UnbanMaps ==
    ASSUME IInv, CurrentKnown, CurrentKnown', NEW r \in Request, Unban(r), NEW s \in Session
    PROVE  LifeStep(s)
<1> DEFINE u == request[r].user
<1>1. /\ u \in User /\ u # None
      /\ UNCHANGED <<session, token>>
      /\ user' = [user EXCEPT ![u].status = "active"]
  BY RequestTypes DEF Unban, Commits, IInv, RequestsInv, RequestsFit, UserLocking
<1>2. user'[u].status = "active" /\ \A v \in User \ {u} : user'[v] = user[v]
  BY <1>1 DEF IInv, TypeOK, UserRow
<1>3. SameTokens(s)
  BY <1>1 DEF SameTokens
<1>4. CASE session[s].user = u /\ user[u].status # "active"
  <2>1. ActiveOf(s) = FALSE /\ ActiveOf(s)' = TRUE
    BY <1>1, <1>2, <1>4 DEF ActiveOf
  <2>2. Life(s)!Unban
    BY <1>1, <1>3, <1>4, <2>1, TokensStand DEF Life!Unban
  <2> QED
    BY <2>2 DEF LifeStep, Life!Next
<1>5. CASE ~(session[s].user = u /\ user[u].status # "active")
  <2>1. ActiveOf(s)' = ActiveOf(s)
    BY <1>1, <1>2, <1>5, RowTypes DEF ActiveOf
  <2> QED
    BY <1>1, <1>3, <2>1, NothingHappens
<1> QED
  BY <1>4, <1>5

\* A refresh exchanges the current token of a session that is alive.
LEMMA RefreshMaps ==
    ASSUME IInv, CurrentKnown, CurrentKnown', NEW r \in Request, Refresh(r), NEW s \in Session
    PROVE  LifeStep(s)
<1> DEFINE t == request[r].token
           x == request[r].session
           newT == [session |-> x, left |-> Lesser(RefreshTTL, session[x].left),
                    consumed |-> FALSE, revoked |-> FALSE]
<1>1. /\ t \in Token /\ x \in Session /\ request[r].user \in User
      /\ token[t] # NoToken /\ token[t].session = x
  BY RequestTypes DEF Refresh, Commits, MayRefresh, IInv, RequestsInv, RequestsFit,
     ReadsLast, UserLocking
<1>2. session[x] # NoSession
  BY <1>1 DEF IInv, RowsInv, TokensFit
<1>3. /\ session[x].user = request[r].user /\ session[x].user # None
      /\ user[session[x].user].status = "active"
      /\ ~session[x].revoked /\ session[x].left > 0
      /\ ~token[t].revoked /\ ~token[t].consumed
  <2>1. session[x].user = request[r].user /\ request[r].user # None /\ x # None
    BY <1>1, <1>2, SessionsAssumption DEF IInv, RequestsInv, ReadsLast
  <2> QED
    BY <1>1, <2>1 DEF Refresh, MayRefresh, TokenIsActive, Replayed
<1>4. /\ UNCHANGED user
      /\ session' = [session EXCEPT ![x].access = user[request[r].user].version]
  BY DEF Refresh
<1>5. /\ session'[x].user = session[x].user /\ session'[x].left = session[x].left
      /\ session'[x].revoked = session[x].revoked
      /\ \A y \in Session \ {x} : session'[y] = session[y]
  BY <1>1, <1>4 DEF IInv, TypeOK, SessionRow
<1>6. PICK new \in Token :
        /\ UnusedToken(new)
        /\ token' = [token EXCEPT ![t].consumed = TRUE, ![new] = newT]
  BY DEF Refresh
<1>7. new # t /\ token[new] = NoToken
  BY <1>1, <1>6 DEF UnusedToken
<1>8. newT.session = x /\ newT.revoked = FALSE /\ newT.consumed = FALSE
  OBVIOUS
<1> HIDE DEF t, x, newT
<1>9. /\ token'[new] = newT
      /\ token'[t].session = x /\ token'[t].consumed = TRUE
      /\ \A y \in Token \ {t, new} : token'[y] = token[y]
  BY <1>1, <1>6, <1>7 DEF IInv, TypeOK, TokenRow
<1>10. token[new].session = None /\ token[new].consumed = FALSE /\ x # None /\ s # None
  BY <1>1, <1>7, Nobodys, SessionsAssumption
<1>11. ActiveOf(s)' = ActiveOf(s)
  BY <1>4, <1>5 DEF ActiveOf
<1>12. CASE s # x
  <2>1. SameTokens(s)
    BY <1>1, <1>8, <1>9, <1>10, <1>12 DEF SameTokens
  <2> QED
    BY <1>5, <1>11, <1>12, <2>1, NothingHappens
<1>13. CASE s = x
  <2>1. IsCurrent(s, t) /\ IsCurrent(s, new)'
    BY <1>1, <1>3, <1>8, <1>9, <1>13, RowTypes DEF IsCurrent
  <2>2. CurrentOf(s) = t /\ CurrentOf(s)' = new /\ t # None
    BY <1>1, <2>1, SessionsAssumption DEF CurrentKnown
  <2>3. SpentOf(s)' = SpentOf(s) \cup {t}
    BY <1>1, <1>8, <1>9, <1>10, <1>13 DEF SpentOf
  <2>4. new \notin SpentOf(s) \cup {t}
    BY <1>7, <1>10 DEF SpentOf
  <2>5. ActiveOf(s)
    BY <1>3, <1>13 DEF ActiveOf
  <2>6. Life(s)!Rotate(new)
    BY <1>3, <1>5, <1>11, <1>13, <2>2, <2>3, <2>4, <2>5 DEF Life!Rotate
  <2> QED
    BY <2>6 DEF LifeStep, Life!Next
<1> QED
  BY <1>12, <1>13

\* What the cleanup deletes had expired; its tokens are gone with it.
LEMMA CleanupMaps ==
    ASSUME IInv, CurrentKnown, CurrentKnown', NEW r \in Request, Cleanup(r), NEW s \in Session
    PROVE  LifeStep(s)
<1>1. /\ session'[s] = IF s \in Expired THEN NoSession ELSE session[s]
      /\ \A t \in Token : token'[t] = IF t \in TokensOf(Expired) THEN NoToken ELSE token[t]
      /\ UNCHANGED user
  BY DEF Cleanup
<1>2. s # None
  BY SessionsAssumption
<1>3. CASE s \in Expired
  <2>1. session[s].user # None /\ session[s].left = 0 /\ session'[s] = NoSession
    BY <1>1, <1>3 DEF Expired
  <2>2. \A t \in Token : token'[t].session # s
    BY <1>1, <1>2, <1>3, Nobodys DEF TokensOf
  <2>3. CurrentOf(s)' = None /\ SpentOf(s)' = {}
    BY <2>2 DEF CurrentKnown, IsCurrent, SpentOf
  <2>4. NoSession.left = 0
    BY DEF NoSession
  <2>5. Life(s)!Forget
    BY <2>1, <2>3, <2>4, Nobodys DEF Life!Forget, ActiveOf
  <2> QED
    BY <2>5 DEF LifeStep, Life!Next
<1>4. CASE s \notin Expired
  <2>1. SameTokens(s)
    BY <1>1, <1>2, <1>4, Nobodys DEF SameTokens, TokensOf
  <2>2. session'[s] = session[s] /\ ActiveOf(s)' = ActiveOf(s)
    BY <1>1, <1>4 DEF ActiveOf
  <2> QED
    BY <2>1, <2>2, NothingHappens
<1> QED
  BY <1>3, <1>4

LEMMA TickMaps ==
    ASSUME IInv, CurrentKnown, CurrentKnown', Tick, NEW s \in Session
    PROVE  LifeStep(s)
<1>1. /\ session'[s].user = session[s].user
      /\ session'[s].revoked = session[s].revoked
      /\ session'[s].left = CountDown(session[s].left)
  BY RowTypes DEF Tick, SessionRow
<1>2. SameTokens(s)
  BY RowTypes DEF Tick, TokenRow, SameTokens
<1>3. ActiveOf(s)' = ActiveOf(s)
  BY <1>1 DEF Tick, ActiveOf
<1>4. Life(s)!Tick
  BY <1>1, <1>2, <1>3, TokensStand DEF Life!Tick, CountDown
<1> QED
  BY <1>4 DEF LifeStep, Life!Next

\* A read, a lock, a refusal and a rollback are nothing to any session.
LEMMA RequestMaps ==
    ASSUME CurrentKnown, CurrentKnown', NEW r \in Request,
           \/ Start(r) \/ Lock(r) \/ RefuseRefresh(r) \/ DetectReplay(r)
           \/ AbortDeadlock(r) \/ Crash(r),
           NEW s \in Session
    PROVE  LifeStep(s)
<1>1. UNCHANGED <<user, session, token>>
  BY DEF Start, BeginLogin, BeginBan, BeginWithToken, BeginChange, BeginRevoke,
     BeginCleanup, Begin, Lock, RefuseRefresh, DetectReplay, AbortDeadlock, Crash
<1> QED
  BY <1>1, QuietMaps

\* Every step is, for each session, a step of its life or none.
LEMMA StepMaps ==
    ASSUME IInv, CurrentKnown, CurrentKnown', [Next]_vars, NEW s \in Session
    PROVE  LifeStep(s)
<1>1. CASE UNCHANGED vars
  BY <1>1, QuietMaps DEF vars
<1>2. ASSUME NEW r \in Request, Commit(r)
      PROVE  LifeStep(s)
  BY <1>2, LoginMaps, RefreshMaps, RequestMaps, RevokeOneMaps, LogoutMaps,
     ChangePasswordMaps, BanMaps, UnbanMaps, CleanupMaps DEF Commit
<1> QED
  BY <1>1, <1>2, RegisterMaps, RequestMaps, TickMaps DEF Next

\* The rows, locks and transactions implement the abstract life of every session: its
\* current token is exchanged only while the session is alive, once, for one never seen
\* before, and what is revoked or exchanged stays so until the row is deleted.
THEOREM SessionImplemented == Spec => ImplementsSession
<1>1. Init => \A s \in Session : Life(s)!Init
  <2> SUFFICES ASSUME Init, NEW s \in Session PROVE Life(s)!Init
    OBVIOUS
  <2>1. session[s] = NoSession /\ \A t \in Token : token[t] = NoToken
    BY DEF Init
  <2>2. \A t \in Token : token[t].session # s
    BY <2>1, Nobodys, SessionsAssumption
  <2>3. CurrentOf(s) = None /\ SpentOf(s) = {}
    BY <2>2 DEF CurrentOf, IsCurrent, SpentOf
  <2>4. NoSession.left = 0
    BY DEF NoSession
  <2> QED
    BY <2>1, <2>3, <2>4, Nobodys DEF Life!Init, ActiveOf
<1>2. IInv => CurrentKnown
  BY CurrentIsUsable
<1>3. IInv /\ CurrentKnown /\ CurrentKnown' /\ [Next]_vars
      => [\A s \in Session : Life(s)!Next \/ UNCHANGED Life(s)!vars]_vars
  BY StepMaps DEF LifeStep
<1> QED
  BY <1>1, <1>2, <1>3, Safety, PTL DEF Spec, ImplementsSession

\* What the life of a session rules out, the transactions never do: a session that has
\* ended stays so, and a token that was exchanged is never current again.
THEOREM NothingComesBackHolds == Spec => NothingComesBack
<1>1. IInv => CurrentKnown
  BY CurrentIsUsable
<1>2. ASSUME IInv, CurrentKnown, CurrentKnown', [Next]_vars, NEW s \in Session,
             session[s].user # None
      PROVE  /\ CurrentOf(s) = None => CurrentOf(s)' = None
             /\ \/ session'[s].user = None
                \/ /\ session[s].revoked => session'[s].revoked
                   /\ SpentOf(s) \subseteq SpentOf(s)'
  <2>1. LifeStep(s)
    BY <1>2, StepMaps
  <2> QED
    BY <1>2, <2>1
       DEF LifeStep, Life!Next, Life!vars, Life!LogIn, Life!Rotate, Life!Revoke, Life!Ban,
           Life!Unban, Life!Forget, Life!Tick
<1>3. IInv /\ CurrentKnown /\ CurrentKnown' /\ [Next]_vars
      => [\A s \in Session : session[s].user # None =>
            /\ CurrentOf(s) = None => CurrentOf(s)' = None
            /\ \/ session'[s].user = None
               \/ /\ session[s].revoked => session'[s].revoked
                  /\ SpentOf(s) \subseteq SpentOf(s)']_vars
  BY <1>2
<1> QED
  BY <1>1, <1>3, Safety, PTL DEF Spec, NothingComesBack
=============================================================================
