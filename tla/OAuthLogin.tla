------------------------------ MODULE OAuthLogin ------------------------------
(***************************************************************************)
(* OAuth logins and the login methods of a user: authorization attempts,    *)
(* callbacks that exchange the code over the network without a lock, linking *)
(* and unlinking of external identities, and the first password.  The choice *)
(* of a first username changes no login method and is left out.              *)
(* Every change of a user's login methods is a transaction that locks the    *)
(* user's row first (lock_user); how those locks meet is AuthSessions'.      *)
(*                                                                         *)
(* State and browser secrets are left out: a callback that does not carry    *)
(* those of its attempt changes nothing.  Which providers are configured and *)
(* whether registration is open are read from settings that an administrator *)
(* may change at any time: each step that reads them chooses their value.    *)
(* That some requests need a session of the last ten minutes only refuses    *)
(* more of them and is left out.                                             *)
(***************************************************************************)
EXTENDS Integers, FiniteSets

CONSTANTS
    User, Session, Attempt, \* rows of app_user, auth_session, oauth_..._attempt
    Request,                \* requests in progress at the same time
    Provider, Subject,      \* provider keys, accounts there
    None,                   \* NULL, no row
    MaxVersion              \* bound on password changes

ASSUME OAuthAssumption ==
    /\ MaxVersion \in Nat
    /\ None \notin User \cup Session \cup Attempt \cup Request

VARIABLES
    user, session, attempt,
    identity,     \* user_auth_identity: (provider, subject) -> user
    request

vars == <<user, session, attempt, identity, request>>

Identity == Provider \X Subject

\* password: password_auth_enabled.
UserRow == [status : {"absent", "active", "banned"}, password : BOOLEAN,
            version : 0..MaxVersion]
Absent == [status |-> "absent", password |-> FALSE, version |-> 0]

\* "revoked": under the lock of its user's row.  "ended": expired, which nothing
\* writes, or withdrawn without that lock, by an administrator or the cleanup.
\* via: history, the identity that logged in.
SessionRow == [state : {"absent", "live", "ended", "revoked"}, user : User \cup {None},
               via : Identity \cup {None}]
NoSession == [state |-> "absent", user |-> None, via |-> None]

\* session: of a link; None of a login.  A row that is consumed or has expired is
\* never read again and counts as removed.
AttemptRow == [open : BOOLEAN, provider : Provider \cup {None},
               session : Session \cup {None}]
NoAttempt == [open |-> FALSE, provider |-> None, session |-> None]

\* stored: the owner of the identity as _finish read it first.
\* usable: the providers load_configuration found.
Local == [pc : {"idle", "consumed", "found", "read",
                "unlink", "set_password"},
          session : Session \cup {None}, provider : Provider \cup {None},
          id : Identity \cup {None}, stored : User \cup {None}, retried : BOOLEAN,
          version : 0..MaxVersion, usable : SUBSET Provider]
Idle == [pc |-> "idle", session |-> None, provider |-> None, id |-> None,
         stored |-> None, retried |-> FALSE, version |-> 0, usable |-> {}]

-----------------------------------------------------------------------------
(* Helpers *)

Live(s) == session[s].state = "live"
Unrevoked(s) == session[s].state \in {"live", "ended"}
Ended(row) == [row EXCEPT !.state = "ended", !.via = None]
Revoked(row) == [row EXCEPT !.state = "revoked", !.via = None]
Owner(s) == session[s].user
Active(u) == user[u].status = "active"
Identities(u) == {i \in Identity : identity[i] = u}

\* authenticate_access_token
Authenticated(s) == Live(s) /\ Active(Owner(s))

\* _create_session
NewSession(u, via) ==
    \E s \in Session :
        /\ session[s] = NoSession
        /\ session' = [session EXCEPT ![s] = [state |-> "live", user |-> u, via |-> via]]

\* revoke_other_sessions
RevokeOthers(s) ==
    session' = [x \in Session |->
                  IF x # s /\ Unrevoked(x) /\ Owner(x) = Owner(s)
                  THEN Revoked(session[x]) ELSE session[x]]

\* _validate_mutation: under the user lock, the session and the password are
\* those the request was authenticated with.
ValidateMutation(r) ==
    LET s == request[r].session
    IN  /\ Live(s) /\ Active(Owner(s))
        /\ user[Owner(s)].version = request[r].version

Finished(r) == request' = [request EXCEPT ![r] = Idle]

-----------------------------------------------------------------------------
(* Attempts and callbacks *)

\* begin, for a login or, from a session, for a link.
BeginAttempt(a, p, s) ==
    /\ attempt[a] = NoAttempt
    /\ s # None => Authenticated(s)
    /\ attempt' = [attempt EXCEPT ![a] = [open |-> TRUE, provider |-> p, session |-> s]]
    /\ UNCHANGED <<user, session, identity, request>>

\* An attempt expires; begin removes its row.
AttemptExpires(a) ==
    /\ attempt[a].open
    /\ attempt' = [attempt EXCEPT ![a] = NoAttempt]
    /\ UNCHANGED <<user, session, identity, request>>

\* complete: the attempt is consumed by one conditional UPDATE that commits
\* before anything else happens; a denied authorization ends there.
Consume(r, a) ==
    /\ request[r].pc = "idle" /\ attempt[a].open
    /\ attempt' = [attempt EXCEPT ![a] = NoAttempt]
    /\ \E denied \in BOOLEAN :
         request' = IF denied THEN request
                    ELSE [request EXCEPT ![r] = [Idle EXCEPT
                            !.pc = "consumed", !.session = attempt[a].session,
                            !.provider = attempt[a].provider]]
    /\ UNCHANGED <<user, session, identity>>

\* validate_refresh_session for a link, then fetch_identity: an account of the
\* provider, or a failure of any kind.
Exchange(r) ==
    /\ request[r].pc = "consumed"
    /\ \/ /\ request[r].session # None => Live(request[r].session)
          /\ \E subject \in Subject :
               request' = [request EXCEPT ![r].pc = "found", ![r].provider = None,
                             ![r].id = <<request[r].provider, subject>>]
       \/ Finished(r)
    /\ UNCHANGED <<user, session, attempt, identity>>

\* _finish: the clock and the identity are read first, without a lock.  A link whose
\* session has ended by that clock is refused, whatever is read later; the others
\* read the identity again under the lock and do not use the first reading.
ReadIdentity(r) ==
    LET s == request[r].session
    IN  /\ request[r].pc = "found"
        /\ \/ /\ s = None
              /\ request' = [request EXCEPT ![r].pc = "read",
                               ![r].stored = identity[request[r].id]]
           \/ /\ s # None /\ Live(s)
              /\ request' = [request EXCEPT ![r].pc = "read"]
           \/ /\ s # None /\ ~Live(s)
              /\ Finished(r)
        /\ UNCHANGED <<user, session, attempt, identity>>

\* Mutant: that the session was not expired is all that is looked at.
MayLink_Unchecked(r) ==
    LET u == Owner(request[r].session)
    IN  /\ Active(u)
        /\ \A i \in Identities(u) : i[1] = request[r].provider => i = request[r].id

\* The checks of a link under the user lock.  The session is read again, but its
\* expiry is compared with the clock read before the lock: a session that expires
\* in between still links.
MayLink(r) ==
    LET u == Owner(request[r].session)
    IN  /\ Unrevoked(request[r].session) /\ Active(u)
        /\ \A i \in Identities(u) : i[1] = request[r].provider => i = request[r].id

\* A session withdrawn without the lock is refused when that was before it was
\* read again, and no later.  The lock does not keep the callback of another user
\* from storing the identity either: the unique constraint then undoes the link,
\* and it is tried again once.
FinishLink(r) ==
    LET u == Owner(request[r].session)
        free == identity[request[r].id] \in {None, u}
    IN  /\ request[r].pc = "read" /\ request[r].session # None
        /\ \/ /\ MayLink(r) /\ free
              /\ identity' = [identity EXCEPT ![request[r].id] = u]
              /\ Finished(r)
           \/ /\ MayLink(r) /\ ~free /\ ~request[r].retried
              /\ request' = [request EXCEPT ![r].pc = "found", ![r].retried = TRUE]
              /\ UNCHANGED identity
           \/ /\ ~MayLink(r) \/ ~free \/ ~Live(request[r].session)
              /\ Finished(r)
              /\ UNCHANGED identity
        /\ UNCHANGED <<user, session, attempt>>

\* Mutant: the owner read before the lock is taken as it is.
StillOwns_Stale(r) == TRUE

\* The identity may have been unlinked while the lock was awaited.
StillOwns(r) == identity[request[r].id] = request[r].stored

\* A login with a known identity.
FinishLogin(r) ==
    /\ request[r].pc = "read" /\ request[r].session = None /\ request[r].stored # None
    /\ IF StillOwns(r) /\ Active(request[r].stored)
       THEN NewSession(request[r].stored, request[r].id)
       ELSE UNCHANGED session
    /\ Finished(r)
    /\ UNCHANGED <<user, attempt, identity>>

\* Mutant: the account is kept although the identity turned out to be taken.
FinishSignup_KeepsUser(r) ==
    /\ request[r].pc = "read" /\ request[r].session = None /\ request[r].stored = None
    /\ \E u \in User :
        /\ user[u] = Absent
        /\ user' = [user EXCEPT ![u] = [Absent EXCEPT !.status = "active"]]
        /\ IF identity[request[r].id] = None
           THEN /\ identity' = [identity EXCEPT ![request[r].id] = u]
                /\ NewSession(u, request[r].id)
           ELSE UNCHANGED <<identity, session>>
    /\ Finished(r)
    /\ UNCHANGED <<attempt>>

\* A login with a new identity: account, identity and session at once.  When a
\* concurrent callback has stored the identity, the unique constraint undoes the
\* transaction, and it is tried again once.
FinishSignup(r) ==
    /\ request[r].pc = "read" /\ request[r].session = None /\ request[r].stored = None
    /\ \/ /\ identity[request[r].id] = None
          /\ \E u \in User :
              /\ user[u] = Absent
              /\ user' = [user EXCEPT ![u] =
                            [Absent EXCEPT !.status = "active"]]
              /\ identity' = [identity EXCEPT ![request[r].id] = u]
              /\ NewSession(u, request[r].id)
          /\ Finished(r)
       \/ /\ identity[request[r].id] # None /\ ~request[r].retried
          /\ request' = [request EXCEPT ![r].pc = "found", ![r].retried = TRUE]
          /\ UNCHANGED <<user, identity, session>>
       \/ \* registration is closed, or the identity is in use after the retry
          /\ Finished(r)
          /\ UNCHANGED <<user, identity, session>>
    /\ UNCHANGED <<attempt>>

-----------------------------------------------------------------------------
(* Changes of the login methods *)

\* The request is authenticated; unlink loads the configured providers, of which
\* the one to unlink is not looked at.
BeginChange(r, s, pc, p) ==
    /\ request[r].pc = "idle" /\ Authenticated(s)
    /\ p # None <=> pc = "unlink"
    /\ \E usable \in SUBSET (Provider \ {p}) :
        /\ pc # "unlink" => usable = {}
        /\ request' = [request EXCEPT ![r] = [Idle EXCEPT
                         !.pc = pc, !.session = s, !.provider = p,
                         !.version = user[Owner(s)].version, !.usable = usable]]
    /\ UNCHANGED <<user, session, attempt, identity>>

\* A password, or an identity of another provider that is configured.
MethodRemains(r, u) ==
    \/ user[u].password
    \/ \E i \in Identities(u) : i[1] # request[r].provider /\ i[1] \in request[r].usable

Unlink(r) ==
    LET u == Owner(request[r].session)
        target == {i \in Identities(u) : i[1] = request[r].provider}
    IN  /\ request[r].pc = "unlink"
        /\ IF ValidateMutation(r) /\ target # {} /\ MethodRemains(r, u)
           THEN /\ identity' = [i \in Identity |-> IF i \in target THEN None ELSE identity[i]]
                /\ RevokeOthers(request[r].session)
           ELSE UNCHANGED <<identity, session>>
        /\ Finished(r)
        /\ UNCHANGED <<user, attempt>>

SetPassword(r) ==
    LET u == Owner(request[r].session)
    IN  /\ request[r].pc = "set_password"
        /\ IF ValidateMutation(r) /\ ~user[u].password /\ user[u].version < MaxVersion
           THEN /\ user' = [user EXCEPT ![u].password = TRUE, ![u].version = @ + 1]
                /\ RevokeOthers(request[r].session)
           ELSE UNCHANGED <<user, session>>
        /\ Finished(r)
        /\ UNCHANGED <<attempt, identity>>

-----------------------------------------------------------------------------
(* What AuthSessions and the administrator do meanwhile *)

Register(u) ==
    /\ user[u] = Absent
    /\ user' = [user EXCEPT ![u] = [Absent EXCEPT !.status = "active", !.password = TRUE]]
    /\ NewSession(u, None)
    /\ UNCHANGED <<attempt, identity, request>>

Login(u) ==
    /\ Active(u) /\ user[u].password
    /\ NewSession(u, None)
    /\ UNCHANGED <<user, attempt, identity, request>>

\* change_password
ChangePassword(s) ==
    /\ Authenticated(s) /\ user[Owner(s)].password /\ user[Owner(s)].version < MaxVersion
    /\ user' = [user EXCEPT ![Owner(s)].version = @ + 1]
    /\ RevokeOthers(s)
    /\ UNCHANGED <<attempt, identity, request>>

\* logout, and the answer to a replayed token: the session is revoked, expired or
\* not, under its user's lock.
Logout(s) ==
    /\ Unrevoked(s)
    /\ session' = [session EXCEPT ![s] = Revoked(@)]
    /\ UNCHANGED <<user, attempt, identity, request>>

\* The session expires, an administrator revokes it or the cleanup removes it.
SessionEnds(s) ==
    /\ Live(s)
    /\ session' = [session EXCEPT ![s] = Ended(@)]
    /\ UNCHANGED <<user, attempt, identity, request>>

SetBan(u) ==
    /\ user[u].status # "absent"
    /\ user' = [user EXCEPT ![u].status = IF @ = "active" THEN "banned" ELSE "active"]
    /\ session' = [s \in Session |-> IF Unrevoked(s) /\ Owner(s) = u /\ Active(u)
                                     THEN Revoked(session[s])
                                     ELSE session[s]]
    /\ UNCHANGED <<attempt, identity, request>>

-----------------------------------------------------------------------------

Init ==
    /\ user = [u \in User |-> Absent]
    /\ session = [s \in Session |-> NoSession]
    /\ attempt = [a \in Attempt |-> NoAttempt]
    /\ identity = [i \in Identity |-> None]
    /\ request = [r \in Request |-> Idle]

Callback(r) ==
    \/ \E a \in Attempt : Consume(r, a)
    \/ Exchange(r) \/ ReadIdentity(r)
    \/ FinishLink(r) \/ FinishLogin(r) \/ FinishSignup(r)

Change(r) ==
    \/ \E s \in Session, pc \in {"unlink", "set_password"},
          p \in Provider \cup {None} : BeginChange(r, s, pc, p)
    \/ Unlink(r) \/ SetPassword(r)

Environment ==
    \/ \E a \in Attempt :
        \/ \E p \in Provider, s \in Session \cup {None} : BeginAttempt(a, p, s)
        \/ AttemptExpires(a)
    \/ \E u \in User : Register(u) \/ Login(u) \/ SetBan(u)
    \/ \E s \in Session : ChangePassword(s) \/ Logout(s) \/ SessionEnds(s)

Next == (\E r \in Request : Callback(r) \/ Change(r)) \/ Environment

Spec == Init /\ [][Next]_vars

-----------------------------------------------------------------------------
(* Properties *)

\* Every variable keeps its type.
TypeOK ==
    /\ user \in [User -> UserRow]
    /\ session \in [Session -> SessionRow]
    /\ attempt \in [Attempt -> AttemptRow]
    /\ identity \in [Identity -> User \cup {None}]
    /\ request \in [Request -> Local]

\* However callbacks, unlinkings and first passwords interleave, nobody is left
\* with an account that no method logs in to.
LoginMethodRemains ==
    \A u \in User :
        user[u].status # "absent" => user[u].password \/ Identities(u) # {}

\* Once an identity is unlinked, no session it logged in to lives on, but for the
\* one that unlinked it: not even of a callback that was in progress.
UnlinkingEndsSessions ==
    [][\A s \in Session :
        LET via == session'[s].via
        IN  /\ via # None /\ session'[s].state = "live"
            /\ identity'[via] # session'[s].user
            => /\ session[s] # NoSession
               /\ \/ identity[via] # session[s].user
                  \/ \E r \in Request : request[r].pc = "unlink" /\ request[r].session = s]_vars

\* A session that its user's lock revoked (by a logout, a replayed token, a password
\* change, an unlinking, a ban) gives nobody an identity any more, although callbacks
\* of links it began are still at the provider or wait for that lock; and nobody else
\* gets one, but a new user.
LinksEndWithTheirSession ==
    [][\A i \in Identity :
        identity[i] = None /\ identity'[i] # None
        => \/ user[identity'[i]] = Absent
           \/ \E r \in Request :
                 LET s == request[r].session
                 IN  /\ request[r].pc = "read" /\ request[r].id = i /\ s # None
                     /\ Unrevoked(s) /\ Owner(s) = identity'[i] /\ Active(Owner(s))]_vars

=============================================================================
