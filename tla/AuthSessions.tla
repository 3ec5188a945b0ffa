----------------------------- MODULE AuthSessions -----------------------------
(***************************************************************************)
(* Login sessions and their refresh tokens: registration, login, rotation   *)
(* with replay detection, logout, password change, bans, revocation by an   *)
(* administrator and cleanup, as concurrent transactions that lock rows     *)
(* statement by statement (PostgreSQL, READ COMMITTED).                      *)
(*                                                                         *)
(* A password is its version: changing it replaces the hash and the time    *)
(* password_changed_at, and a login supplies the hash it read.  Times are   *)
(* the time LEFT until them.  Access tokens are signed and not stored; only *)
(* the password version of the newest one of a session matters.             *)
(***************************************************************************)
EXTENDS Integers, Sequences, FiniteSets

CONSTANTS
    User, Session, Token,  \* rows of app_user, auth_session, auth_refresh_token
    Request,               \* requests in progress at the same time
    None,                  \* NULL, no row
    RefreshTTL,            \* refresh_ttl
    MaxVersion             \* bound on password changes

ASSUME SessionsAssumption ==
    /\ RefreshTTL \in Nat \ {0}
    /\ MaxVersion \in Nat
    /\ None \notin User \cup Session \cup Token \cup Request

VARIABLES
    user,      \* app_user
    session,   \* auth_session
    token,     \* auth_refresh_token
    request,   \* local state of each request
    lock,      \* row -> the request whose transaction has locked it
    presented  \* history: presentations of a token that were answered

vars == <<user, session, token, request, lock, presented>>

UserRow == [status : {"absent", "active", "banned"}, version : 0..MaxVersion]
\* access: password version in the newest access token of the session.
SessionRow == [user : User \cup {None}, left : 0..RefreshTTL, revoked : BOOLEAN,
               access : 0..MaxVersion]
TokenRow == [session : Session \cup {None}, left : 0..RefreshTTL,
             consumed : BOOLEAN, revoked : BOOLEAN]
NoSession == [user |-> None, left |-> 0, revoked |-> FALSE, access |-> 0]
NoToken == [session |-> None, left |-> 0, consumed |-> FALSE, revoked |-> FALSE]

\* The transactions.  "replay" is the one that follows a "refresh" that met a
\* consumed token.
Kind == {"idle", "login", "refresh", "replay", "logout", "change", "ban", "unban",
         "revoke", "cleanup"}
Local == [kind : Kind, user : User \cup {None}, session : Session \cup {None},
          token : Token \cup {None}, version : 0..MaxVersion]
Idle == [kind |-> "idle", user |-> None, session |-> None, token |-> None,
         version |-> 0]

Row == ({"user"} \X User) \cup ({"session"} \X Session) \cup ({"token"} \X Token)

-----------------------------------------------------------------------------
(* Helpers *)

\* Mutant: a replacement lives its full time.
Lesser_First(a, b) == a

Lesser(a, b) == IF a <= b THEN a ELSE b

Expired == {s \in Session : session[s].user # None /\ session[s].left = 0}
Unrevoked(u) == {s \in Session : session[s].user = u /\ ~session[s].revoked}
TokensOf(S) == {t \in Token : token[t].session \in S}
LiveTokens(S) == {t \in TokensOf(S) : ~token[t].revoked}

\* Mutant: whether token or session were revoked is not looked at.
TokenIsActive_Revoked(t) ==
    token[t].left > 0 /\ session[token[t].session].left > 0

\* _token_is_active
TokenIsActive(t) ==
    LET s == token[t].session
    IN  /\ ~token[t].revoked /\ token[t].left > 0
        /\ ~session[s].revoked /\ session[s].left > 0

\* authenticate_access_token, for a token of session s that has not expired.
Authenticates(s) ==
    LET u == session[s].user
    IN  /\ u # None /\ user[u].status = "active"
        /\ ~session[s].revoked /\ session[s].left > 0
        /\ session[s].access = user[u].version

UnusedSession(s) == session[s] = NoSession /\ \A r \in Request : request[r].session # s
UnusedToken(t) == token[t] = NoToken /\ \A r \in Request : request[r].token # t

\* _create_session; the password version is the one in the record it is given.
CreateSession(u, version) ==
    \E s \in Session, t \in Token :
        /\ UnusedSession(s) /\ UnusedToken(t)
        /\ session' = [session EXCEPT ![s] =
             [user |-> u, left |-> RefreshTTL, revoked |-> FALSE, access |-> version]]
        /\ token' = [token EXCEPT ![t] =
             [session |-> s, left |-> RefreshTTL, consumed |-> FALSE, revoked |-> FALSE]]

\* revoke_session and _revoke_user_sessions: sessions and their live tokens.
RevokeAll(S) ==
    /\ session' = [s \in Session |->
                     IF s \in S THEN [session[s] EXCEPT !.revoked = TRUE] ELSE session[s]]
    /\ token' = [t \in Token |-> IF t \in LiveTokens(S)
                                 THEN [token[t] EXCEPT !.revoked = TRUE] ELSE token[t]]

Users(S) == {"user"} \X S
Sessions(S) == {"session"} \X S
Tokens(S) == {"token"} \X S

\* Mutant: the compensation of a replay goes straight to the session.
ReplayPlan_Unlocked(r) ==
    << Sessions({request[r].session}), Tokens(LiveTokens({request[r].session})) >>

\* The statements of _revoke_replayed_session.
ReplayPlan(r) ==
    << Users({request[r].user}), Sessions({request[r].session}),
       Tokens(LiveTokens({request[r].session})) >>

\* The rows each statement of a transaction locks, in order.  A statement that
\* finds its condition false locks nothing.
Plan(r) ==
    LET u == request[r].user
        s == request[r].session
        t == request[r].token
        live == IF s = None \/ session[s].revoked THEN {} ELSE {s}
        stale == request[r].version # user[u].version
        others == IF stale THEN {} ELSE Unrevoked(u) \ {s}
    IN  CASE request[r].kind \in {"login", "unban"} -> << Users({u}) >>
          [] request[r].kind = "refresh" -> << Users({u}), Tokens({t}), Sessions({s}) >>
          [] request[r].kind = "replay" -> ReplayPlan(r)
          [] request[r].kind = "logout" ->
                << Users({u}), Sessions(live), Tokens(LiveTokens(live)) >>
          [] request[r].kind = "change" ->
                << Users({u}), Tokens(LiveTokens(others)), Sessions(others) >>
          [] request[r].kind = "ban" ->
                << Users({u}), Sessions(Unrevoked(u)),
                   Tokens(LiveTokens({x \in Session : session[x].user = u})) >>
          [] request[r].kind = "revoke" -> << Sessions(live), Tokens(LiveTokens(live)) >>
          [] request[r].kind = "cleanup" ->
                << Sessions(Expired), Tokens(TokensOf(Expired)) >>
          [] OTHER -> << >>

Held(r) == {row \in Row : lock[row] = r}

\* The rows the current statement of r still has to lock; none before a commit.
Wants(r) ==
    LET unfinished == {i \in DOMAIN Plan(r) : ~(Plan(r)[i] \subseteq Held(r))}
    IN  IF unfinished = {} THEN {}
        ELSE Plan(r)[CHOOSE i \in unfinished : \A j \in unfinished : i <= j] \ Held(r)

WaitsFor(r, q) == \E row \in Wants(r) : lock[row] = q

\* A set of requests none of which can go on before another of them ends.
LockCycle(D) == D # {} /\ \A r \in D : \E q \in D \ {r} : WaitsFor(r, q)

\* The end of a transaction: its locks are released.
End(r) ==
    /\ request' = [request EXCEPT ![r] = Idle]
    /\ lock' = [row \in Row |-> IF lock[row] = r THEN None ELSE lock[row]]

Commits(r, kind) == request[r].kind = kind /\ Wants(r) = {}

-----------------------------------------------------------------------------
(* Registration, and the reads that requests begin with.  A request that finds *)
(* nothing to do there is left out.                                           *)

Register(u) ==
    /\ user[u].status = "absent"
    /\ user' = [user EXCEPT ![u].status = "active"]
    /\ CreateSession(u, 0)
    /\ UNCHANGED <<request, lock, presented>>

Begin(r, local) ==
    /\ request[r] = Idle
    /\ request' = [request EXCEPT ![r] = local]
    /\ UNCHANGED <<user, session, token, lock, presented>>

\* login reads the user without a lock and checks the password and the ban.
BeginLogin(r, u) ==
    /\ user[u].status = "active"
    /\ Begin(r, [Idle EXCEPT !.kind = "login", !.user = u, !.version = user[u].version])

\* _resolve_refresh_session, for rotation and logout.
BeginWithToken(r, t, kind) ==
    /\ token[t] # NoToken
    /\ kind = "logout" => ~session[token[t].session].revoked
    /\ Begin(r, [Idle EXCEPT !.kind = kind, !.token = t, !.session = token[t].session,
                             !.user = session[token[t].session].user])

\* change_password is authenticated in a transaction of its own and verifies
\* the password against the hash read there.
BeginChange(r, s) ==
    /\ Authenticates(s)
    /\ Begin(r, [Idle EXCEPT !.kind = "change", !.session = s,
                   !.user = session[s].user, !.version = session[s].access])

\* set_ban_state
BeginBan(r, u) ==
    \/ /\ user[u].status = "active"
       /\ Begin(r, [Idle EXCEPT !.kind = "ban", !.user = u])
    \/ /\ user[u].status = "banned"
       /\ Begin(r, [Idle EXCEPT !.kind = "unban", !.user = u])

\* revoke_user_session
BeginRevoke(r, s) ==
    /\ session[s] # NoSession /\ ~session[s].revoked
    /\ Begin(r, [Idle EXCEPT !.kind = "revoke", !.session = s])

\* run_cleanup
BeginCleanup(r) ==
    /\ Expired # {}
    /\ Begin(r, [Idle EXCEPT !.kind = "cleanup"])

Lock(r) ==
    \E row \in Wants(r) :
        /\ lock[row] = None
        /\ lock' = [lock EXCEPT ![row] = r]
        /\ UNCHANGED <<user, session, token, request, presented>>

-----------------------------------------------------------------------------
(* Commits: what each transaction does once it has its locks *)

Login(r) ==
    /\ Commits(r, "login")
    /\ CreateSession(request[r].user, request[r].version)
    /\ End(r)
    /\ UNCHANGED <<user, presented>>

\* Mutant: a consumed token is not told from a fresh one.
Replayed_Never(t) == FALSE

Replayed(t) == token[t].consumed

\* Mutant: the user is not looked at, as if a ban had always ended the session.
MayRefresh_Banned(r) ==
    token[request[r].token] # NoToken /\ TokenIsActive(request[r].token)

\* The checks of rotate_refresh_token under its locks, but for the replay.
MayRefresh(r) ==
    LET t == request[r].token
    IN  /\ token[t] # NoToken /\ TokenIsActive(t)
        /\ user[request[r].user].status = "active"

Refresh(r) ==
    LET t == request[r].token
        s == request[r].session
    IN  /\ Commits(r, "refresh") /\ ~Replayed(t) /\ MayRefresh(r)
        /\ \E new \in Token :
            /\ UnusedToken(new)
            /\ token' = [token EXCEPT
                 ![t].consumed = TRUE,
                 ![new] = [session |-> s, left |-> Lesser(RefreshTTL, session[s].left),
                           consumed |-> FALSE, revoked |-> FALSE]]
        /\ session' = [session EXCEPT ![s].access = user[request[r].user].version]
        /\ presented' = [presented EXCEPT ![t] = Lesser(@ + 1, 2)]
        /\ End(r)
        /\ UNCHANGED user

RefuseRefresh(r) ==
    /\ Commits(r, "refresh") /\ ~Replayed(request[r].token) /\ ~MayRefresh(r)
    /\ End(r)
    /\ UNCHANGED <<user, session, token, presented>>

\* The transaction that met a consumed token rolls back; the next one revokes.
DetectReplay(r) ==
    /\ Commits(r, "refresh") /\ Replayed(request[r].token)
    /\ request' = [request EXCEPT ![r].kind = "replay"]
    /\ lock' = [row \in Row |-> IF lock[row] = r THEN None ELSE lock[row]]
    /\ UNCHANGED <<user, session, token, presented>>

\* Mutant: the replayed token alone is revoked.
RevokeReplayed_TokenOnly(r) ==
    /\ Commits(r, "replay")
    /\ token' = [token EXCEPT ![request[r].token].revoked = token[request[r].token] # NoToken]
    /\ presented' = [presented EXCEPT ![request[r].token] = Lesser(@ + 1, 2)]
    /\ End(r)
    /\ UNCHANGED <<user, session>>

\* _revoke_replayed_session; only then the request is answered.
RevokeReplayed(r) ==
    /\ Commits(r, "replay")
    /\ RevokeAll({request[r].session} \cap {s \in Session : session[s] # NoSession})
    /\ presented' = [presented EXCEPT ![request[r].token] =
                       IF token[request[r].token] = NoToken THEN 0 ELSE Lesser(@ + 1, 2)]
    /\ End(r)
    /\ UNCHANGED user

\* A consumed token ends its session as well as a fresh one.
Logout(r) ==
    /\ Commits(r, "logout")
    /\ RevokeAll(IF token[request[r].token] = NoToken THEN {} ELSE {request[r].session})
    /\ End(r)
    /\ UNCHANGED <<user, presented>>

\* The session is not looked at again: it may have been revoked since.
ChangePassword(r) ==
    LET u == request[r].user
    IN  /\ Commits(r, "change")
        /\ IF /\ user[u].version = request[r].version /\ user[u].status = "active"
              /\ user[u].version < MaxVersion
           THEN /\ user' = [user EXCEPT ![u].version = @ + 1]
                /\ RevokeAll(Unrevoked(u) \ {request[r].session})
           ELSE UNCHANGED <<user, session, token>>
        /\ End(r)
        /\ UNCHANGED presented

Ban(r) ==
    LET u == request[r].user
    IN  /\ Commits(r, "ban")
        /\ IF user[u].status = "active"
           THEN /\ user' = [user EXCEPT ![u].status = "banned"]
                /\ RevokeAll({s \in Session : session[s].user = u})
           ELSE UNCHANGED <<user, session, token>>
        /\ End(r)
        /\ UNCHANGED presented

\* Nothing that was revoked comes back.
Unban(r) ==
    /\ Commits(r, "unban")
    /\ user' = [user EXCEPT ![request[r].user].status = "active"]
    /\ End(r)
    /\ UNCHANGED <<session, token, presented>>

RevokeSession(r) ==
    /\ Commits(r, "revoke")
    /\ RevokeAll({request[r].session} \cap {s \in Session : session[s] # NoSession})
    /\ End(r)
    /\ UNCHANGED <<user, presented>>

\* Expired sessions go, and their tokens with them (ON DELETE CASCADE).
Cleanup(r) ==
    /\ Commits(r, "cleanup")
    /\ session' = [s \in Session |-> IF s \in Expired THEN NoSession ELSE session[s]]
    /\ token' = [t \in Token |-> IF t \in TokensOf(Expired) THEN NoToken ELSE token[t]]
    /\ presented' = [t \in Token |-> IF t \in TokensOf(Expired) THEN 0 ELSE presented[t]]
    /\ End(r)
    /\ UNCHANGED user

\* The database ends a lock cycle by rolling back one of its transactions.
AbortDeadlock(r) ==
    /\ \E D \in SUBSET Request : r \in D /\ LockCycle(D)
    /\ End(r)
    /\ UNCHANGED <<user, session, token, presented>>

\* The process dies, or the connection is lost: the transaction rolls back.
Crash(r) ==
    /\ request[r].kind # "idle"
    /\ End(r)
    /\ UNCHANGED <<user, session, token, presented>>

CountDown(timer) == IF timer > 0 THEN timer - 1 ELSE 0

Tick ==
    /\ \E s \in Session : session[s].left > 0
    /\ session' = [s \in Session |-> [session[s] EXCEPT !.left = CountDown(@)]]
    /\ token' = [t \in Token |-> [token[t] EXCEPT !.left = CountDown(@)]]
    /\ UNCHANGED <<user, request, lock, presented>>

-----------------------------------------------------------------------------

Init ==
    /\ user = [u \in User |-> [status |-> "absent", version |-> 0]]
    /\ session = [s \in Session |-> NoSession]
    /\ token = [t \in Token |-> NoToken]
    /\ request = [r \in Request |-> Idle]
    /\ lock = [row \in Row |-> None]
    /\ presented = [t \in Token |-> 0]

Start(r) ==
    \/ \E u \in User : BeginLogin(r, u) \/ BeginBan(r, u)
    \/ \E t \in Token : \E kind \in {"refresh", "logout"} : BeginWithToken(r, t, kind)
    \/ \E s \in Session : BeginChange(r, s) \/ BeginRevoke(r, s)
    \/ BeginCleanup(r)

Commit(r) ==
    \/ Login(r) \/ Refresh(r) \/ RefuseRefresh(r) \/ DetectReplay(r) \/ RevokeReplayed(r)
    \/ Logout(r) \/ ChangePassword(r) \/ Ban(r) \/ Unban(r) \/ RevokeSession(r)
    \/ Cleanup(r)

Next ==
    \/ \E u \in User : Register(u)
    \/ \E r \in Request :
        Start(r) \/ Lock(r) \/ Commit(r) \/ AbortDeadlock(r) \/ Crash(r)
    \/ Tick

Spec == Init /\ [][Next]_vars

-----------------------------------------------------------------------------
(* Properties *)

\* Every variable keeps its type.
TypeOK ==
    /\ user \in [User -> UserRow]
    /\ session \in [Session -> SessionRow]
    /\ token \in [Token -> TokenRow]
    /\ request \in [Request -> Local]
    /\ lock \in [Row -> Request \cup {None}]
    /\ presented \in [Token -> 0..2]

\* A session has at most one refresh token that can still be used, however many
\* requests present the same one at once (rotate_refresh_token).
OneLiveToken ==
    \A s \in Session :
        Cardinality({t \in LiveTokens({s}) : ~token[t].consumed}) <= 1

\* No token of a revoked session is left alive: not by a rotation that began
\* before the revocation, whoever revokes and whatever each has locked.
RevokedIsDead ==
    \A s \in Session : session[s].revoked => LiveTokens({s}) = {}

\* Rotation never makes a login last longer than its session.
NoTokenOutlivesSession ==
    \A t \in Token : token[t] # NoToken =>
        session[token[t].session] # NoSession
        /\ token[t].left <= session[token[t].session].left

\* A refresh token that was presented twice, and answered, has ended its session,
\* in whatever order the two requests, a logout, a ban or a crash came.
SecondUseEndsSession ==
    \A t \in Token : presented[t] = 2 => session[token[t].session].revoked

\* Transactions lock the user first, so they never wait for each other in a
\* circle; the exceptions are the two that do not lock the user, the revocation
\* by an administrator and the cleanup.
UserLockOrdersRequests ==
    \A D \in SUBSET Request :
        LockCycle(D) => \E r \in D : request[r].kind \in {"revoke", "cleanup"}

\* A banned user has no session left.
BanEndsSessions ==
    \A u \in User : user[u].status = "banned" => Unrevoked(u) = {}
=============================================================================
