---------------------------- MODULE SessionLifecycle ----------------------------
(***************************************************************************)
(* What the service promises about ONE login session, however many requests  *)
(* concern it at once: the abstract specification that AuthSessions          *)
(* implements for each of its rows (module AuthSessionsLifecycle).  The      *)
(* session is one object and every operation on it is one step: there is one *)
(* current refresh token, exchanged for the next one or gone with the        *)
(* session, and a token that was exchanged or ended is never current again.  *)
(***************************************************************************)
EXTENDS Integers

CONSTANTS
    User, Token, None,  \* users, refresh tokens, neither
    RefreshTTL          \* refresh_ttl

VARIABLES
    user,       \* whose session it is, None while there is none
    active,     \* that user is neither banned nor absent
    left,       \* time left to expires_at
    revoked,
    current,    \* the one token that a refresh takes
    spent       \* the tokens that were exchanged

vars == <<user, active, left, revoked, current, spent>>

Init ==
    /\ user = None /\ active = FALSE /\ left = 0 /\ revoked = FALSE
    /\ current = None /\ spent = {}

\* A login may have read its user before a ban.
LogIn(u, t) ==
    /\ user = None
    /\ user' = u /\ active' \in BOOLEAN /\ left' = RefreshTTL /\ revoked' = FALSE
    /\ current' = t /\ spent' = {}

\* The current token, of a session that is neither over nor its user banned, is
\* exchanged for a new one.
Rotate(new) ==
    /\ current # None /\ active /\ ~revoked /\ left > 0
    /\ new \notin spent \cup {current}
    /\ current' = new /\ spent' = spent \cup {current}
    /\ UNCHANGED <<user, active, left, revoked>>

\* Logout, replay, a password change elsewhere, an administrator.
Revoke ==
    /\ user # None /\ ~revoked
    /\ revoked' = TRUE /\ current' = None
    /\ UNCHANGED <<user, active, left, spent>>

Ban ==
    /\ user # None /\ active
    /\ active' = FALSE /\ revoked' = TRUE /\ current' = None
    /\ UNCHANGED <<user, left, spent>>

\* The user may log in again, and nothing that was revoked comes back.
Unban ==
    /\ user # None /\ ~active
    /\ active' = TRUE
    /\ UNCHANGED <<user, left, revoked, current, spent>>

\* An expired session is deleted, and its tokens with it.
Forget ==
    /\ user # None /\ left = 0
    /\ user' = None /\ active' = FALSE /\ left' = 0 /\ revoked' = FALSE
    /\ current' = None /\ spent' = {}

Tick ==
    /\ left' = IF left > 0 THEN left - 1 ELSE 0
    /\ UNCHANGED <<user, active, revoked, current, spent>>

Next ==
    \/ \E u \in User, t \in Token : LogIn(u, t)
    \/ \E new \in Token : Rotate(new)
    \/ Revoke \/ Ban \/ Unban \/ Forget \/ Tick

Spec == Init /\ [][Next]_vars
=============================================================================
