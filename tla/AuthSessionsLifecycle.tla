------------------------- MODULE AuthSessionsLifecycle -------------------------
(***************************************************************************)
(* Every row of auth_session goes through SessionLifecycle: the refinement   *)
(* mapping from rows, locks and requests in progress to one session's life.  *)
(***************************************************************************)
EXTENDS AuthSessions

\* The row's user is there and not banned.
ActiveOf(s) == session[s].user # None /\ user[session[s].user].status = "active"

\* A token that a refresh would take, were its session and user in order.
IsCurrent(s, t) ==
    token[t].session = s /\ token[t].revoked = FALSE /\ token[t].consumed = FALSE

CurrentOf(s) ==
    IF \E t \in Token : IsCurrent(s, t) THEN CHOOSE t \in Token : IsCurrent(s, t) ELSE None

SpentOf(s) == {t \in Token : token[t].session = s /\ token[t].consumed = TRUE}

Life(s) == INSTANCE SessionLifecycle WITH
    user <- session[s].user, active <- ActiveOf(s), left <- session[s].left,
    revoked <- session[s].revoked, current <- CurrentOf(s), spent <- SpentOf(s)

\* However the statements of refreshes, logouts, bans, password changes and cleanups
\* interleave, fail and are rolled back: each session is one object to which every
\* transaction happens at its commit, or not at all.  A refresh exchanges the current
\* token only, of a session that is alive, once; what was revoked or exchanged never
\* comes back; a ban ends the sessions that are there (rotate_refresh_token,
\* _revoke_replayed_session, set_ban_state and run_cleanup together).
\* (The same as \A s \in Session : Life(s)!Spec, which TLC cannot evaluate in this
\* form.)
ImplementsSession ==
    /\ \A s \in Session : Life(s)!Init
    /\ [][\A s \in Session : Life(s)!Next \/ UNCHANGED Life(s)!vars]_vars

\* As long as its row is there, a session that has no current token never has one
\* again, and what was revoked or exchanged stays so, whichever transaction read the
\* row or the token before (revoke_session, consume_token).
NothingComesBack ==
    [][\A s \in Session : session[s].user # None =>
         /\ CurrentOf(s) = None => CurrentOf(s)' = None
         /\ \/ session'[s].user = None
            \/ /\ session[s].revoked => session'[s].revoked
               /\ SpentOf(s) \subseteq SpentOf(s)']_vars
=============================================================================
