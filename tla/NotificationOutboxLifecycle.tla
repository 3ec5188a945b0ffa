---------------------- MODULE NotificationOutboxLifecycle ----------------------
(***************************************************************************)
(* Every row of notification_outbox goes through MessageLifecycle: the       *)
(* refinement mapping from the outbox with its tokens, row locks and         *)
(* notifiers, the ones that lost their row included, to one message's life.  *)
(***************************************************************************)
EXTENDS NotificationOutbox

CONSTANT NoNotifier

ASSUME NoNotifierAssumption == NoNotifier \notin Notifier

\* Delivering, or with an answer to write back, and still under the row's token.
Presents(n, m) ==
    /\ notifier[n].pc \in {"claimed", "answered"}
    /\ notifier[n].message = m /\ Holds(n)

\* The one notifier whose write back the row would take.
OwnerOf(m) ==
    IF \E n \in Notifier : Presents(n, m)
    THEN CHOOSE n \in Notifier : Presents(n, m)
    ELSE NoNotifier

AnswerOf(m) ==
    IF \E n \in Notifier : Presents(n, m) THEN notifier[OwnerOf(m)].result ELSE "none"

Life(m) == INSTANCE MessageLifecycle WITH
    status <- row[m].status, enabled <- deliverable[m], wait <- row[m].wait,
    lease <- row[m].lease, owner <- OwnerOf(m), answer <- AnswerOf(m),
    attempts <- row[m].attempts

\* Whichever notifiers claim, stall, crash and write back, what any one message
\* undergoes is a behaviour of the abstract life: it is claimed only while its rule
\* is on and its wait or its lease is over, and only the answer of its current
\* owner decides what becomes of it (claim_outbox, _locked_outbox and the write
\* backs of run_once together).  An outcome that comes after a takeover is nothing.
\* (The same as \A m \in Message : Life(m)!Spec, which TLC cannot evaluate in this
\* form.)
ImplementsDelivery ==
    /\ \A m \in Message : Life(m)!Init
    /\ [][\A m \in Message : Life(m)!Next \/ UNCHANGED Life(m)!vars]_outboxVars
=============================================================================
