------------------------ MODULE RefreshTasksLifecycle ------------------------
(***************************************************************************)
(* Every row of the task table goes through TaskLifecycle: the refinement   *)
(* mapping from the queue with its clock, tokens, workers and restarts to    *)
(* the life of one task.                                                    *)
(***************************************************************************)
EXTENDS RefreshTasks

CONSTANT NoWorker

ASSUME NoWorkerAssumption == NoWorker \notin Worker

Inserted(t) == t \in TaskId

\* Time left until an absolute time, 0 when it has passed.
Left(at) == IF at > now THEN at - now ELSE 0

\* The one worker that can still write task t's result (OneWriter).
OwnerOf(t) ==
    IF \E w \in Worker : Busy(w) /\ Holds(w) /\ worker[w].task = t
    THEN CHOOSE w \in Worker : Busy(w) /\ Holds(w) /\ worker[w].task = t
    ELSE NoWorker

\* max_attempts is a column: a row keeps the limit it was inserted with, by the
\* scheduler or by a request.  The mapping counts up to the larger of the two.
AttemptLimit == IF MaxAttempts > ScheduledMaxAttempts
                THEN MaxAttempts ELSE ScheduledMaxAttempts

StatusOf(t)   == IF Inserted(t) THEN task[t].status ELSE "absent"
WaitOf(t)     == IF StatusOf(t) = "queued" THEN Left(task[t].avail) ELSE 0
LeaseOf(t)    == IF StatusOf(t) = "running" THEN Left(task[t].lease) ELSE 0
AttemptsOf(t) == IF Inserted(t) THEN Smaller(task[t].attempts, AttemptLimit) ELSE 0

Lifecycle(t) == INSTANCE TaskLifecycle WITH
    status <- StatusOf(t), wait <- WaitOf(t), lease <- LeaseOf(t),
    owner <- OwnerOf(t), attempts <- AttemptsOf(t),
    MaxAttempts <- AttemptLimit, Period <- Interval,
    Backoff <- RetryMax, Cooldown <- MaxCooldown

\* Whichever actors move, what any one row of the table undergoes is a
\* behaviour of the abstract lifecycle: claims only when the wait is over or the
\* lease is out, write backs only by the owner, no attempt beyond the limit.
\* (The same as \A t \in 1..MaxTasks : Lifecycle(t)!Lifecycle, which TLC
\* cannot evaluate in this form.)
ImplementsLifecycle ==
    /\ \A t \in 1..MaxTasks : Lifecycle(t)!Init
    /\ [][\A t \in 1..MaxTasks :
            Lifecycle(t)!Next \/ UNCHANGED Lifecycle(t)!vars]_vars
=============================================================================
