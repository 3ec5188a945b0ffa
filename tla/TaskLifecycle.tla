---------------------------- MODULE TaskLifecycle ----------------------------
(***************************************************************************)
(* What the queue promises about ONE refresh task, whoever carries it out:  *)
(* the abstract specification that RefreshTasks implements for each of its  *)
(* rows (module RefreshTasksLifecycle).  Time is relative: "wait" counts    *)
(* down to the moment the task may be claimed, "lease" to the moment it may *)
(* be taken over, so the state space is finite without a bound on the clock *)
(* and liveness can be checked.                                             *)
(***************************************************************************)
EXTENDS Integers

CONSTANTS
    Worker, NoWorker,   \* worker processes; no live process holds the task
    MaxAttempts,        \* the row's max_attempts
    Lease,              \* lease_duration
    Period,             \* longest postponement by a restart (check interval)
    Backoff,            \* longest retry delay (retry_max_delay)
    Cooldown            \* longest cooldown of an endpoint

ASSUME LifecycleAssumption ==
    /\ MaxAttempts \in Nat \ {0} /\ Lease \in Nat \ {0}
    /\ Period \in Nat /\ Backoff \in Nat /\ Cooldown \in Nat
    /\ NoWorker \notin Worker

VARIABLES
    status,     \* absent, queued, running, or how the task ended
    wait,       \* time until a queued task may be claimed
    lease,      \* time left of a running task's lease
    owner,      \* the live worker that presents the task's token
    attempts    \* attempts spent, counted up to MaxAttempts

vars == <<status, wait, lease, owner, attempts>>

Terminal   == {"success", "info", "failed"}
Unfinished == status \in {"queued", "running"}

\* Every variable keeps its type.
TypeOK ==
    /\ status \in {"absent", "queued", "running"} \cup Terminal
    /\ wait \in Nat /\ lease \in 0..Lease
    /\ owner \in Worker \cup {NoWorker}
    /\ attempts \in 0..MaxAttempts

Init == /\ status = "absent" /\ wait = 0 /\ lease = 0
        /\ owner = NoWorker /\ attempts = 0

Insert ==
    /\ status = "absent"
    /\ status' = "queued"
    /\ UNCHANGED <<wait, lease, owner, attempts>>

\* A request by a person brings forward work that was never tried.
Expedite ==
    /\ status = "queued" /\ attempts = 0
    /\ wait' = 0
    /\ UNCHANGED <<status, lease, owner, attempts>>

LeaseOut == status = "running" /\ lease = 0

\* A restart spreads the backlog.
Postpone ==
    /\ status = "queued" \/ LeaseOut
    /\ status' = "queued" /\ wait' \in 1..Period
    /\ lease' = 0 /\ owner' = NoWorker
    /\ UNCHANGED attempts

\* Mutant: a claim does not count as an attempt.
Claim_Uncounted(w) ==
    /\ (status = "queued" /\ wait = 0) \/ LeaseOut
    /\ status' = "running" /\ owner' = w
    /\ wait' = 0 /\ lease' = Lease
    /\ UNCHANGED attempts

Claim(w) ==
    /\ (status = "queued" /\ wait = 0) \/ LeaseOut
    /\ status' = "running" /\ owner' = w
    /\ wait' = 0 /\ lease' = Lease
    /\ attempts' = IF attempts < MaxAttempts THEN attempts + 1 ELSE MaxAttempts

Owns(w) == status = "running" /\ owner = w

Renew(w) ==
    /\ Owns(w)
    /\ lease' = Lease
    /\ UNCHANGED <<status, wait, owner, attempts>>

Release == lease' = 0 /\ owner' = NoWorker

Finish(w) ==
    /\ Owns(w)
    /\ status' \in Terminal
    /\ Release /\ UNCHANGED <<wait, attempts>>

\* The delay counts from the end of the lookup, which may lie some way back.
Retry(w) ==
    /\ Owns(w) /\ attempts < MaxAttempts
    /\ status' = "queued" /\ wait' \in 0..Backoff
    /\ Release /\ UNCHANGED attempts

\* A cooldown gives the attempt back (above MaxAttempts the count is not kept).
Defer(w) ==
    /\ Owns(w)
    /\ status' = "queued" /\ wait' \in 0..Cooldown
    /\ attempts' \in {attempts - 1} \cup ({attempts} \cap {MaxAttempts})
    /\ Release

\* The process that held the task is gone; its lease is not.
Abandon ==
    /\ status = "running" /\ owner # NoWorker
    /\ owner' = NoWorker
    /\ UNCHANGED <<status, wait, lease, attempts>>

CountDown(timer) == IF timer > 0 THEN timer - 1 ELSE 0

Tick ==
    /\ wait' = CountDown(wait) /\ lease' = CountDown(lease)
    /\ UNCHANGED <<status, owner, attempts>>

Resolve(w) == Finish(w) \/ Retry(w) \/ Defer(w)

Next ==
    \/ Insert \/ Expedite \/ Postpone \/ Abandon \/ Tick
    \/ \E w \in Worker : Claim(w) \/ Renew(w) \/ Resolve(w)

Lifecycle == Init /\ [][Next]_vars

-----------------------------------------------------------------------------
(* Liveness *)

\* Time passes, idle workers poll the queue, and a lookup that is under way
\* ends and is written back (its requests have timeouts).
Fairness ==
    /\ WF_vars(Tick)
    /\ WF_vars(\E w \in Worker : Claim(w))
    /\ \A w \in Worker : WF_vars(Resolve(w))

Spec == Lifecycle /\ Fairness

\* What may happen to a task again and again without an attempt being spent
\* and concluded: cooldowns, restarts, crashes and stalls of its worker.
Disturbed ==
    \/ Postpone \/ Abandon
    \/ \E w \in Worker : Defer(w)
    \/ owner # NoWorker /\ \E w \in Worker : Claim(w)

\* Liveness of the queue (claim, heartbeat, the lease takeover and the retry
\* limit of run_once together): if these stop, every task that was queued ends,
\* although any number of its workers may have died with it and each attempt
\* may fail: leases run out, takers come, and the attempts are finite.
EventuallySettled ==
    <>[][~Disturbed]_vars => (Unfinished ~> status \in Terminal)
=============================================================================
