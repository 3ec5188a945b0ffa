---------------------------- MODULE RefreshTasks ----------------------------
(***************************************************************************)
(* The refresh-task queue of DomainsManager: the domain_refresh_task table, *)
(* the part of managed_domain that drives it, the workers that claim, look  *)
(* up and settle tasks, and the scheduler that creates them.                *)
(*                                                                         *)
(* Every action on shared state is one database transaction of the code    *)
(* (each holds the domain row lock, or a conditional UPDATE, for its whole  *)
(* read-modify-write); the registry lookup is the long step BETWEEN two     *)
(* transactions, during which a lease may expire and other actors move.     *)
(***************************************************************************)
EXTENDS Integers, Sequences, FiniteSets

CONSTANTS
    Domain,               \* managed domains (one user's rows)
    Worker,               \* worker processes
    Scheduler,            \* scheduler processes
    Caller,               \* requests for a refresh that are in progress at the same time
    Key,                  \* Idempotency-Key values in use; {}: nobody asks for a refresh
    BackfillKey,          \* the key of the backfill command
    Token,                \* lease tokens (uuid4 values)
    NoToken,              \* NULL in lease_token
    MaxAttempts,          \* TaskExecutionPolicy.max_attempts
    ScheduledMaxAttempts, \* max_attempts the scheduler's rows are given
    Lease,                \* TaskExecutionPolicy.lease_duration
    Interval,             \* successful_check_interval = check_interval
    TTL,                  \* successful_refresh_ttl
    RetryBase, RetryMax,  \* retry_base_delay, retry_max_delay
    MaxCooldown,          \* bound: longest Retry-After an endpoint answers
    SkipLocked,           \* TRUE: SKIP LOCKED may pass over rows (PostgreSQL)
    Stalls,               \* TRUE: a live worker may miss its lease renewal
    MaxTasks,             \* bound on the rows ever inserted
    MaxCrashes,           \* bound on process crashes
    Horizon               \* bound on the clock

ASSUME PolicyAssumption ==
    /\ MaxAttempts \in Nat \ {0} /\ ScheduledMaxAttempts \in Nat \ {0}
    /\ Lease \in Nat \ {0} /\ Interval \in Nat \ {0} /\ TTL \in Nat
    /\ RetryBase \in Nat \ {0} /\ RetryMax \in Nat \ {0}
    /\ MaxCooldown \in Nat \ {0}
    /\ SkipLocked \in BOOLEAN /\ Stalls \in BOOLEAN
    /\ MaxTasks \in Nat /\ MaxCrashes \in Nat /\ Horizon \in Nat
    /\ NoToken \notin Token

VARIABLES
    now,        \* the clock the processes read
    domain,     \* managed_domain rows
    task,       \* domain_refresh_task rows, in insertion order
    idem,       \* idempotency_record: [domain, key] -> task id (0: no record)
    asking,     \* local state of each request for a refresh (enqueue)
    answered,   \* history: the tasks that requests with a key were answered with
    worker,     \* local state of each worker's run loop
    scheduler,  \* local state of each scheduler's run loop
    crashes     \* crashes so far

vars == <<now, domain, task, idem, asking, answered, worker, scheduler, crashes>>

NoTime == -1
Time   == Nat

Origin    == {"manual", "scheduled", "monitor_enabled", "backfill"}
Status    == {"queued", "running", "success", "info", "failed"}
Terminal  == {"success", "info", "failed"}
ErrorCode == {"none", "rate_limited", "temporary_failure", "fatal"}
\* What a lookup can return: a snapshot, a cooldown with a known end, a
\* retryable failure, or any other failure.
Outcome   == {"none", "success", "cooldown", "temporary_failure", "fatal"}

DomainRow ==
    [state: {"absent", "live", "deleted"}, monitor: BOOLEAN,
     nextCheck: Time \cup {NoTime}, successAt: Time \cup {NoTime}]

TaskRow ==
    [domain: Domain, status: Status, origin: Origin, force: BOOLEAN,
     attempts: Nat, max: Nat, avail: Time, lease: Time \cup {NoTime},
     token: Token \cup {NoToken}, err: ErrorCode]

WorkerState ==
    [pc: {"starting", "idle", "claimed", "looking", "returned"}, task: Nat,
     token: Token \cup {NoToken}, attempt: Nat, outcome: Outcome, at: Time]

\* idempotency_record
IdempotencyRecord == [Domain \X Key -> Nat]

\* A request that found no record of its key and waits for the domain's lock.
NoRequest == [pc |-> "idle"]
AskingState ==
    {NoRequest} \cup [pc : {"asked"}, domain : Domain, key : Key, force : BOOLEAN,
                      origin : {"manual", "backfill"}]

TaskId == DOMAIN task

\* A worker process that has just been started, and one that waits for work.
Starting == [pc |-> "starting", task |-> 0, token |-> NoToken,
             attempt |-> 0, outcome |-> "none", at |-> 0]
Idle     == [Starting EXCEPT !.pc = "idle"]

-----------------------------------------------------------------------------
(* Helpers *)

Smaller(a, b) == IF a <= b THEN a ELSE b

Unfinished(row) == row.status \in {"queued", "running"}

Active(d) == {t \in TaskId : task[t].domain = d /\ Unfinished(task[t])}

\* The first point of the domain's schedule after "at": the phase of an
\* automatic check does not depend on when it was executed.
NextPhase(due, at) == due + Interval * (((at - due) \div Interval) + 1)

\* Delay before the retry that follows attempt n: base * 2^(n-1), at most
\* RetryMax (stated by membership, so that the result is plainly 1..RetryMax).
RetryDelay(n) ==
    LET delay == RetryBase * 2^(IF n > 1 THEN n - 1 ELSE 0)
    IN  IF delay \in 1..RetryMax THEN delay ELSE RetryMax

\* Mutant: the fence compares the status and forgets the token.
Holds_AnyToken(w) ==
    /\ worker[w].task \in TaskId
    /\ task[worker[w].task].status = "running"

\* The task row is running under the token this worker was given.
Holds(w) ==
    /\ worker[w].task \in TaskId
    /\ task[worker[w].task].status = "running"
    /\ task[worker[w].task].token = worker[w].token

Busy(w) == worker[w].pc \in {"claimed", "looking", "returned"}

\* uuid4(): a token no row and no process has.
Unused(k) ==
    /\ \A t \in TaskId : task[t].token # k
    /\ \A w \in Worker : worker[w].token # k

Released(row) == [row EXCEPT !.lease = NoTime, !.token = NoToken]

Request(origin, force, max) == [origin |-> origin, force |-> force, max |-> max]

NewRow(d, req) ==
    [domain |-> d, status |-> "queued", origin |-> req.origin,
     force |-> req.force, attempts |-> 0, max |-> req.max, avail |-> now,
     lease |-> NoTime, token |-> NoToken, err |-> "none"]

Untouched(row) == row.attempts = 0 /\ row.err = "none"

\* Mutant: every request of a person makes a waiting task claimable at once.
Merge_Expedites(row, req) ==
    IF row.status # "queued" THEN row
    ELSE [row EXCEPT !.force = @ \/ req.force, !.avail = Smaller(@, now)]

\* A request that meets an active task is folded into it while it is queued;
\* a running lookup has already chosen its options.
Merge(row, req) ==
    LET upgrade == req.origin # "scheduled" /\ row.origin = "scheduled"
    IN  IF row.status # "queued" THEN row
        ELSE [row EXCEPT
                !.force  = @ \/ req.force,
                !.origin = IF upgrade THEN req.origin ELSE @,
                !.avail  = IF upgrade /\ Untouched(row) THEN Smaller(@, now) ELSE @]

\* Mutant: rows are inserted without a look at the domain's active task.
AddTask_Inserts(d, req, t) ==
    /\ Len(task) < MaxTasks
    /\ t = Len(task) + 1
    /\ task' = Append(task, NewRow(d, req))

\* add(): merge into the active task of the domain or insert a row; t is the
\* id the caller gets.
AddTask(d, req, t) ==
    \/ /\ t \in Active(d)
       /\ task' = [task EXCEPT ![t] = Merge(@, req)]
    \/ /\ Active(d) = {}
       /\ Len(task) < MaxTasks
       /\ t = Len(task) + 1
       /\ task' = Append(task, NewRow(d, req))

-----------------------------------------------------------------------------
(* The user's and the administrator's operations on a domain *)

\* Creating or restoring a monitored domain, and switching monitoring on,
\* request a first refresh in the same transaction.
InitialRefresh(d) ==
    \E t \in 1..MaxTasks :
        AddTask(d, Request("monitor_enabled", FALSE, MaxAttempts), t)

CreateDomain(d, monitor) ==
    /\ domain[d].state = "absent"
    /\ domain' = [domain EXCEPT ![d].state = "live", ![d].monitor = monitor]
    /\ IF monitor THEN InitialRefresh(d) ELSE UNCHANGED task
    /\ UNCHANGED <<now, idem, asking, answered, worker, scheduler, crashes>>

RestoreDomain(d, monitor) ==
    /\ domain[d].state = "deleted"
    /\ domain' = [domain EXCEPT ![d].state = "live", ![d].monitor = monitor]
    /\ IF monitor THEN InitialRefresh(d) ELSE UNCHANGED task
    /\ UNCHANGED <<now, idem, asking, answered, worker, scheduler, crashes>>

UpdateDomain(d, monitor) ==
    /\ domain[d].state = "live" /\ domain[d].monitor # monitor
    /\ domain' = [domain EXCEPT ![d].monitor = monitor]
    /\ IF monitor THEN InitialRefresh(d) ELSE UNCHANGED task
    /\ UNCHANGED <<now, idem, asking, answered, worker, scheduler, crashes>>

\* The administrator's PATCH writes the column and nothing else, on deleted
\* rows too.
UpdateDomainAsAdmin(d, monitor) ==
    /\ domain[d].state # "absent" /\ domain[d].monitor # monitor
    /\ domain' = [domain EXCEPT ![d].monitor = monitor]
    /\ UNCHANGED <<now, task, idem, asking, answered, worker, scheduler, crashes>>

\* Soft delete: the domain's tasks are left as they are.
DeleteDomain(d) ==
    /\ domain[d].state = "live"
    /\ domain' = [domain EXCEPT ![d].state = "deleted"]
    /\ UNCHANGED <<now, task, idem, asking, answered, worker, scheduler, crashes>>

\* The task an idempotency key was answered with; 0: the key has no record.
GetIdempotent(d, key) == idem[<<d, key>>]

\* _add_idempotency: a record is never replaced.
AddIdempotency(d, key, t) == idem' = [idem EXCEPT ![<<d, key>>] = IF @ = 0 THEN t ELSE @]

Answer(d, key, t) == answered' = [answered EXCEPT ![<<d, key>>] = @ \cup {t}]

\* enqueue looks for the key without a lock: a record answers the request (or
\* refuses it, if it was made for another one; that changes nothing).
Enqueue(c, d, key, force, origin) ==
    /\ asking[c] = NoRequest
    /\ domain[d].state = "live"
    /\ \/ /\ GetIdempotent(d, key) # 0
          /\ Answer(d, key, GetIdempotent(d, key))
          /\ UNCHANGED asking
       \/ /\ GetIdempotent(d, key) = 0
          /\ asking' = [asking EXCEPT ![c] =
               [pc |-> "asked", domain |-> d, key |-> key, force |-> force,
                origin |-> origin]]
          /\ UNCHANGED answered
    /\ UNCHANGED <<now, domain, task, idem, worker, scheduler, crashes>>

\* Mutant: the key is not looked up again under the lock.
Replays_Never(c) == FALSE

\* add: under the lock of the domain the key is looked up again.
Replays(c) == GetIdempotent(asking[c].domain, asking[c].key) # 0

\* The second transaction step of enqueue: add, then the commit.
AddRequest(c) ==
    LET d == asking[c].domain
        key == asking[c].key
    IN  /\ asking[c].pc = "asked"
        /\ IF Replays(c)
           THEN /\ Answer(d, key, GetIdempotent(d, key))
                /\ UNCHANGED <<task, idem>>
           ELSE \E t \in 1..MaxTasks :
                /\ AddTask(d, Request(asking[c].origin, asking[c].force, MaxAttempts), t)
                /\ AddIdempotency(d, key, t)
                /\ Answer(d, key, t)
        /\ asking' = [asking EXCEPT ![c] = NoRequest]
        /\ UNCHANGED <<now, domain, worker, scheduler, crashes>>

\* The request is cut off, or its process dies, before it commits.
AbandonRequest(c) ==
    /\ asking[c].pc = "asked"
    /\ asking' = [asking EXCEPT ![c] = NoRequest]
    /\ UNCHANGED <<now, domain, task, idem, answered, worker, scheduler, crashes>>

\* POST /domains/{id}/refresh
RefreshDomain(c, d, key, force) == Enqueue(c, d, key, force, "manual")

\* An administrator's refresh is forced, on behalf of the owner.
RefreshDomainAsAdmin(c, d, key) == Enqueue(c, d, key, TRUE, "manual")

\* The domains whose expiration status is unknown (as it may stay after a check).
BackfillCandidates == {d \in Domain : domain[d].state = "live"}

\* The backfill command: one transaction per candidate, under a fixed key.
Backfill(c, d) ==
    /\ d \in BackfillCandidates /\ BackfillKey \in Key
    /\ Enqueue(c, d, BackfillKey, TRUE, "backfill")

-----------------------------------------------------------------------------
(* The scheduler *)

\* claim_due and add in one transaction (a batch of one domain): the domain
\* leaves the set of due domains as its task is created.
ScheduleDue(s, d) ==
    /\ scheduler[s] = "running"
    /\ domain[d].state = "live" /\ domain[d].monitor
    /\ domain[d].nextCheck # NoTime /\ domain[d].nextCheck <= now
    /\ Active(d) = {}
    /\ domain' = [domain EXCEPT ![d].nextCheck = NextPhase(@, now)]
    /\ \E t \in 1..MaxTasks :
        AddTask(d, Request("scheduled", FALSE, ScheduledMaxAttempts), t)
    /\ UNCHANGED <<now, idem, asking, answered, worker, scheduler, crashes>>

Expired(row) == row.status = "running" /\ row.lease <= now

\* The domains a restart finds late: due themselves, or with an automatic task
\* that could be claimed now.
Overdue == {d \in Domain :
    /\ domain[d].state = "live" /\ domain[d].monitor
    /\ \/ domain[d].nextCheck # NoTime /\ domain[d].nextCheck <= now
       \/ \E t \in TaskId :
            /\ task[t].domain = d /\ task[t].origin = "scheduled"
            /\ \/ task[t].status = "queued" /\ task[t].avail <= now
               \/ Expired(task[t])}

\* Any queued automatic task of a spread domain moves with it, as does one
\* whose lease has run out.
Spread(row, at) ==
    IF row.origin = "scheduled" /\ (row.status = "queued" \/ Expired(row))
    THEN [Released(row) EXCEPT !.status = "queued", !.avail = at]
    ELSE row

SpreadOverdue ==
    \E late \in IF SkipLocked THEN SUBSET Overdue ELSE {Overdue} :
    \E offset \in [late -> 1..Interval] :
        /\ domain' = [d \in Domain |->
                        IF d \in late
                        THEN [domain[d] EXCEPT !.nextCheck = now + offset[d]]
                        ELSE domain[d]]
        /\ task' = [t \in TaskId |->
                        IF task[t].domain \in late
                        THEN Spread(task[t], now + offset[task[t].domain])
                        ELSE task[t]]

StartScheduler(s) ==
    /\ scheduler[s] = "starting"
    /\ SpreadOverdue
    /\ scheduler' = [scheduler EXCEPT ![s] = "running"]
    /\ UNCHANGED <<now, idem, asking, answered, worker, crashes>>

CrashScheduler(s) ==
    /\ scheduler[s] = "running" /\ crashes < MaxCrashes
    /\ scheduler' = [scheduler EXCEPT ![s] = "starting"]
    /\ crashes' = crashes + 1
    /\ UNCHANGED <<now, domain, task, idem, asking, answered, worker>>

-----------------------------------------------------------------------------
(* A worker's run loop *)

StartWorker(w) ==
    /\ worker[w].pc = "starting"
    /\ SpreadOverdue
    /\ worker' = [worker EXCEPT ![w] = Idle]
    /\ UNCHANGED <<now, idem, asking, answered, scheduler, crashes>>

\* Mutant: a running task is up for grabs before its lease is out.
Claimable_IgnoresLease(row) ==
    \/ row.status = "running"
    \/ row.status = "queued" /\ row.avail <= now

Claimable(row) ==
    \/ row.status = "queued" /\ row.avail <= now
    \/ Expired(row)

Claim(w) ==
    /\ worker[w].pc = "idle"
    /\ \E t \in TaskId, k \in Token :
        /\ Claimable(task[t])
        /\ SkipLocked \/ \A u \in 1..(t - 1) : ~Claimable(task[u])
        /\ Unused(k)
        /\ task' = [task EXCEPT ![t].status = "running", ![t].token = k,
                                ![t].lease = now + Lease, ![t].attempts = @ + 1]
        /\ worker' = [worker EXCEPT ![w].pc = "claimed", ![w].task = t,
                                    ![w].token = k,
                                    ![w].attempt = task[t].attempts + 1]
    /\ UNCHANGED <<now, domain, idem, asking, answered, scheduler, crashes>>

Fresh(d) == domain[d].successAt # NoTime /\ domain[d].successAt >= now - TTL

\* Mutant: the schedule restarts at the time of the check.
Advance_Restarts(row, at) == at + Interval

Advance(row, at) == IF row.nextCheck # NoTime /\ row.nextCheck <= at
                    THEN NextPhase(row.nextCheck, at)
                    ELSE row.nextCheck

\* complete_if_fresh: a recent success answers the task, forced or not.
CompleteIfFresh(w) ==
    LET t == worker[w].task
        d == task[t].domain
    IN  /\ worker[w].pc = "claimed" /\ Holds(w) /\ Fresh(d)
        /\ task' = [task EXCEPT ![t] = [Released(@) EXCEPT !.status = "info", !.err = "none"]]
        /\ domain' = IF task[t].origin = "scheduled"
                     THEN [domain EXCEPT ![d].nextCheck = Advance(domain[d], now)]
                     ELSE domain
        /\ worker' = [worker EXCEPT ![w] = Idle]
        /\ UNCHANGED <<now, idem, asking, answered, scheduler, crashes>>

\* A worker whose task was taken over looks up all the same.
StartLookup(w) ==
    /\ worker[w].pc = "claimed"
    /\ ~(Holds(w) /\ Fresh(task[worker[w].task].domain))
    /\ worker' = [worker EXCEPT ![w].pc = "looking"]
    /\ UNCHANGED <<now, domain, task, idem, asking, answered, scheduler, crashes>>

\* _maintain_lease renews while the lookup runs; a refused renewal ends it and
\* can never be followed by a granted one, so it is not a step here.
Heartbeat(w) ==
    /\ worker[w].pc = "looking" /\ Holds(w)
    /\ task' = [task EXCEPT ![worker[w].task].lease = now + Lease]
    /\ UNCHANGED <<now, domain, idem, asking, answered, worker, scheduler, crashes>>

\* The lookup is over, renewal has stopped and the completion time is read.
LookupReturns(w, outcome) ==
    /\ worker[w].pc = "looking"
    /\ worker' = [worker EXCEPT ![w].pc = "returned", ![w].outcome = outcome, ![w].at = now]
    /\ UNCHANGED <<now, domain, task, idem, asking, answered, scheduler, crashes>>

\* Mutant: a write back that trusts the worker's memory of its claim.
Settle_Unfenced(w, row) ==
    /\ worker[w].pc = "returned"
    /\ task' = [task EXCEPT ![worker[w].task] = row]
    /\ worker' = [worker EXCEPT ![w] = Idle]
    /\ UNCHANGED <<now, idem, asking, answered, scheduler, crashes>>

Settle(w, row) ==
    /\ worker[w].pc = "returned" /\ Holds(w)
    /\ task' = [task EXCEPT ![worker[w].task] = row]
    /\ worker' = [worker EXCEPT ![w] = Idle]
    /\ UNCHANGED <<now, idem, asking, answered, scheduler, crashes>>

\* An automatic check keeps the phase of the schedule; any other success
\* restarts it at the completion time.
CompleteSuccess(w) ==
    LET row == task[worker[w].task]
        at  == worker[w].at
    IN  /\ worker[w].outcome = "success"
        /\ Settle(w, [Released(row) EXCEPT !.status = "success", !.err = "none"])
        /\ domain' = [domain EXCEPT ![row.domain] =
                [@ EXCEPT !.successAt = at,
                          !.nextCheck =
                              IF row.origin = "scheduled"
                                 /\ domain[row.domain].nextCheck # NoTime
                              THEN Advance(domain[row.domain], at)
                              ELSE at + Interval]]

\* An endpoint's cooldown puts the task back without spending the attempt.
DeferRateLimited(w) ==
    LET row == task[worker[w].task]
    IN  /\ worker[w].outcome = "cooldown"
        /\ \E delay \in 1..MaxCooldown :
            Settle(w, [Released(row) EXCEPT
                !.status = "queued", !.err = "rate_limited",
                !.attempts = IF @ > 0 THEN @ - 1 ELSE 0,
                !.avail = worker[w].at + delay])
        /\ UNCHANGED domain

\* Mutant: a temporary failure is retried for ever.
Retries_Always(w) == worker[w].outcome = "temporary_failure"

Retries(w) == /\ worker[w].outcome = "temporary_failure"
              /\ worker[w].attempt < task[worker[w].task].max

\* A failed lookup is retried after a backoff or ends the task; the domain
\* keeps its last successful data and its schedule.
CompleteFailure(w) ==
    LET row    == task[worker[w].task]
        failed == [Released(row) EXCEPT !.status = "failed", !.err = worker[w].outcome]
    IN  /\ worker[w].outcome \in {"temporary_failure", "fatal"}
        /\ Settle(w, IF Retries(w)
                     THEN [failed EXCEPT !.status = "queued",
                            !.avail = worker[w].at + RetryDelay(worker[w].attempt)]
                     ELSE failed)
        /\ UNCHANGED domain

\* _locked_task found no row: another process took the task over, and the
\* result is dropped.
DropResult(w) ==
    /\ worker[w].pc = "returned" /\ ~Holds(w)
    /\ worker' = [worker EXCEPT ![w] = Idle]
    /\ UNCHANGED <<now, domain, task, idem, asking, answered, scheduler, crashes>>

\* The process ends at any point and is started again; its lease stays behind.
CrashWorker(w) ==
    /\ worker[w].pc # "starting" /\ crashes < MaxCrashes
    /\ worker' = [worker EXCEPT ![w] = Starting]
    /\ crashes' = crashes + 1
    /\ UNCHANGED <<now, domain, task, idem, asking, answered, scheduler>>

\* Without stalls a live worker renews, or settles, before its lease is out.
Tick ==
    /\ now < Horizon
    /\ Stalls \/ \A w \in Worker :
        Busy(w) /\ Holds(w) => task[worker[w].task].lease > now + 1
    /\ now' = now + 1
    /\ UNCHANGED <<domain, task, idem, asking, answered, worker, scheduler, crashes>>

-----------------------------------------------------------------------------

Init ==
    /\ now = 0
    /\ domain = [d \in Domain |-> [state |-> "absent", monitor |-> FALSE,
                                   nextCheck |-> NoTime, successAt |-> NoTime]]
    /\ task = << >>
    /\ idem = [r \in Domain \X Key |-> 0]
    /\ asking = [c \in Caller |-> NoRequest]
    /\ answered = [r \in Domain \X Key |-> {}]
    /\ worker = [w \in Worker |-> Starting]
    /\ scheduler = [s \in Scheduler |-> "starting"]
    /\ crashes = 0

UserStep ==
    \E d \in Domain :
        \/ \E monitor \in BOOLEAN :
            \/ CreateDomain(d, monitor)
            \/ RestoreDomain(d, monitor)
            \/ UpdateDomain(d, monitor)
            \/ UpdateDomainAsAdmin(d, monitor)
        \/ DeleteDomain(d)

CallerStep(c) ==
    \/ \E d \in Domain :
        \/ \E key \in Key :
            \/ \E force \in BOOLEAN : RefreshDomain(c, d, key, force)
            \/ RefreshDomainAsAdmin(c, d, key)
        \/ Backfill(c, d)
    \/ AddRequest(c) \/ AbandonRequest(c)

SchedulerStep(s) ==
    \/ StartScheduler(s)
    \/ \E d \in Domain : ScheduleDue(s, d)

WorkerStep(w) ==
    \/ StartWorker(w)
    \/ Claim(w)
    \/ CompleteIfFresh(w)
    \/ StartLookup(w)
    \/ \E outcome \in Outcome \ {"none"} : LookupReturns(w, outcome)
    \/ CompleteSuccess(w)
    \/ DeferRateLimited(w)
    \/ CompleteFailure(w)
    \/ DropResult(w)

Next ==
    \/ UserStep
    \/ \E c \in Caller : CallerStep(c)
    \/ \E s \in Scheduler : SchedulerStep(s) \/ CrashScheduler(s)
    \/ \E w \in Worker : WorkerStep(w) \/ Heartbeat(w) \/ CrashWorker(w)
    \/ Tick

Spec == Init /\ [][Next]_vars

-----------------------------------------------------------------------------
(* Properties *)

\* Every variable keeps its type.
TypeOK ==
    /\ now \in Time
    /\ domain \in [Domain -> DomainRow]
    /\ task \in Seq(TaskRow)
    /\ idem \in IdempotencyRecord
    /\ asking \in [Caller -> AskingState]
    /\ answered \in [Domain \X Key -> SUBSET Nat]
    /\ worker \in [Worker -> WorkerState]
    /\ scheduler \in [Scheduler -> {"starting", "running"}]
    /\ crashes \in Nat

\* A domain never has two unfinished tasks, although a task may be handed from
\* worker to worker, be requeued by a failure, a cooldown or a restart, and be
\* settled by a worker that lost it (the partial unique index of the table).
OneActiveTask ==
    \A t, u \in TaskId :
        t # u /\ Unfinished(task[t]) /\ Unfinished(task[u])
        => task[t].domain # task[u].domain

\* A task is running exactly while it is leased under a token, and no token
\* leases two tasks: the fence of every write back (_locked_task).
Leased(row) == /\ row.status = "running" <=> row.token # NoToken
               /\ row.status = "running" <=> row.lease # NoTime

LeaseFencesTask ==
    /\ \A t \in TaskId : Leased(task[t])
    /\ \A t, u \in TaskId : t # u /\ task[t].token = task[u].token
                            => task[t].token = NoToken

\* At most one worker can still write the result of a task, however many are
\* looking it up.
OneWriter ==
    \A v, w \in Worker : Busy(v) /\ Busy(w) /\ Holds(v) /\ Holds(w) /\ v # w
        => worker[v].task # worker[w].task

\* No two processes ever present the same token, although a process may keep
\* one long after its task went to another.
OneProcessPerToken ==
    \A v, w \in Worker : v # w /\ worker[v].token = worker[w].token
        => worker[v].token = NoToken

\* The inductive invariant: the three facts above carry each other.
IInv == TypeOK /\ OneActiveTask /\ LeaseFencesTask /\ OneProcessPerToken

\* A running task is only taken from the worker that holds it after its lease
\* has run out: every other way out of "running" is that worker's own write.
OnlyOwnerSettles ==
    [][\A t \in TaskId :
        task[t].status = "running" /\ task'[t].token # task[t].token
        => \/ task[t].lease <= now
           \/ \E w \in Worker : /\ Holds(w) /\ worker[w].task = t
                                /\ worker'[w].pc = "idle"]_vars

\* A finished task stays as it was finished: no retry, late result, merge or
\* restart reopens or rewrites it.
TerminalIsFinal ==
    [][\A t \in TaskId : task[t].status \in Terminal => task'[t] = task[t]]_vars

\* The time of the last success never goes back, although completion times are
\* read before the transaction that stores them and workers overtake each other.
SuccessNeverRegresses ==
    [][\A d \in Domain : domain'[d].successAt >= domain[d].successAt]_vars

\* A domain's retry state only moves forward by requests: a request folded
\* into a task that waits for a retry or a cooldown never brings it forward
\* (a restart of the scheduler or a worker may, by spreading the backlog).
RequestsKeepCooldown ==
    [][\A t \in TaskId :
        /\ task[t].status = "queued" /\ task[t].err # "none"
        /\ domain'[task[t].domain].nextCheck = domain[task[t].domain].nextCheck
        /\ task'[t].status = "queued"
        => task'[t].avail >= task[t].avail]_vars

\* An automatic check that succeeds, or is answered from a recent success,
\* leaves the domain on the phase it had, however late it ran, and due after
\* the check: after the time the lookup ended, which may be over when the result
\* is stored, or after the time of the answer.
AutomaticChecksKeepPhase ==
    [][\A t \in TaskId :
        LET before == domain[task[t].domain].nextCheck
            after  == domain'[task[t].domain].nextCheck
        IN  /\ task[t].status = "running" /\ task[t].origin = "scheduled"
            /\ task'[t].status \in {"success", "info"}
            /\ before # NoTime
            => /\ (after - before) % Interval = 0
               /\ after > IF task'[t].status = "info" THEN now
                           ELSE domain'[task[t].domain].successAt]_vars

\* However many requests with one idempotency key are in progress at once or
\* follow each other, also after the task of the first has ended, all are
\* answered with one and the same task of their domain: the key is looked for
\* before the domain is locked, and the task that another request created
\* meanwhile may be over by then (enqueue, SqlAlchemyTaskRepository.add).
KeyNamesOneTask ==
    \A r \in DOMAIN answered : \A t, u \in answered[r] :
        t = u /\ task[t].domain = r[1]

\* With timely renewal, a task is looked up by one worker at a time.
OneExecutor ==
    \A v, w \in Worker :
        v # w /\ Busy(v) /\ Busy(w) => worker[v].task # worker[w].task

\* A monitored domain whose first refresh failed for good is looked up again:
\* it is due at some time, or has another task.
FailedFirstCheckIsRepeated ==
    \A t \in TaskId :
        LET d == task[t].domain
        IN  /\ task[t].status = "failed" /\ task[t].origin = "monitor_enabled"
            /\ domain[d].state = "live" /\ domain[d].monitor
            => domain[d].nextCheck # NoTime \/ Active(d) # {}

=============================================================================
