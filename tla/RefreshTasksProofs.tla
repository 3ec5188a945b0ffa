------------------------- MODULE RefreshTasksProofs -------------------------
(* Theorems about RefreshTasks, for every set of domains, workers and tokens *)
(* and every policy, with no bound on the clock, the rows or the crashes.    *)
EXTENDS RefreshTasksLifecycle, TLAPS

-----------------------------------------------------------------------------
(* The operators the actions are built from *)

\* The schedule's next point is a whole number of intervals after the old one
\* and lies after the time it is computed for (claim_due, complete_success).
LEMMA NextPhaseAdvances ==
    ASSUME NEW due \in Time, NEW at \in Time, due <= at
    PROVE  /\ NextPhase(due, at) \in Time
           /\ NextPhase(due, at) > at
           /\ (NextPhase(due, at) - due) % Interval = 0
<1> DEFINE q == (at - due) \div Interval
<1>1. q \in Nat /\ at - due < Interval * (q + 1)
  BY PolicyAssumption DEF Time
<1>2. Interval * (q + 1) \in Nat
  BY <1>1, PolicyAssumption
<1>3. NextPhase(due, at) = due + Interval * (q + 1)
  BY DEF NextPhase
<1>4. (Interval * (q + 1)) % Interval = 0
  BY <1>1, PolicyAssumption
<1>5. (due + Interval * (q + 1)) - due = Interval * (q + 1)
  BY <1>2 DEF Time
<1> QED
  BY <1>1, <1>2, <1>3, <1>4, <1>5 DEF Time

\* A retry is never immediate and never later than the policy's maximum.
LEMMA RetryDelayBounded ==
    ASSUME NEW n \in Nat
    PROVE  RetryDelay(n) \in 1..RetryMax
BY PolicyAssumption DEF RetryDelay

\* Releasing, merging and spreading a row keep its type and its domain.
LEMMA ReleasedType ==
    ASSUME NEW row \in TaskRow
    PROVE  /\ Released(row) \in TaskRow
           /\ Released(row).domain = row.domain
           /\ Released(row).lease = NoTime /\ Released(row).token = NoToken
BY DEF Released, TaskRow

LEMMA AdvanceType ==
    ASSUME NEW row \in DomainRow, NEW at \in Time
    PROVE  Advance(row, at) \in Time \cup {NoTime}
<1>1. CASE row.nextCheck # NoTime /\ row.nextCheck <= at
  BY <1>1, NextPhaseAdvances DEF Advance, DomainRow
<1> QED
  BY <1>1 DEF Advance, DomainRow

LEMMA MergeType ==
    ASSUME NEW row \in TaskRow, NEW origin \in Origin, NEW force \in BOOLEAN,
           NEW max \in Nat, now \in Time
    PROVE  LET merged == Merge(row, Request(origin, force, max))
           IN  /\ merged \in TaskRow
               /\ merged.domain = row.domain /\ merged.status = row.status
               /\ merged.token = row.token /\ merged.lease = row.lease
BY DEF Merge, Request, TaskRow, Smaller, Untouched, Time

LEMMA SpreadType ==
    ASSUME NEW row \in TaskRow, NEW at \in Time
    PROVE  /\ Spread(row, at) \in TaskRow
           /\ Spread(row, at).domain = row.domain
           /\ Unfinished(Spread(row, at)) => Unfinished(row)
           /\ Leased(row) => Leased(Spread(row, at))
           /\ Spread(row, at).token \in {row.token, NoToken}
BY DEF Spread, Released, Expired, TaskRow, Unfinished, Leased, Status, Origin, Time, NoTime

-----------------------------------------------------------------------------
(* How the table may change *)

\* Rewriting rows without unfinishing a finished one, changing a domain, or
\* passing a token on, keeps the table's invariants.
LEMMA RowsKeepInvariants ==
    ASSUME OneActiveTask, LeaseFencesTask, TaskId' = TaskId,
           \A t \in TaskId :
              /\ task'[t].domain = task[t].domain
              /\ Unfinished(task'[t]) => Unfinished(task[t])
              /\ Leased(task'[t])
              /\ task'[t].token \in {task[t].token, NoToken}
    PROVE  OneActiveTask' /\ LeaseFencesTask'
<1>1. OneActiveTask'
  BY DEF OneActiveTask, Unfinished
<1>2. LeaseFencesTask'
  BY DEF LeaseFencesTask, Leased
<1> QED
  BY <1>1, <1>2

\* add() keeps them: it inserts a queued row only beside finished ones.
LEMMA AddTaskKeepsInvariants ==
    ASSUME TypeOK, OneActiveTask, LeaseFencesTask, NEW d \in Domain,
           NEW origin \in Origin, NEW force \in BOOLEAN, NEW max \in Nat,
           NEW t \in Nat, AddTask(d, Request(origin, force, max), t)
    PROVE  task' \in Seq(TaskRow) /\ OneActiveTask' /\ LeaseFencesTask'
<1> DEFINE req == Request(origin, force, max)
<1>1. CASE t \in Active(d) /\ task' = [task EXCEPT ![t] = Merge(@, req)]
  <2>1. t \in TaskId /\ task[t] \in TaskRow
    BY <1>1 DEF Active, TypeOK, TaskId
  <2>2. LET row == Merge(task[t], req)
        IN  /\ row \in TaskRow
            /\ row.domain = task[t].domain /\ row.status = task[t].status
            /\ row.token = task[t].token /\ row.lease = task[t].lease
    BY <2>1, MergeType DEF TypeOK
  <2>3. task' \in Seq(TaskRow) /\ TaskId' = TaskId
    BY <1>1, <2>1, <2>2 DEF TypeOK, TaskId
  <2>4. /\ task'[t] = Merge(task[t], req)
        /\ \A u \in TaskId : u # t => task'[u] = task[u]
    BY <1>1, <2>1 DEF TypeOK, TaskId
  <2>5. \A u \in TaskId :
          /\ task'[u].domain = task[u].domain
          /\ task'[u].status = task[u].status
          /\ task'[u].token = task[u].token /\ task'[u].lease = task[u].lease
    BY <2>2, <2>4
  <2>6. OneActiveTask' /\ LeaseFencesTask'
    BY <2>3, <2>5, RowsKeepInvariants DEF Unfinished, Leased, LeaseFencesTask
  <2> QED
    BY <2>3, <2>6
<1>2. CASE Active(d) = {} /\ task' = Append(task, NewRow(d, req))
  <2>1. NewRow(d, req) \in TaskRow
    BY DEF NewRow, Request, TaskRow, TypeOK, Status, ErrorCode, Time
  <2>2. /\ task' \in Seq(TaskRow) /\ Len(task) \in Nat
        /\ TaskId = 1..Len(task) /\ TaskId' = 1..(Len(task) + 1)
        /\ \A u \in TaskId : task'[u] = task[u]
        /\ task'[Len(task) + 1] = NewRow(d, req)
    BY <1>2, <2>1 DEF TypeOK, TaskId
  <2>3. \A u \in TaskId : Unfinished(task[u]) => task[u].domain # d
    BY <1>2 DEF Active
  <2>4. OneActiveTask'
    <3>1. NewRow(d, req).domain = d
      BY DEF NewRow
    <3>2. SUFFICES ASSUME NEW u \in TaskId', NEW v \in TaskId', u # v,
                          Unfinished(task'[u]), Unfinished(task'[v])
                   PROVE  task'[u].domain # task'[v].domain
      BY DEF OneActiveTask, Unfinished
    <3>3. CASE u \in TaskId /\ v \in TaskId
      BY <2>2, <3>2, <3>3 DEF OneActiveTask
    <3>4. CASE u \notin TaskId /\ v \in TaskId
      BY <2>2, <2>3, <3>1, <3>2, <3>4
    <3>5. CASE u \in TaskId /\ v \notin TaskId
      BY <2>2, <2>3, <3>1, <3>2, <3>5
    <3> QED
      BY <2>2, <3>2, <3>3, <3>4, <3>5
  <2>5. LeaseFencesTask'
    <3>1. /\ Leased(NewRow(d, req)) /\ NewRow(d, req).token = NoToken
      BY DEF Leased, NewRow, NoTime
    <3>2. \A u \in TaskId' : Leased(task'[u])
      BY <2>2, <3>1 DEF LeaseFencesTask
    <3>3. \A u, v \in TaskId' : u # v /\ task'[u].token = task'[v].token
                               => task'[u].token = NoToken
      BY <2>2, <3>1 DEF LeaseFencesTask
    <3>4. (\A u \in TaskId : Leased(task[u]))'
      BY <3>2
    <3> QED
      BY <3>3, <3>4 DEF LeaseFencesTask
  <2> QED
    BY <2>2, <2>4, <2>5
<1> QED
  BY <1>1, <1>2 DEF AddTask

\* A restart's spreading of the backlog keeps them.
LEMMA SpreadKeepsInvariants ==
    ASSUME TypeOK, OneActiveTask, LeaseFencesTask, SpreadOverdue
    PROVE  /\ task' \in Seq(TaskRow) /\ domain' \in [Domain -> DomainRow]
           /\ OneActiveTask' /\ LeaseFencesTask'
<1>0. PICK late \in SUBSET Overdue : \E offset \in [late -> 1..Interval] :
        /\ domain' = [d \in Domain |->
                        IF d \in late
                        THEN [domain[d] EXCEPT !.nextCheck = now + offset[d]]
                        ELSE domain[d]]
        /\ task' = [t \in TaskId |->
                        IF task[t].domain \in late
                        THEN Spread(task[t], now + offset[task[t].domain])
                        ELSE task[t]]
  BY DEF SpreadOverdue
<1>1. PICK offset \in [late -> 1..Interval] :
        /\ domain' = [d \in Domain |->
                        IF d \in late
                        THEN [domain[d] EXCEPT !.nextCheck = now + offset[d]]
                        ELSE domain[d]]
        /\ task' = [t \in TaskId |->
                        IF task[t].domain \in late
                        THEN Spread(task[t], now + offset[task[t].domain])
                        ELSE task[t]]
  BY <1>0
<1>2. \A d \in late : now + offset[d] \in Time
  BY <1>1, PolicyAssumption DEF TypeOK, Time
<1>3. domain' \in [Domain -> DomainRow]
  BY <1>1, <1>2 DEF TypeOK, DomainRow
<1>4. \A t \in TaskId : task[t] \in TaskRow
  BY DEF TypeOK, TaskId
<1>5. \A t \in TaskId :
        /\ task'[t] \in TaskRow
        /\ task'[t].domain = task[t].domain
        /\ Unfinished(task'[t]) => Unfinished(task[t])
        /\ Leased(task'[t])
        /\ task'[t].token \in {task[t].token, NoToken}
  <2> TAKE t \in TaskId
  <2>1. CASE task[t].domain \in late
    BY <1>1, <1>2, <1>4, <2>1, SpreadType DEF LeaseFencesTask
  <2>2. CASE task[t].domain \notin late
    BY <1>1, <1>4, <2>2 DEF LeaseFencesTask
  <2> QED
    BY <2>1, <2>2
<1>6. task' \in Seq(TaskRow) /\ TaskId' = TaskId
  BY <1>1, <1>5 DEF TypeOK, TaskId
<1>7. OneActiveTask' /\ LeaseFencesTask'
  BY <1>5, <1>6, RowsKeepInvariants
<1> QED
  BY <1>3, <1>6, <1>7

\* Rewriting one row keeps them, when its token is nobody else's.
LEMMA RowKeepsInvariants ==
    ASSUME TypeOK, OneActiveTask, LeaseFencesTask,
           NEW t \in TaskId, NEW row \in TaskRow,
           row.domain = task[t].domain, Unfinished(row) => Unfinished(task[t]),
           Leased(row),
           row.token = NoToken \/ \A u \in TaskId \ {t} : task[u].token # row.token,
           task' = [task EXCEPT ![t] = row]
    PROVE  /\ task' \in Seq(TaskRow) /\ TaskId' = TaskId
           /\ task'[t] = row /\ \A u \in TaskId \ {t} : task'[u] = task[u]
           /\ OneActiveTask' /\ LeaseFencesTask'
<1>1. /\ task' \in Seq(TaskRow) /\ TaskId' = TaskId
      /\ task'[t] = row /\ \A u \in TaskId \ {t} : task'[u] = task[u]
  BY DEF TypeOK, TaskId
<1>2. OneActiveTask'
  BY <1>1 DEF OneActiveTask, Unfinished
<1>3. \A u \in TaskId' : Leased(task'[u])
  BY <1>1 DEF LeaseFencesTask
<1>4. \A u, v \in TaskId' : u # v /\ task'[u].token = task'[v].token
                           => task'[u].token = NoToken
  BY <1>1 DEF LeaseFencesTask
<1> QED
  BY <1>1, <1>2, <1>3, <1>4 DEF LeaseFencesTask, Leased

\* A row that leaves its worker is fit for the table.
LEMMA ReleasedRow ==
    ASSUME TypeOK, LeaseFencesTask, NEW t \in TaskId, task[t].status = "running",
           NEW row \in TaskRow, NEW status \in Status \ {"running"},
           row.domain = task[t].domain, row.status = status,
           row.lease = NoTime, row.token = NoToken
    PROVE  /\ Unfinished(row) => Unfinished(task[t])
           /\ Leased(row)
BY DEF Leased, Unfinished, NoTime

\* A worker that keeps its token or lets go of it shares none.
LEMMA WorkerKeepsTokens ==
    ASSUME TypeOK, OneProcessPerToken, NEW w \in Worker, NEW local \in WorkerState,
           local.token \in {worker[w].token, NoToken},
           worker' = [worker EXCEPT ![w] = local]
    PROVE  worker' \in [Worker -> WorkerState] /\ OneProcessPerToken'
<1>1. /\ worker' \in [Worker -> WorkerState] /\ worker'[w] = local
      /\ \A v \in Worker \ {w} : worker'[v] = worker[v]
  BY DEF TypeOK
<1> QED
  BY <1>1 DEF OneProcessPerToken

LEMMA IdleType == Starting \in WorkerState /\ Idle \in WorkerState
                  /\ Starting.token = NoToken /\ Idle.token = NoToken
BY DEF Starting, Idle, WorkerState, Outcome, Time

-----------------------------------------------------------------------------
(* The steps *)

\* A write back that ends or requeues the task keeps the invariant's part on
\* tasks and workers.
LEMMA SettleKeepsInvariants ==
    ASSUME IInv, NEW w \in Worker, NEW row \in TaskRow, Holds(w),
           row.domain = task[worker[w].task].domain,
           row.status \in Status \ {"running"},
           row.lease = NoTime, row.token = NoToken,
           task' = [task EXCEPT ![worker[w].task] = row],
           worker' = [worker EXCEPT ![w] = Idle]
    PROVE  /\ task' \in Seq(TaskRow) /\ OneActiveTask' /\ LeaseFencesTask'
           /\ worker' \in [Worker -> WorkerState] /\ OneProcessPerToken'
<1> DEFINE t == worker[w].task
<1>1. t \in TaskId /\ task[t].status = "running"
  BY DEF Holds
<1>2. (Unfinished(row) => Unfinished(task[t])) /\ Leased(row)
  BY <1>1, ReleasedRow DEF IInv
<1>3. task' \in Seq(TaskRow) /\ OneActiveTask' /\ LeaseFencesTask'
  BY <1>1, <1>2, RowKeepsInvariants DEF IInv
<1>4. worker' \in [Worker -> WorkerState] /\ OneProcessPerToken'
  BY IdleType, WorkerKeepsTokens DEF IInv
<1> QED
  BY <1>3, <1>4

\* The user's requests go through add(), or write no task.
LEMMA UserStepKeepsIInv ==
    ASSUME IInv, UserStep
    PROVE  IInv'
<1> USE DEF IInv
<1>1. PICK d \in Domain :
        \/ \E monitor \in BOOLEAN :
            \/ CreateDomain(d, monitor)
            \/ RestoreDomain(d, monitor)
            \/ UpdateDomain(d, monitor)
            \/ UpdateDomainAsAdmin(d, monitor)
        \/ DeleteDomain(d)
  BY DEF UserStep
<1>2. ASSUME InitialRefresh(d)
      PROVE  task' \in Seq(TaskRow) /\ OneActiveTask' /\ LeaseFencesTask'
  <2>1. PICK t \in 1..MaxTasks :
          AddTask(d, Request("monitor_enabled", FALSE, MaxAttempts), t)
    BY <1>2 DEF InitialRefresh
  <2>2. t \in Nat /\ MaxAttempts \in Nat /\ "monitor_enabled" \in Origin
    BY PolicyAssumption DEF Origin
  <2> QED
    BY <2>1, <2>2, AddTaskKeepsInvariants
<1>3. ASSUME UNCHANGED task
      PROVE  task' \in Seq(TaskRow) /\ OneActiveTask' /\ LeaseFencesTask'
  BY <1>3 DEF TypeOK, OneActiveTask, LeaseFencesTask, TaskId, Leased, Unfinished
<1>4. ASSUME UNCHANGED worker
      PROVE  worker' \in [Worker -> WorkerState] /\ OneProcessPerToken'
  BY <1>4 DEF TypeOK, OneProcessPerToken
<1>5. ASSUME NEW monitor \in BOOLEAN,
             \/ CreateDomain(d, monitor)
             \/ RestoreDomain(d, monitor)
             \/ UpdateDomain(d, monitor)
             \/ UpdateDomainAsAdmin(d, monitor)
      PROVE  IInv'
  <2>0. UNCHANGED <<now, idem, asking, answered, worker, scheduler, crashes>>
    BY <1>5 DEF CreateDomain, RestoreDomain, UpdateDomain, UpdateDomainAsAdmin
  <2>1. domain' \in [Domain -> DomainRow]
    <3>1. domain[d] \in DomainRow
      BY DEF TypeOK
    <3>2. \/ domain' = [domain EXCEPT ![d].monitor = monitor]
          \/ domain' = [domain EXCEPT ![d].state = "live", ![d].monitor = monitor]
      BY <1>5 DEF CreateDomain, RestoreDomain, UpdateDomain, UpdateDomainAsAdmin
    <3>3. CASE domain' = [domain EXCEPT ![d].monitor = monitor]
      BY <1>5, <3>1, <3>3 DEF TypeOK, DomainRow
    <3>4. CASE domain' = [domain EXCEPT ![d].state = "live", ![d].monitor = monitor]
      BY <1>5, <3>1, <3>4 DEF TypeOK, DomainRow
    <3> QED
      BY <3>2, <3>3, <3>4
  <2>2. InitialRefresh(d) \/ UNCHANGED task
    BY <1>5 DEF CreateDomain, RestoreDomain, UpdateDomain, UpdateDomainAsAdmin
  <2> QED
    BY <1>2, <1>3, <1>4, <2>0, <2>1, <2>2 DEF TypeOK
<1>6. CASE DeleteDomain(d)
  <2>1. domain' \in [Domain -> DomainRow] /\ UNCHANGED <<now, task, idem, asking, answered, worker, scheduler, crashes>>
    BY <1>6 DEF DeleteDomain, TypeOK, DomainRow
  <2> QED
    BY <1>3, <1>4, <2>1 DEF TypeOK
<1> QED
  BY <1>1, <1>5, <1>6

\* What a request for a refresh does in one step: it looks for its key, takes an
\* earlier answer, or adds a task and writes the first record of its key.
FirstAnswer(d, key, t) ==
    /\ idem[<<d, key>>] = 0
    /\ \E force \in BOOLEAN, origin \in Origin :
        AddTask(d, Request(origin, force, MaxAttempts), t)
    /\ idem' = [idem EXCEPT ![<<d, key>>] = t]
    /\ answered' = [answered EXCEPT ![<<d, key>>] = @ \cup {t}]

LaterAnswer(d, key) ==
    /\ idem[<<d, key>>] # 0
    /\ UNCHANGED <<task, idem>>
    /\ answered' = [answered EXCEPT ![<<d, key>>] = @ \cup {idem[<<d, key>>]}]

LEMMA EnqueueEffect ==
    ASSUME TypeOK, NEW c \in Caller, NEW d \in Domain, NEW key \in Key,
           NEW force \in BOOLEAN, NEW origin \in {"manual", "backfill"},
           Enqueue(c, d, key, force, origin)
    PROVE  /\ UNCHANGED <<now, domain, worker, scheduler, crashes>>
           /\ asking' \in [Caller -> AskingState]
           /\ LaterAnswer(d, key) \/ UNCHANGED <<task, idem, answered>>
<1>1. CASE GetIdempotent(d, key) # 0
  BY <1>1 DEF Enqueue, GetIdempotent, Answer, LaterAnswer, TypeOK
<1>2. CASE GetIdempotent(d, key) = 0
  <2>1. asking' \in [Caller -> AskingState]
    BY <1>2 DEF Enqueue, TypeOK, AskingState
  <2> QED
    BY <1>2, <2>1 DEF Enqueue
<1> QED
  BY <1>1, <1>2

LEMMA AddRequestEffect ==
    ASSUME TypeOK, NEW c \in Caller, AddRequest(c)
    PROVE  /\ UNCHANGED <<now, domain, worker, scheduler, crashes>>
           /\ asking' \in [Caller -> AskingState]
           /\ \E d \in Domain, key \in Key :
                LaterAnswer(d, key) \/ \E t \in 1..MaxTasks : FirstAnswer(d, key, t)
<1> DEFINE d == asking[c].domain
           key == asking[c].key
<1>1. /\ d \in Domain /\ key \in Key /\ asking[c].force \in BOOLEAN
      /\ asking[c].origin \in {"manual", "backfill"}
  BY DEF AddRequest, TypeOK, AskingState, NoRequest
<1>2. asking' \in [Caller -> AskingState]
  BY DEF AddRequest, TypeOK, AskingState
<1>3. CASE Replays(c)
  <2>1. LaterAnswer(d, key)
    BY <1>3 DEF AddRequest, Replays, GetIdempotent, Answer, LaterAnswer
  <2> QED
    BY <1>1, <1>2, <2>1 DEF AddRequest
<1>4. CASE ~Replays(c)
  <2>1. idem[<<d, key>>] = 0 /\ asking[c].origin \in Origin
    BY <1>1, <1>4 DEF Replays, GetIdempotent, Origin
  <2>2. PICK t \in 1..MaxTasks :
          /\ AddTask(d, Request(asking[c].origin, asking[c].force, MaxAttempts), t)
          /\ AddIdempotency(d, key, t) /\ Answer(d, key, t)
    BY <1>4 DEF AddRequest
  <2>3. idem' = [idem EXCEPT ![<<d, key>>] = t]
    BY <1>1, <2>1, <2>2 DEF AddIdempotency, TypeOK, IdempotencyRecord
  <2>4. FirstAnswer(d, key, t)
    BY <1>1, <2>1, <2>2, <2>3 DEF Answer, FirstAnswer
  <2> QED
    BY <1>1, <1>2, <2>4 DEF AddRequest
<1> QED
  BY <1>3, <1>4

LEMMA CallerEffect ==
    ASSUME TypeOK, NEW c \in Caller, CallerStep(c)
    PROVE  /\ UNCHANGED <<now, domain, worker, scheduler, crashes>>
           /\ asking' \in [Caller -> AskingState]
           /\ \/ UNCHANGED <<task, idem, answered>>
              \/ \E d \in Domain, key \in Key :
                   LaterAnswer(d, key) \/ \E t \in 1..MaxTasks : FirstAnswer(d, key, t)
<1>1. ASSUME NEW d \in Domain, NEW key \in Key, NEW force \in BOOLEAN,
             RefreshDomain(c, d, key, force) \/ RefreshDomainAsAdmin(c, d, key)
      PROVE  \E f \in BOOLEAN : Enqueue(c, d, key, f, "manual")
  BY <1>1 DEF RefreshDomain, RefreshDomainAsAdmin
<1>2. ASSUME NEW d \in Domain, Backfill(c, d)
      PROVE  BackfillKey \in Key /\ Enqueue(c, d, BackfillKey, TRUE, "backfill")
  BY <1>2 DEF Backfill
<1>3. CASE AbandonRequest(c)
  BY <1>3 DEF AbandonRequest, TypeOK, AskingState
<1>4. CASE AddRequest(c)
  BY <1>4, AddRequestEffect
<1>5. CASE ~AddRequest(c) /\ ~AbandonRequest(c)
  <2>1. PICK d \in Domain :
          \/ \E key \in Key :
              \/ \E force \in BOOLEAN : RefreshDomain(c, d, key, force)
              \/ RefreshDomainAsAdmin(c, d, key)
          \/ Backfill(c, d)
    BY <1>5 DEF CallerStep
  <2>2. PICK key \in Key, force \in BOOLEAN, origin \in {"manual", "backfill"} :
          Enqueue(c, d, key, force, origin)
    BY <1>1, <1>2, <2>1
  <2> QED
    BY <2>2, EnqueueEffect
<1> QED
  BY <1>3, <1>4, <1>5

LEMMA CallerStepKeepsIInv ==
    ASSUME IInv, NEW c \in Caller, CallerStep(c)
    PROVE  IInv'
<1> USE DEF IInv
<1>1. /\ UNCHANGED <<now, domain, worker, scheduler, crashes>>
      /\ asking' \in [Caller -> AskingState]
  BY CallerEffect
<1>2. worker' \in [Worker -> WorkerState] /\ OneProcessPerToken'
  BY <1>1 DEF TypeOK, OneProcessPerToken
<1>3. ASSUME UNCHANGED <<task, idem>>
      PROVE  /\ task' \in Seq(TaskRow) /\ OneActiveTask' /\ LeaseFencesTask'
             /\ idem' \in IdempotencyRecord
  BY <1>3 DEF TypeOK, OneActiveTask, LeaseFencesTask, TaskId, Leased, Unfinished
<1>4. CASE UNCHANGED <<task, idem, answered>>
  BY <1>1, <1>2, <1>3, <1>4 DEF TypeOK
<1>5. ASSUME NEW d \in Domain, NEW key \in Key, LaterAnswer(d, key)
      PROVE  IInv'
  <2>1. answered' \in [Domain \X Key -> SUBSET Nat]
    <3>1. idem[<<d, key>>] \in Nat
      BY DEF TypeOK, IdempotencyRecord
    <3> QED
      BY <1>5, <3>1 DEF LaterAnswer, TypeOK
  <2> QED
    BY <1>1, <1>2, <1>3, <1>5, <2>1 DEF LaterAnswer, TypeOK
<1>6. ASSUME NEW d \in Domain, NEW key \in Key, NEW t \in 1..MaxTasks,
             FirstAnswer(d, key, t)
      PROVE  IInv'
  <2>1. PICK force \in BOOLEAN, origin \in Origin :
          AddTask(d, Request(origin, force, MaxAttempts), t)
    BY <1>6 DEF FirstAnswer
  <2>2. t \in Nat /\ MaxAttempts \in Nat
    BY PolicyAssumption
  <2>3. task' \in Seq(TaskRow) /\ OneActiveTask' /\ LeaseFencesTask'
    BY <2>1, <2>2, AddTaskKeepsInvariants
  <2>4. idem' \in IdempotencyRecord /\ answered' \in [Domain \X Key -> SUBSET Nat]
    BY <1>6, <2>2 DEF FirstAnswer, TypeOK, IdempotencyRecord
  <2> QED
    BY <1>1, <1>2, <2>3, <2>4 DEF TypeOK
<1> QED
  BY <1>4, <1>5, <1>6, CallerEffect

\* The scheduler inserts through add() and spreads the backlog.
LEMMA SchedulerKeepsIInv ==
    ASSUME IInv, NEW s \in Scheduler, SchedulerStep(s) \/ CrashScheduler(s)
    PROVE  IInv'
<1> USE DEF IInv
<1>1. ASSUME UNCHANGED worker
      PROVE  worker' \in [Worker -> WorkerState] /\ OneProcessPerToken'
  BY <1>1 DEF TypeOK, OneProcessPerToken
<1>2. CASE StartScheduler(s)
  BY <1>1, <1>2, SpreadKeepsInvariants DEF StartScheduler, TypeOK
<1>3. ASSUME NEW d \in Domain, ScheduleDue(s, d)
      PROVE  IInv'
  <2>1. PICK t \in 1..MaxTasks :
          AddTask(d, Request("scheduled", FALSE, ScheduledMaxAttempts), t)
    BY <1>3 DEF ScheduleDue
  <2>2. t \in Nat /\ ScheduledMaxAttempts \in Nat /\ "scheduled" \in Origin
    BY PolicyAssumption DEF Origin
  <2>3. task' \in Seq(TaskRow) /\ OneActiveTask' /\ LeaseFencesTask'
    BY <2>1, <2>2, AddTaskKeepsInvariants
  <2>4. NextPhase(domain[d].nextCheck, now) \in Time
    BY <1>3, NextPhaseAdvances DEF ScheduleDue, TypeOK, DomainRow, NoTime, Time
  <2>5. /\ domain' \in [Domain -> DomainRow]
        /\ UNCHANGED <<now, idem, asking, answered, worker, scheduler, crashes>>
    BY <1>3, <2>4 DEF ScheduleDue, TypeOK, DomainRow
  <2> QED
    BY <1>1, <2>3, <2>5 DEF TypeOK
<1>4. CASE CrashScheduler(s)
  BY <1>1, <1>4 DEF CrashScheduler, TypeOK, OneActiveTask, LeaseFencesTask,
                    TaskId, Leased, Unfinished
<1> QED
  BY <1>2, <1>3, <1>4 DEF SchedulerStep

\* A claim leases one claimable row under a token that nobody has.
LEMMA ClaimKeepsIInv ==
    ASSUME IInv, NEW w \in Worker, Claim(w)
    PROVE  IInv'
<1> USE DEF IInv
<1>1. PICK t \in TaskId, k \in Token :
        /\ Claimable(task[t]) /\ Unused(k)
        /\ task' = [task EXCEPT ![t].status = "running", ![t].token = k,
                                ![t].lease = now + Lease, ![t].attempts = @ + 1]
        /\ worker' = [worker EXCEPT ![w].pc = "claimed", ![w].task = t,
                                    ![w].token = k,
                                    ![w].attempt = task[t].attempts + 1]
  BY DEF Claim
<1> DEFINE row == [task[t] EXCEPT !.status = "running", !.token = k,
                                  !.lease = now + Lease, !.attempts = @ + 1]
           local == [worker[w] EXCEPT !.pc = "claimed", !.task = t, !.token = k,
                                      !.attempt = task[t].attempts + 1]
<1>2. /\ task[t] \in TaskRow /\ worker[w] \in WorkerState /\ t \in Nat
      /\ k # NoToken /\ now \in Nat /\ Lease \in Nat
  BY PolicyAssumption DEF TypeOK, TaskId, Time
<1>3. /\ row \in TaskRow /\ row.domain = task[t].domain /\ row.token = k
      /\ Leased(row)
  <2>1. task[t].attempts + 1 \in Nat /\ now + Lease \in Nat /\ now + Lease # NoTime
    BY <1>2 DEF TaskRow, NoTime
  <2>2. /\ row.domain = task[t].domain /\ row.token = k
        /\ row.status = "running" /\ row.lease = now + Lease
    BY <1>2 DEF TaskRow
  <2>3. row \in TaskRow
    BY <1>2, <2>1 DEF TaskRow, Status, Time
  <2> QED
    BY <1>2, <2>1, <2>2, <2>3 DEF Leased
<1>4. Unfinished(task[t])
  BY <1>1 DEF Claimable, Expired, Unfinished
<1>5. \A u \in TaskId \ {t} : task[u].token # row.token
  BY <1>1, <1>3 DEF Unused
<1>6. task' = [task EXCEPT ![t] = row] /\ worker' = [worker EXCEPT ![w] = local]
  BY <1>1
<1>7. task' \in Seq(TaskRow) /\ OneActiveTask' /\ LeaseFencesTask'
  <2> HIDE DEF row
  <2> QED
    BY <1>3, <1>4, <1>5, <1>6, RowKeepsInvariants
<1>8. local \in WorkerState /\ local.token = k
  <2>1. task[t].attempts + 1 \in Nat
    BY <1>2 DEF TaskRow
  <2> QED
    BY <1>2, <2>1 DEF WorkerState
<1>9. worker' \in [Worker -> WorkerState] /\ OneProcessPerToken'
  <2> HIDE DEF local
  <2>1. /\ worker' \in [Worker -> WorkerState] /\ worker'[w] = local
        /\ \A v \in Worker \ {w} : worker'[v] = worker[v]
    BY <1>6, <1>8 DEF TypeOK
  <2>2. \A v \in Worker : worker[v].token # k
    BY <1>1 DEF Unused
  <2> QED
    BY <1>8, <2>1, <2>2 DEF OneProcessPerToken
<1>10. UNCHANGED <<now, domain, idem, asking, answered, scheduler, crashes>>
  BY DEF Claim
<1> QED
  BY <1>7, <1>9, <1>10 DEF TypeOK

\* The steps of the run loop that write no task.
LEMMA LocalStepKeepsIInv ==
    ASSUME IInv, NEW w \in Worker,
           \/ StartLookup(w) \/ DropResult(w) \/ CrashWorker(w)
           \/ \E outcome \in Outcome \ {"none"} : LookupReturns(w, outcome)
    PROVE  IInv'
<1> USE DEF IInv
<1>1. worker[w] \in WorkerState /\ now \in Time
  BY DEF TypeOK
<1>2. PICK local \in WorkerState :
        /\ local.token \in {worker[w].token, NoToken}
        /\ worker' = [worker EXCEPT ![w] = local]
  <2>1. CASE StartLookup(w)
    <3> DEFINE local == [worker[w] EXCEPT !.pc = "looking"]
    <3>1. local \in WorkerState /\ local.token = worker[w].token
      BY <1>1 DEF WorkerState
    <3>2. worker' = [worker EXCEPT ![w] = local]
      BY <2>1 DEF StartLookup
    <3> QED
      BY <3>1, <3>2
  <2>2. CASE DropResult(w) \/ CrashWorker(w)
    BY <2>2, IdleType DEF DropResult, CrashWorker
  <2>3. ASSUME NEW outcome \in Outcome \ {"none"}, LookupReturns(w, outcome)
        PROVE  \E local \in WorkerState :
                  /\ local.token \in {worker[w].token, NoToken}
                  /\ worker' = [worker EXCEPT ![w] = local]
    <3> DEFINE local == [worker[w] EXCEPT !.pc = "returned", !.outcome = outcome, !.at = now]
    <3>1. local \in WorkerState /\ local.token = worker[w].token
      BY <1>1 DEF WorkerState
    <3>2. worker' = [worker EXCEPT ![w] = local]
      BY <2>3 DEF LookupReturns
    <3> QED
      BY <3>1, <3>2
  <2> QED
    BY <2>1, <2>2, <2>3
<1>3. worker' \in [Worker -> WorkerState] /\ OneProcessPerToken'
  BY <1>2, WorkerKeepsTokens
<1>4. UNCHANGED <<now, domain, task, idem, asking, answered, scheduler>>
  BY DEF StartLookup, DropResult, CrashWorker, LookupReturns
<1>5. crashes' \in Nat
  <2>1. crashes' \in {crashes, crashes + 1}
    BY DEF StartLookup, DropResult, CrashWorker, LookupReturns
  <2> QED
    BY <2>1 DEF TypeOK
<1> QED
  BY <1>3, <1>4, <1>5 DEF TypeOK, OneActiveTask, LeaseFencesTask, TaskId, Leased, Unfinished

\* A granted renewal moves the lease and nothing else.
LEMMA HeartbeatKeepsIInv ==
    ASSUME IInv, NEW w \in Worker, Heartbeat(w)
    PROVE  IInv'
<1> USE DEF IInv
<1> DEFINE t == worker[w].task
           row == [task[t] EXCEPT !.lease = now + Lease]
<1>1. /\ t \in TaskId /\ task[t] \in TaskRow /\ Leased(task[t])
      /\ task[t].status = "running" /\ now + Lease \in Time
  BY PolicyAssumption DEF Heartbeat, Holds, TypeOK, TaskId, LeaseFencesTask, Time
<1>2. /\ row \in TaskRow /\ row.domain = task[t].domain
      /\ row.token = task[t].token /\ row.status = "running"
      /\ row.lease = now + Lease
  BY <1>1 DEF TaskRow
<1>3. Leased(row) /\ (Unfinished(row) => Unfinished(task[t]))
  BY <1>1, <1>2 DEF Leased, Unfinished, NoTime, Time
<1>4. row.token = NoToken \/ \A u \in TaskId \ {t} : task[u].token # row.token
  BY <1>1, <1>2 DEF LeaseFencesTask
<1>5. task' = [task EXCEPT ![t] = row]
  BY DEF Heartbeat
<1>6. task' \in Seq(TaskRow) /\ OneActiveTask' /\ LeaseFencesTask'
  <2> HIDE DEF row
  <2> QED
    BY <1>1, <1>2, <1>3, <1>4, <1>5, RowKeepsInvariants
<1> QED
  BY <1>6 DEF Heartbeat, TypeOK, OneProcessPerToken

\* The four write backs of the run loop.
LEMMA WriteBackKeepsIInv ==
    ASSUME IInv, NEW w \in Worker,
           \/ CompleteIfFresh(w) \/ CompleteSuccess(w)
           \/ DeferRateLimited(w) \/ CompleteFailure(w)
    PROVE  IInv'
<1> USE DEF IInv
<1> DEFINE t == worker[w].task
           old == task[t]
           d == old.domain
<1>1. /\ Holds(w) /\ t \in TaskId /\ old \in TaskRow /\ d \in Domain
      /\ worker[w] \in WorkerState /\ worker[w].at \in Time
      /\ domain[d] \in DomainRow /\ worker' = [worker EXCEPT ![w] = Idle]
      /\ UNCHANGED <<now, idem, asking, answered, scheduler, crashes>>
  <2>1. /\ Holds(w) /\ worker' = [worker EXCEPT ![w] = Idle]
        /\ UNCHANGED <<now, idem, asking, answered, scheduler, crashes>>
    BY DEF CompleteIfFresh, CompleteSuccess, DeferRateLimited, CompleteFailure, Settle
  <2>2. t \in TaskId /\ old \in TaskRow
    BY <2>1 DEF Holds, TypeOK, TaskId
  <2> QED
    BY <2>1, <2>2 DEF TypeOK, TaskRow, WorkerState
<1> DEFINE Fit(row) == /\ row \in TaskRow /\ row.domain = d
                       /\ row.status \in Status \ {"running"}
                       /\ row.lease = NoTime /\ row.token = NoToken
<1>2. ASSUME NEW row, Fit(row), task' = [task EXCEPT ![t] = row],
             domain' \in [Domain -> DomainRow]
      PROVE  IInv'
  <2>1. /\ task' \in Seq(TaskRow) /\ OneActiveTask' /\ LeaseFencesTask'
        /\ worker' \in [Worker -> WorkerState] /\ OneProcessPerToken'
    BY <1>1, <1>2, SettleKeepsInvariants
  <2> QED
    BY <1>1, <1>2, <2>1 DEF TypeOK
<1>3. /\ Released(old) \in TaskRow /\ Released(old).domain = d
      /\ Released(old).lease = NoTime /\ Released(old).token = NoToken
      /\ Released(old).attempts \in Nat /\ Released(old).avail \in Time
  BY <1>1, ReleasedType DEF TaskRow
<1>4. ASSUME NEW status \in Status \ {"running"}, NEW err \in ErrorCode,
             NEW attempts \in Nat, NEW avail \in Time
      PROVE  /\ Fit([Released(old) EXCEPT !.status = status, !.err = err])
             /\ Fit([Released(old) EXCEPT !.status = status, !.err = err, !.avail = avail])
             /\ Fit([Released(old) EXCEPT !.status = status, !.err = err,
                                          !.attempts = attempts, !.avail = avail])
  BY <1>3, <1>4 DEF TaskRow
<1> HIDE DEF Fit
<1>5. CASE CompleteIfFresh(w)
  <2>1. task' = [task EXCEPT ![t] =
                    [Released(old) EXCEPT !.status = "info", !.err = "none"]]
    BY <1>5 DEF CompleteIfFresh
  <2>2. "info" \in Status \ {"running"} /\ "none" \in ErrorCode
    BY DEF Status, ErrorCode
  <2>3. Advance(domain[d], now) \in Time \cup {NoTime}
    BY <1>1, AdvanceType DEF TypeOK
  <2>4. domain' \in [Domain -> DomainRow]
    BY <1>1, <1>5, <2>3 DEF CompleteIfFresh, DomainRow, TypeOK
  <2> DEFINE row == [Released(old) EXCEPT !.status = "info", !.err = "none"]
  <2>5. Fit(row)
    BY <1>3, <1>4, <2>2
  <2> HIDE DEF row
  <2> QED
    BY <1>2, <2>1, <2>4, <2>5 DEF row
<1>6. CASE CompleteSuccess(w)
  <2>1. task' = [task EXCEPT ![t] =
                    [Released(old) EXCEPT !.status = "success", !.err = "none"]]
    BY <1>6 DEF CompleteSuccess, Settle
  <2>2. "success" \in Status \ {"running"} /\ "none" \in ErrorCode
    BY DEF Status, ErrorCode
  <2>3. /\ Advance(domain[d], worker[w].at) \in Time \cup {NoTime}
        /\ worker[w].at + Interval \in Time
    BY <1>1, AdvanceType, PolicyAssumption DEF Time
  <2>4. PICK next \in Time \cup {NoTime} :
          domain' = [domain EXCEPT ![d] =
            [@ EXCEPT !.successAt = worker[w].at, !.nextCheck = next]]
    BY <1>6, <2>3 DEF CompleteSuccess
  <2>5. domain' \in [Domain -> DomainRow]
    BY <1>1, <2>4 DEF DomainRow, TypeOK
  <2> DEFINE row == [Released(old) EXCEPT !.status = "success", !.err = "none"]
  <2>6. Fit(row)
    BY <1>3, <1>4, <2>2
  <2> HIDE DEF row
  <2> QED
    BY <1>2, <2>1, <2>5, <2>6 DEF row
<1>7. CASE DeferRateLimited(w)
  <2>1. PICK delay \in 1..MaxCooldown :
          task' = [task EXCEPT ![t] = [Released(old) EXCEPT
            !.status = "queued", !.err = "rate_limited",
            !.attempts = IF @ > 0 THEN @ - 1 ELSE 0,
            !.avail = worker[w].at + delay]]
    BY <1>7 DEF DeferRateLimited, Settle
  <2>2. /\ "queued" \in Status \ {"running"} /\ "rate_limited" \in ErrorCode
        /\ worker[w].at + delay \in Time
        /\ (IF Released(old).attempts > 0 THEN Released(old).attempts - 1 ELSE 0) \in Nat
    BY <1>1, <1>3, PolicyAssumption DEF Status, ErrorCode, Time
  <2>3. domain' \in [Domain -> DomainRow]
    BY <1>7 DEF DeferRateLimited, TypeOK
  <2> DEFINE row == [Released(old) EXCEPT
            !.status = "queued", !.err = "rate_limited",
            !.attempts = IF @ > 0 THEN @ - 1 ELSE 0,
            !.avail = worker[w].at + delay]
  <2>4. Fit(row)
    BY <1>4, <2>2
  <2> QED
    BY <1>2, <2>1, <2>3, <2>4
<1>8. CASE CompleteFailure(w)
  <2> DEFINE retryAt == worker[w].at + RetryDelay(worker[w].attempt)
  <2>1. /\ worker[w].outcome \in {"temporary_failure", "fatal"}
        /\ \/ task' = [task EXCEPT ![t] = [Released(old) EXCEPT
                  !.status = "failed", !.err = worker[w].outcome]]
           \/ task' = [task EXCEPT ![t] = [Released(old) EXCEPT
                  !.status = "queued", !.err = worker[w].outcome, !.avail = retryAt]]
        /\ domain' \in [Domain -> DomainRow]
    BY <1>8 DEF CompleteFailure, Settle, TypeOK
  <2>2. retryAt \in Time
    BY <1>1, RetryDelayBounded, PolicyAssumption DEF WorkerState, Time
  <2>3. /\ "failed" \in Status \ {"running"} /\ "queued" \in Status \ {"running"}
        /\ worker[w].outcome \in ErrorCode
    BY <2>1 DEF Status, ErrorCode
  <2>4. /\ Fit([Released(old) EXCEPT !.status = "failed", !.err = worker[w].outcome])
        /\ Fit([Released(old) EXCEPT !.status = "queued", !.err = worker[w].outcome,
                                     !.avail = retryAt])
    <3> HIDE DEF retryAt
    <3> QED
      BY <1>3, <1>4, <2>2, <2>3
  <2> QED
    BY <1>2, <2>1, <2>4
<1> QED
  BY <1>5, <1>6, <1>7, <1>8

-----------------------------------------------------------------------------
(* The invariant, and what follows from it *)

LEMMA InitEstablishesIInv == Init => IInv
<1> SUFFICES ASSUME Init PROVE IInv
  OBVIOUS
<1>1. TypeOK
  BY IdleType DEF Init, IdempotencyRecord, AskingState, TypeOK, DomainRow, TaskRow, Time, NoTime
<1>2. TaskId = {}
  BY DEF Init, TaskId
<1>3. OneProcessPerToken
  BY IdleType DEF Init, OneProcessPerToken
<1> QED
  BY <1>1, <1>2, <1>3 DEF IInv, OneActiveTask, LeaseFencesTask

LEMMA NextKeepsIInv == IInv /\ [Next]_vars => IInv'
<1> SUFFICES ASSUME IInv, [Next]_vars PROVE IInv'
  OBVIOUS
<1>1. CASE UserStep
  BY <1>1, UserStepKeepsIInv
<1>2. CASE \E s \in Scheduler : SchedulerStep(s) \/ CrashScheduler(s)
  BY <1>2, SchedulerKeepsIInv
<1>3. ASSUME NEW w \in Worker, StartWorker(w)
      PROVE  IInv'
  <2>1. /\ task' \in Seq(TaskRow) /\ domain' \in [Domain -> DomainRow]
        /\ OneActiveTask' /\ LeaseFencesTask'
    BY <1>3, SpreadKeepsInvariants DEF IInv, StartWorker
  <2>2. worker' \in [Worker -> WorkerState] /\ OneProcessPerToken'
    BY <1>3, IdleType, WorkerKeepsTokens DEF IInv, StartWorker
  <2> QED
    BY <1>3, <2>1, <2>2 DEF IInv, TypeOK, StartWorker
<1>4. ASSUME NEW w \in Worker, WorkerStep(w) \/ Heartbeat(w) \/ CrashWorker(w)
      PROVE  IInv'
  BY <1>3, <1>4, ClaimKeepsIInv, LocalStepKeepsIInv, HeartbeatKeepsIInv,
     WriteBackKeepsIInv DEF WorkerStep
<1>5. CASE Tick
  BY <1>5 DEF Tick, IInv, TypeOK, OneActiveTask, LeaseFencesTask, OneProcessPerToken,
              TaskId, Leased, Unfinished, Time
<1>6. CASE UNCHANGED vars
  BY <1>6 DEF vars, IInv, TypeOK, OneActiveTask, LeaseFencesTask, OneProcessPerToken,
              TaskId, Leased, Unfinished
<1>7. CASE \E c \in Caller : CallerStep(c)
  BY <1>7, CallerStepKeepsIInv
<1> QED
  BY <1>1, <1>2, <1>4, <1>5, <1>6, <1>7 DEF Next

\* The queue is well formed for good: one unfinished task a domain, leases and
\* tokens tied to running tasks, and no token in two hands.
THEOREM Safety == Spec => []IInv
BY InitEstablishesIInv, NextKeepsIInv, PTL DEF Spec

THEOREM TypeCorrect == Spec => []TypeOK
<1>1. IInv => TypeOK
  BY DEF IInv
<1> QED
  BY <1>1, Safety, PTL

THEOREM OneActiveTaskHolds == Spec => []OneActiveTask
<1>1. IInv => OneActiveTask
  BY DEF IInv
<1> QED
  BY <1>1, Safety, PTL

THEOREM LeaseFencesTaskHolds == Spec => []LeaseFencesTask
<1>1. IInv => LeaseFencesTask
  BY DEF IInv
<1> QED
  BY <1>1, Safety, PTL

\* Of all the workers that look a task up, one at most can write its result:
\* holding it means presenting its token, and no two present the same one.
THEOREM OneWriterHolds == Spec => []OneWriter
<1>1. IInv => OneWriter
  <2> SUFFICES ASSUME IInv, NEW v \in Worker, NEW w \in Worker,
                      Holds(v), Holds(w), v # w, worker[v].task = worker[w].task
               PROVE  FALSE
    BY DEF OneWriter
  <2>1. worker[v].token = worker[w].token /\ worker[v].token # NoToken
    BY DEF Holds, IInv, LeaseFencesTask, Leased
  <2> QED
    BY <2>1 DEF IInv, OneProcessPerToken
<1> QED
  BY <1>1, Safety, PTL

-----------------------------------------------------------------------------
(* Which rows a step may change *)

\* A step rewrites a task that is queued, one whose lease has run out, or the
\* task of the worker that takes the step.
RowStep(t) ==
    \/ task'[t] = task[t]
    \/ task[t].status = "queued"
    \/ Expired(task[t])
    \/ \E w \in Worker :
        /\ Holds(w) /\ worker[w].task = t
        /\ worker'[w].pc = "idle" \/ task'[t].token = task[t].token

LEMMA AddTaskRows ==
    ASSUME TypeOK, NEW d \in Domain, NEW req, NEW u \in Nat, AddTask(d, req, u),
           NEW t \in TaskId
    PROVE  RowStep(t)
<1>1. CASE u \in Active(d) /\ task' = [task EXCEPT ![u] = Merge(@, req)]
  BY <1>1 DEF TypeOK, TaskId, Merge, RowStep
<1>2. CASE task' = Append(task, NewRow(d, req))
  BY <1>2 DEF TypeOK, TaskId, RowStep
<1> QED
  BY <1>1, <1>2 DEF AddTask

LEMMA SpreadRows ==
    ASSUME TypeOK, SpreadOverdue, NEW t \in TaskId
    PROVE  RowStep(t)
<1>1. \E at : task'[t] = task[t] \/ task'[t] = Spread(task[t], at)
  BY DEF SpreadOverdue, TaskId
<1> QED
  BY <1>1 DEF Spread, RowStep

LEMMA StepRows ==
    ASSUME IInv, [Next]_vars, NEW t \in TaskId
    PROVE  RowStep(t)
<1> USE DEF IInv
<1>1. ASSUME UNCHANGED task PROVE RowStep(t)
  BY <1>1 DEF RowStep
<1>2. ASSUME NEW d \in Domain, NEW req, \E u \in 1..MaxTasks : AddTask(d, req, u)
      PROVE  RowStep(t)
  BY <1>2, AddTaskRows, PolicyAssumption
<1>3. CASE UserStep
  BY <1>1, <1>2, <1>3 DEF UserStep, CreateDomain, RestoreDomain, UpdateDomain,
        UpdateDomainAsAdmin, DeleteDomain, InitialRefresh
<1>4. ASSUME NEW s \in Scheduler, SchedulerStep(s) \/ CrashScheduler(s)
      PROVE  RowStep(t)
  BY <1>1, <1>2, <1>4, SpreadRows DEF SchedulerStep, StartScheduler, ScheduleDue, CrashScheduler
<1>5. ASSUME NEW w \in Worker, WorkerStep(w) \/ Heartbeat(w) \/ CrashWorker(w)
      PROVE  RowStep(t)
  <2>1. CASE StartWorker(w)
    BY <2>1, SpreadRows DEF StartWorker
  <2>2. CASE Claim(w)
    <3>1. PICK u \in TaskId : /\ Claimable(task[u])
                              /\ \A v \in TaskId \ {u} : task'[v] = task[v]
      BY <2>2 DEF Claim, TypeOK, TaskId
    <3> QED
      BY <3>1 DEF Claimable, RowStep
  <2>3. CASE \/ CompleteIfFresh(w) \/ CompleteSuccess(w)
             \/ DeferRateLimited(w) \/ CompleteFailure(w)
    <3>1. /\ Holds(w) /\ worker' = [worker EXCEPT ![w] = Idle]
          /\ \A v \in TaskId \ {worker[w].task} : task'[v] = task[v]
      BY <2>3 DEF CompleteIfFresh, CompleteSuccess, DeferRateLimited,
                  CompleteFailure, Settle, TypeOK, TaskId
    <3>2. worker'[w].pc = "idle"
      BY <3>1 DEF Idle, Starting, TypeOK
    <3> QED
      BY <3>1, <3>2 DEF RowStep
  <2>4. CASE Heartbeat(w)
    <3> DEFINE row == [task[worker[w].task] EXCEPT !.lease = now + Lease]
    <3>0. /\ Holds(w) /\ worker[w].task \in TaskId
          /\ task[worker[w].task] \in TaskRow
          /\ task' = [task EXCEPT ![worker[w].task] = row]
      BY <2>4 DEF Heartbeat, Holds, TypeOK, TaskId
    <3>1. /\ Holds(w) /\ task'[worker[w].task].token = task[worker[w].task].token
          /\ \A v \in TaskId \ {worker[w].task} : task'[v] = task[v]
      BY <3>0 DEF TypeOK, TaskId, TaskRow
    <3> QED
      BY <3>1 DEF RowStep
  <2>5. CASE \/ StartLookup(w) \/ DropResult(w) \/ CrashWorker(w)
             \/ \E outcome \in Outcome \ {"none"} : LookupReturns(w, outcome)
    BY <1>1, <2>5 DEF StartLookup, DropResult, CrashWorker, LookupReturns
  <2> QED
    BY <1>5, <2>1, <2>2, <2>3, <2>4, <2>5 DEF WorkerStep
<1>6. CASE Tick \/ UNCHANGED vars
  BY <1>1, <1>6 DEF Tick, vars
<1>7. ASSUME NEW c \in Caller, CallerStep(c)
      PROVE  RowStep(t)
  BY <1>1, <1>2, <1>7, CallerEffect DEF LaterAnswer, FirstAnswer
<1> QED
  BY <1>3, <1>4, <1>5, <1>6, <1>7 DEF Next

\* A finished task stays as it was finished.
THEOREM TerminalIsFinalHolds == Spec => TerminalIsFinal
<1>1. IInv /\ [Next]_vars
      => [\A t \in TaskId : task[t].status \in Terminal => task'[t] = task[t]]_vars
  BY StepRows DEF RowStep, Terminal, Expired, Holds
<1> QED
  BY <1>1, Safety, PTL DEF Spec, TerminalIsFinal

\* A running task leaves its worker by that worker's write, or by expiry.
THEOREM OnlyOwnerSettlesHolds == Spec => OnlyOwnerSettles
<1>1. IInv /\ [Next]_vars
      => [\A t \in TaskId :
            task[t].status = "running" /\ task'[t].token # task[t].token
            => \/ task[t].lease <= now
               \/ \E w \in Worker : /\ Holds(w) /\ worker[w].task = t
                                    /\ worker'[w].pc = "idle"]_vars
  BY StepRows DEF RowStep, Expired
<1> QED
  BY <1>1, Safety, PTL DEF Spec, OnlyOwnerSettles

-----------------------------------------------------------------------------
(* What each kind of step does to the rows and to the workers *)

\* Adding a task: rows stay or take the request in, and one row may be new.
LEMMA AddTaskEffect ==
    ASSUME TypeOK, NEW d \in Domain, NEW req, NEW u \in Nat, AddTask(d, req, u)
    PROVE  /\ \A t \in TaskId :
                /\ t \in TaskId'
                /\ \/ task'[t] = task[t]
                   \/ task[t].status = "queued" /\ task'[t] = Merge(task[t], req)
           /\ \A t \in TaskId' \ TaskId : task'[t] = NewRow(d, req)
           /\ u \in TaskId' /\ task'[u].domain = d
<1>1. CASE u \in Active(d) /\ task' = [task EXCEPT ![u] = Merge(@, req)]
  <2>1. u \in TaskId /\ task[u].domain = d /\ task[u] \in TaskRow
    BY <1>1 DEF Active, TypeOK, TaskId
  <2>2. /\ TaskId' = TaskId /\ task'[u] = Merge(task[u], req)
        /\ \A t \in TaskId \ {u} : task'[t] = task[t]
    BY <1>1, <2>1 DEF TypeOK, TaskId
  <2>3. Merge(task[u], req).domain = d
    BY <2>1 DEF Merge, TaskRow
  <2>4. task[u].status # "queued" => Merge(task[u], req) = task[u]
    BY DEF Merge
  <2> QED
    BY <2>1, <2>2, <2>3, <2>4
<1>2. CASE u = Len(task) + 1 /\ task' = Append(task, NewRow(d, req))
  <2>1. /\ TaskId = 1..Len(task) /\ TaskId' = 1..(Len(task) + 1) /\ Len(task) \in Nat
        /\ task'[Len(task) + 1] = NewRow(d, req)
        /\ \A t \in TaskId : task'[t] = task[t]
    BY <1>2 DEF TypeOK, TaskId
  <2>2. NewRow(d, req).domain = d
    BY DEF NewRow
  <2> QED
    BY <1>2, <2>1, <2>2
<1> QED
  BY <1>1, <1>2 DEF AddTask

\* Spreading the backlog: a row stays or is postponed with its domain.
LEMMA SpreadEffect ==
    ASSUME TypeOK, SpreadOverdue
    PROVE  /\ TaskId' = TaskId
           /\ \A t \in TaskId :
                \/ task'[t] = task[t]
                \/ /\ task[t].domain \in Overdue
                   /\ \E at \in (now + 1)..(now + Interval) :
                        /\ task'[t] = Spread(task[t], at)
                        /\ domain'[task[t].domain].nextCheck = at
           /\ \A d \in Domain : domain'[d].successAt = domain[d].successAt
<1>0. PICK late \in SUBSET Overdue : \E offset \in [late -> 1..Interval] :
        /\ domain' = [d \in Domain |->
                        IF d \in late
                        THEN [domain[d] EXCEPT !.nextCheck = now + offset[d]]
                        ELSE domain[d]]
        /\ task' = [t \in TaskId |->
                        IF task[t].domain \in late
                        THEN Spread(task[t], now + offset[task[t].domain])
                        ELSE task[t]]
  BY DEF SpreadOverdue
<1>1. PICK offset \in [late -> 1..Interval] :
        /\ domain' = [d \in Domain |->
                        IF d \in late
                        THEN [domain[d] EXCEPT !.nextCheck = now + offset[d]]
                        ELSE domain[d]]
        /\ task' = [t \in TaskId |->
                        IF task[t].domain \in late
                        THEN Spread(task[t], now + offset[task[t].domain])
                        ELSE task[t]]
  BY <1>0
<1>2. TaskId' = TaskId
  BY <1>1 DEF TaskId
<1>3. \A d \in Domain : domain[d] \in DomainRow
  BY DEF TypeOK
<1>4. \A d \in Domain : domain'[d].successAt = domain[d].successAt
  BY <1>1, <1>3 DEF DomainRow
<1>5. ASSUME NEW t \in TaskId, task[t].domain \in late
      PROVE  \E at \in (now + 1)..(now + Interval) :
                /\ task'[t] = Spread(task[t], at)
                /\ domain'[task[t].domain].nextCheck = at
  <2> DEFINE at == now + offset[task[t].domain]
  <2>0. task[t] \in TaskRow
    BY DEF TypeOK, TaskId
  <2>1. task[t].domain \in Domain /\ offset[task[t].domain] \in 1..Interval
    BY <1>1, <1>5, <2>0 DEF TaskRow
  <2>2. at \in (now + 1)..(now + Interval)
    BY <2>1, PolicyAssumption DEF TypeOK, Time
  <2>3. task'[t] = Spread(task[t], at)
    BY <1>1, <1>5
  <2>4. domain'[task[t].domain].nextCheck = at
    BY <1>1, <1>3, <1>5, <2>1 DEF DomainRow
  <2> QED
    BY <2>2, <2>3, <2>4
<1>6. \A t \in TaskId : task[t].domain \notin late => task'[t] = task[t]
  BY <1>1
<1> QED
  BY <1>2, <1>4, <1>5, <1>6

\* A spread row is the old one or waits, unleased, for its new time.
LEMMA SpreadFields ==
    ASSUME NEW row \in TaskRow, NEW at \in Time
    PROVE  \/ Spread(row, at) = row
           \/ /\ row.origin = "scheduled" /\ (row.status = "queued" \/ Expired(row))
              /\ Spread(row, at).domain = row.domain /\ Spread(row, at).max = row.max
              /\ Spread(row, at).attempts = row.attempts
              /\ Spread(row, at).origin = row.origin
              /\ Spread(row, at).status = "queued" /\ Spread(row, at).avail = at
BY DEF Spread, Released, TaskRow

\* What folding a request into a row leaves alone; it brings forward only a
\* row that was never tried.
LEMMA MergeFields ==
    ASSUME NEW row \in TaskRow, NEW req
    PROVE  /\ Merge(row, req).domain = row.domain /\ Merge(row, req).max = row.max
           /\ Merge(row, req).attempts = row.attempts
           /\ Merge(row, req).status = row.status
           /\ Merge(row, req).token = row.token /\ Merge(row, req).lease = row.lease
           /\ \/ Merge(row, req).avail = row.avail
              \/ Untouched(row) /\ Merge(row, req).avail = Smaller(row.avail, now)
BY DEF Merge, TaskRow

\* A claim leases one claimable row to one worker.
LEMMA ClaimEffect ==
    ASSUME TypeOK, NEW w \in Worker, Claim(w)
    PROVE  \E t \in TaskId, k \in Token :
             /\ worker[w].pc = "idle" /\ Claimable(task[t]) /\ Unused(k)
             /\ TaskId' = TaskId /\ \A u \in TaskId \ {t} : task'[u] = task[u]
             /\ task'[t].domain = task[t].domain /\ task'[t].max = task[t].max
             /\ task'[t].status = "running" /\ task'[t].token = k
             /\ task'[t].lease = now + Lease /\ task'[t].attempts = task[t].attempts + 1
             /\ \A v \in Worker \ {w} : worker'[v] = worker[v]
             /\ worker'[w].pc = "claimed" /\ worker'[w].task = t
             /\ worker'[w].token = k /\ worker'[w].attempt = task[t].attempts + 1
             /\ worker'[w].at = worker[w].at
             /\ UNCHANGED <<now, domain, idem, asking, answered>>
<1>1. PICK t \in TaskId, k \in Token :
        /\ Claimable(task[t]) /\ Unused(k)
        /\ task' = [task EXCEPT ![t].status = "running", ![t].token = k,
                                ![t].lease = now + Lease, ![t].attempts = @ + 1]
        /\ worker' = [worker EXCEPT ![w].pc = "claimed", ![w].task = t,
                                    ![w].token = k,
                                    ![w].attempt = task[t].attempts + 1]
  BY DEF Claim
<1> DEFINE row == [task[t] EXCEPT !.status = "running", !.token = k,
                                  !.lease = now + Lease, !.attempts = @ + 1]
           local == [worker[w] EXCEPT !.pc = "claimed", !.task = t, !.token = k,
                                      !.attempt = task[t].attempts + 1]
<1>2. task[t] \in TaskRow /\ worker[w] \in WorkerState
  BY DEF TypeOK, TaskId
<1>3. /\ row.domain = task[t].domain /\ row.max = task[t].max
      /\ row.status = "running" /\ row.token = k /\ row.lease = now + Lease
      /\ row.attempts = task[t].attempts + 1
  BY <1>2 DEF TaskRow
<1>4. /\ local.pc = "claimed" /\ local.task = t /\ local.token = k
      /\ local.attempt = task[t].attempts + 1 /\ local.at = worker[w].at
  BY <1>2 DEF WorkerState
<1>5. task' = [task EXCEPT ![t] = row] /\ worker' = [worker EXCEPT ![w] = local]
  BY <1>1
<1>6. /\ TaskId' = TaskId /\ task'[t] = row /\ \A u \in TaskId \ {t} : task'[u] = task[u]
      /\ worker'[w] = local /\ \A v \in Worker \ {w} : worker'[v] = worker[v]
  <2> HIDE DEF row, local
  <2> QED
    BY <1>5 DEF TypeOK, TaskId
<1> HIDE DEF row, local
<1>7. worker[w].pc = "idle" /\ UNCHANGED <<now, domain, idem, asking, answered>>
  BY DEF Claim
<1> WITNESS t \in TaskId, k \in Token
<1> QED
  BY <1>1, <1>3, <1>4, <1>6, <1>7

\* A renewal moves one lease of its holder.
LEMMA HeartbeatEffect ==
    ASSUME TypeOK, NEW w \in Worker, Heartbeat(w)
    PROVE  /\ worker[w].pc = "looking" /\ Holds(w)
           /\ TaskId' = TaskId
           /\ \A u \in TaskId \ {worker[w].task} : task'[u] = task[u]
           /\ \A t \in TaskId :
                /\ task'[t].domain = task[t].domain /\ task'[t].max = task[t].max
                /\ task'[t].status = task[t].status /\ task'[t].token = task[t].token
                /\ task'[t].attempts = task[t].attempts
           /\ task'[worker[w].task].lease = now + Lease
           /\ UNCHANGED <<now, domain, idem, asking, answered, worker>>
<1> DEFINE t == worker[w].task
           row == [task[t] EXCEPT !.lease = now + Lease]
<1>1. /\ worker[w].pc = "looking" /\ Holds(w) /\ t \in TaskId
      /\ task' = [task EXCEPT ![t] = row] /\ UNCHANGED <<now, domain, idem, asking, answered, worker>>
  BY DEF Heartbeat, Holds
<1>2. task[t] \in TaskRow
  BY <1>1 DEF TypeOK, TaskId
<1>3. /\ row.domain = task[t].domain /\ row.max = task[t].max
      /\ row.status = task[t].status /\ row.token = task[t].token
      /\ row.attempts = task[t].attempts /\ row.lease = now + Lease
  BY <1>2 DEF TaskRow
<1> HIDE DEF row
<1>4. TaskId' = TaskId /\ task'[t] = row /\ \A u \in TaskId \ {t} : task'[u] = task[u]
  BY <1>1 DEF TypeOK, TaskId
<1> QED
  BY <1>1, <1>3, <1>4

\* The write backs of the run loop, and its steps that write no row.
WriteBack(w) ==
    CompleteIfFresh(w) \/ CompleteSuccess(w) \/ DeferRateLimited(w) \/ CompleteFailure(w)

LocalStep(w) ==
    \/ StartLookup(w) \/ DropResult(w) \/ CrashWorker(w)
    \/ \E outcome \in Outcome \ {"none"} : LookupReturns(w, outcome)

\* What a write back makes of the row: it ends it, defers it, or retries it.
Ended(old, new) ==
    new.status \in Terminal /\ new.attempts = old.attempts

Deferred(old, new, at) ==
    /\ new.status = "queued"
    /\ new.attempts = IF old.attempts > 0 THEN old.attempts - 1 ELSE 0
    /\ \E delay \in 1..MaxCooldown : new.avail = at + delay

Retried(old, new, at, attempt) ==
    /\ new.status = "queued" /\ new.attempts = old.attempts
    /\ attempt < old.max
    /\ \E delay \in 1..RetryMax : new.avail = at + delay

\* A write back rewrites the row its worker holds and lets the worker go.
LEMMA WriteBackEffect ==
    ASSUME TypeOK, NEW w \in Worker, WriteBack(w)
    PROVE  /\ Busy(w) /\ Holds(w) /\ worker' = [worker EXCEPT ![w] = Idle]
           /\ TaskId' = TaskId
           /\ \A u \in TaskId \ {worker[w].task} : task'[u] = task[u]
           /\ task'[worker[w].task].domain = task[worker[w].task].domain
           /\ task'[worker[w].task].max = task[worker[w].task].max
           /\ \/ Ended(task[worker[w].task], task'[worker[w].task])
              \/ /\ worker[w].pc = "returned"
                 /\ Deferred(task[worker[w].task], task'[worker[w].task], worker[w].at)
              \/ /\ worker[w].pc = "returned"
                 /\ Retried(task[worker[w].task], task'[worker[w].task],
                            worker[w].at, worker[w].attempt)
           /\ UNCHANGED <<now, idem, asking, answered>>
<1> DEFINE t == worker[w].task
           old == task[t]
<1>1. /\ Busy(w) /\ Holds(w) /\ worker' = [worker EXCEPT ![w] = Idle]
      /\ UNCHANGED <<now, idem, asking, answered>>
  BY DEF WriteBack, CompleteIfFresh, CompleteSuccess, DeferRateLimited,
         CompleteFailure, Settle, Busy
<1>2. t \in TaskId /\ old \in TaskRow /\ worker[w] \in WorkerState
  BY <1>1 DEF Holds, TypeOK, TaskId
<1> DEFINE Fit(row) == /\ row.domain = old.domain /\ row.max = old.max
                       /\ \/ Ended(old, row)
                          \/ worker[w].pc = "returned" /\ Deferred(old, row, worker[w].at)
                          \/ /\ worker[w].pc = "returned"
                             /\ Retried(old, row, worker[w].at, worker[w].attempt)
<1>3. ASSUME NEW row, Fit(row), task' = [task EXCEPT ![t] = row]
      PROVE  /\ TaskId' = TaskId /\ Fit(task'[t])
             /\ \A u \in TaskId \ {t} : task'[u] = task[u]
  <2>1. /\ TaskId' = TaskId /\ task'[t] = row
        /\ \A u \in TaskId \ {t} : task'[u] = task[u]
    BY <1>2, <1>3 DEF TypeOK, TaskId
  <2> QED
    BY <1>3, <2>1
<1>4. ASSUME NEW status, NEW err
      PROVE  LET row == [Released(old) EXCEPT !.status = status, !.err = err]
             IN  /\ row.domain = old.domain /\ row.max = old.max
                 /\ row.attempts = old.attempts /\ row.status = status
  BY <1>2 DEF Released, TaskRow
<1>5. ASSUME NEW err, NEW at
      PROVE  LET row == [Released(old) EXCEPT !.status = "queued", !.err = err, !.avail = at]
             IN  /\ row.domain = old.domain /\ row.max = old.max
                 /\ row.attempts = old.attempts /\ row.status = "queued" /\ row.avail = at
  BY <1>2 DEF Released, TaskRow
<1>6. CASE CompleteIfFresh(w)
  <2> DEFINE row == [Released(old) EXCEPT !.status = "info", !.err = "none"]
  <2>1. task' = [task EXCEPT ![t] = row]
    BY <1>6 DEF CompleteIfFresh
  <2>2. Fit(row)
    BY <1>4 DEF Ended, Terminal
  <2> HIDE DEF row
  <2>3. TaskId' = TaskId /\ Fit(task'[t]) /\ \A u \in TaskId \ {t} : task'[u] = task[u]
    BY <1>3, <2>1, <2>2
  <2> QED
    BY <1>1, <2>3
<1>7. CASE CompleteSuccess(w)
  <2> DEFINE row == [Released(old) EXCEPT !.status = "success", !.err = "none"]
  <2>1. task' = [task EXCEPT ![t] = row]
    BY <1>7 DEF CompleteSuccess, Settle
  <2>2. Fit(row)
    BY <1>4 DEF Ended, Terminal
  <2> HIDE DEF row
  <2>3. TaskId' = TaskId /\ Fit(task'[t]) /\ \A u \in TaskId \ {t} : task'[u] = task[u]
    BY <1>3, <2>1, <2>2
  <2> QED
    BY <1>1, <2>3
<1>8. CASE DeferRateLimited(w)
  <2>1. PICK delay \in 1..MaxCooldown :
          Settle(w, [Released(old) EXCEPT
            !.status = "queued", !.err = "rate_limited",
            !.attempts = IF @ > 0 THEN @ - 1 ELSE 0,
            !.avail = worker[w].at + delay])
    BY <1>8 DEF DeferRateLimited
  <2> DEFINE row == [Released(old) EXCEPT
            !.status = "queued", !.err = "rate_limited",
            !.attempts = IF @ > 0 THEN @ - 1 ELSE 0,
            !.avail = worker[w].at + delay]
  <2>2. task' = [task EXCEPT ![t] = row] /\ worker[w].pc = "returned"
    BY <2>1 DEF Settle
  <2>3. /\ row.domain = old.domain /\ row.max = old.max /\ row.status = "queued"
        /\ row.attempts = (IF old.attempts > 0 THEN old.attempts - 1 ELSE 0)
        /\ row.avail = worker[w].at + delay
    BY <1>2 DEF Released, TaskRow
  <2> HIDE DEF row
  <2>4. Fit(row)
    BY <2>2, <2>3 DEF Deferred
  <2>5. TaskId' = TaskId /\ Fit(task'[t]) /\ \A u \in TaskId \ {t} : task'[u] = task[u]
    BY <1>3, <2>2, <2>4
  <2> QED
    BY <1>1, <2>5
<1>9. CASE CompleteFailure(w)
  <2>1. CASE Retries(w)
    <3> DEFINE row == [Released(old) EXCEPT !.status = "queued", !.err = worker[w].outcome,
                            !.avail = worker[w].at + RetryDelay(worker[w].attempt)]
    <3>1. task' = [task EXCEPT ![t] = row] /\ worker[w].pc = "returned"
      BY <1>9, <2>1 DEF CompleteFailure, Settle
    <3>2. worker[w].attempt < old.max /\ RetryDelay(worker[w].attempt) \in 1..RetryMax
      BY <1>2, <2>1, RetryDelayBounded DEF Retries, WorkerState
    <3>3. Fit(row)
      BY <1>5, <3>1, <3>2 DEF Retried
    <3> HIDE DEF row
    <3>4. TaskId' = TaskId /\ Fit(task'[t]) /\ \A u \in TaskId \ {t} : task'[u] = task[u]
      BY <1>3, <3>1, <3>3
    <3> QED
      BY <1>1, <3>4
  <2>2. CASE ~Retries(w)
    <3> DEFINE row == [Released(old) EXCEPT !.status = "failed", !.err = worker[w].outcome]
    <3>1. task' = [task EXCEPT ![t] = row]
      BY <1>9, <2>2 DEF CompleteFailure, Settle
    <3>2. Fit(row)
      BY <1>4 DEF Ended, Terminal
    <3> HIDE DEF row
    <3>3. TaskId' = TaskId /\ Fit(task'[t]) /\ \A u \in TaskId \ {t} : task'[u] = task[u]
      BY <1>3, <3>1, <3>2
    <3> QED
      BY <1>1, <3>3
  <2> QED
    BY <2>1, <2>2
<1> QED
  BY <1>6, <1>7, <1>8, <1>9 DEF WriteBack

\* A step that writes no row changes one worker, who keeps its claim or drops it.
LEMMA LocalEffect ==
    ASSUME TypeOK, NEW w \in Worker, LocalStep(w)
    PROVE  /\ UNCHANGED <<now, domain, task, idem, asking, answered>>
           /\ \A v \in Worker \ {w} : worker'[v] = worker[v]
           /\ \/ worker'[w] = Idle /\ ~Holds(w)
              \/ worker'[w] = Starting
              \/ /\ worker'[w].task = worker[w].task /\ worker'[w].token = worker[w].token
                 /\ worker'[w].attempt = worker[w].attempt
                 /\ \/ /\ worker[w].pc = "claimed" /\ worker'[w].pc = "looking"
                       /\ worker'[w].at = worker[w].at
                    \/ /\ worker[w].pc = "looking" /\ worker'[w].pc = "returned"
                       /\ worker'[w].at = now
<1>1. worker[w] \in WorkerState /\ worker \in [Worker -> WorkerState]
  BY DEF TypeOK
<1>2. CASE StartLookup(w)
  BY <1>1, <1>2 DEF StartLookup, WorkerState
<1>3. CASE DropResult(w) \/ CrashWorker(w)
  BY <1>1, <1>3 DEF DropResult, CrashWorker
<1>4. ASSUME NEW outcome \in Outcome \ {"none"}, LookupReturns(w, outcome)
      PROVE  /\ UNCHANGED <<now, domain, task, idem, asking, answered>>
             /\ \A v \in Worker \ {w} : worker'[v] = worker[v]
             /\ worker'[w].task = worker[w].task /\ worker'[w].token = worker[w].token
             /\ worker'[w].attempt = worker[w].attempt
             /\ worker[w].pc = "looking" /\ worker'[w].pc = "returned"
             /\ worker'[w].at = now
  BY <1>1, <1>4 DEF LookupReturns, WorkerState
<1> QED
  BY <1>2, <1>3, <1>4 DEF LocalStep

\* A request or the scheduler adds a task; the workers see nothing of it.
RequestStep ==
    /\ \E d \in Domain, origin \in Origin, force \in BOOLEAN,
          max \in {MaxAttempts, ScheduledMaxAttempts}, u \in 1..MaxTasks :
            AddTask(d, Request(origin, force, max), u)
    /\ UNCHANGED <<now, worker>>
    /\ \A d \in Domain : domain'[d].successAt = domain[d].successAt

\* A process starts.
RestartStep ==
    /\ SpreadOverdue /\ UNCHANGED <<now, idem, asking, answered>>
    /\ \/ UNCHANGED worker
       \/ \E w \in Worker : worker[w].pc = "starting" /\ worker' = [worker EXCEPT ![w] = Idle]

\* Everything else that touches neither a row nor a worker.
QuietStep ==
    /\ UNCHANGED <<now, task, worker>>
    /\ \A d \in Domain : domain'[d].successAt = domain[d].successAt

\* Every step is of one of these kinds.
LEMMA StepKinds ==
    ASSUME TypeOK, [Next]_vars
    PROVE  \/ RequestStep \/ RestartStep \/ Tick \/ QuietStep
           \/ \E w \in Worker : Claim(w) \/ Heartbeat(w) \/ WriteBack(w) \/ LocalStep(w)
<1>1. \A d \in Domain : domain[d] \in DomainRow
  BY DEF TypeOK
<1>2. ASSUME NEW d \in Domain, NEW monitor \in BOOLEAN,
             \/ CreateDomain(d, monitor) \/ RestoreDomain(d, monitor)
             \/ UpdateDomain(d, monitor) \/ UpdateDomainAsAdmin(d, monitor)
      PROVE  RequestStep \/ QuietStep
  <2>1. \/ domain' = [domain EXCEPT ![d].monitor = monitor]
        \/ domain' = [domain EXCEPT ![d].state = "live", ![d].monitor = monitor]
    BY <1>2 DEF CreateDomain, RestoreDomain, UpdateDomain, UpdateDomainAsAdmin
  <2>2. \A e \in Domain : domain'[e].successAt = domain[e].successAt
    <3>1. domain = [e \in Domain |-> domain[e]]
      BY DEF TypeOK
    <3>2. CASE domain' = [domain EXCEPT ![d].monitor = monitor]
      BY <1>1, <3>1, <3>2 DEF DomainRow
    <3>3. CASE domain' = [domain EXCEPT ![d].state = "live", ![d].monitor = monitor]
      BY <1>1, <3>1, <3>3 DEF DomainRow
    <3> QED
      BY <2>1, <3>2, <3>3
  <2>3. UNCHANGED <<now, worker>> /\ (InitialRefresh(d) \/ UNCHANGED task)
    BY <1>2 DEF CreateDomain, RestoreDomain, UpdateDomain, UpdateDomainAsAdmin
  <2> QED
    BY <2>2, <2>3 DEF InitialRefresh, RequestStep, QuietStep, Origin
<1>3. ASSUME NEW c \in Caller, CallerStep(c)
      PROVE  RequestStep \/ QuietStep
  <2>1. UNCHANGED <<now, domain, worker>>
    BY <1>3, CallerEffect
  <2>2. ASSUME NEW d \in Domain, NEW key \in Key, NEW t \in 1..MaxTasks,
               FirstAnswer(d, key, t)
        PROVE  RequestStep
    BY <2>1, <2>2 DEF FirstAnswer, RequestStep
  <2> QED
    BY <1>3, <2>1, <2>2, CallerEffect DEF LaterAnswer, QuietStep
<1>4. CASE UserStep
  <2>1. PICK d \in Domain :
          \/ \E monitor \in BOOLEAN :
              \/ CreateDomain(d, monitor) \/ RestoreDomain(d, monitor)
              \/ UpdateDomain(d, monitor) \/ UpdateDomainAsAdmin(d, monitor)
          \/ DeleteDomain(d)
    BY <1>4 DEF UserStep
  <2>2. CASE DeleteDomain(d)
    BY <1>1, <2>2 DEF DeleteDomain, QuietStep, TypeOK, DomainRow
  <2> QED
    BY <1>2, <2>1, <2>2
<1>5. ASSUME NEW s \in Scheduler, SchedulerStep(s) \/ CrashScheduler(s)
      PROVE  RequestStep \/ RestartStep \/ QuietStep
  <2>1. CASE StartScheduler(s)
    BY <2>1 DEF StartScheduler, RestartStep
  <2>2. ASSUME NEW d \in Domain, ScheduleDue(s, d)
        PROVE  RequestStep
    <3>1. \A e \in Domain : domain'[e].successAt = domain[e].successAt
      BY <1>1, <2>2 DEF ScheduleDue, TypeOK, DomainRow
    <3> QED
      BY <2>2, <3>1 DEF ScheduleDue, RequestStep, Origin
  <2>3. CASE CrashScheduler(s)
    BY <2>3 DEF CrashScheduler, QuietStep
  <2> QED
    BY <1>5, <2>1, <2>2, <2>3 DEF SchedulerStep
<1>6. ASSUME NEW w \in Worker, WorkerStep(w) \/ Heartbeat(w) \/ CrashWorker(w)
      PROVE  RestartStep \/ Claim(w) \/ Heartbeat(w) \/ WriteBack(w) \/ LocalStep(w)
  BY <1>6 DEF WorkerStep, StartWorker, RestartStep, WriteBack, LocalStep
<1>7. CASE UNCHANGED vars
  BY <1>7 DEF vars, QuietStep
<1> QED
  BY <1>3, <1>4, <1>5, <1>6, <1>7 DEF Next

-----------------------------------------------------------------------------
(* What the claims and the clock tell *)

\* Neither a success nor a completion time lies in the future.
NothingAhead ==
    /\ \A d \in Domain : domain[d].successAt <= now
    /\ \A w \in Worker : worker[w].at <= now

RowLimits == \A t \in TaskId : task[t].max <= AttemptLimit

\* A worker that still holds its task knows the row's attempt count, and the
\* result it brings is no older than the last success of the domain.
ClaimsAgree ==
    \A w \in Worker : Busy(w) /\ Holds(w) =>
        /\ worker[w].attempt = task[worker[w].task].attempts
        /\ worker[w].attempt > 0
        /\ worker[w].pc = "returned"
           => worker[w].at >= domain[task[worker[w].task].domain].successAt

\* Without stalls, a busy worker has not lost its lease.
LeasesLive ==
    ~Stalls => \A w \in Worker :
                  Busy(w) => Holds(w) /\ task[worker[w].task].lease > now

ClockInv == IInv /\ NothingAhead /\ RowLimits /\ ClaimsAgree

\* What a worker does in a step.
LEMMA WorkerMoves ==
    ASSUME TypeOK, [Next]_vars, NEW w \in Worker
    PROVE  \/ worker'[w] = worker[w]
           \/ Claim(w) \/ LocalStep(w)
           \/ worker'[w] = Idle
<1>1. CASE RequestStep \/ QuietStep \/ Tick
  BY <1>1 DEF RequestStep, QuietStep, Tick
<1>2. CASE RestartStep
  BY <1>2 DEF RestartStep, TypeOK
<1>3. ASSUME NEW v \in Worker, Claim(v) \/ LocalStep(v), v # w
      PROVE  worker'[w] = worker[w]
  BY <1>3, ClaimEffect, LocalEffect
<1>4. ASSUME NEW v \in Worker, Heartbeat(v)
      PROVE  worker'[w] = worker[w]
  BY <1>4, HeartbeatEffect
<1>5. ASSUME NEW v \in Worker, WriteBack(v)
      PROVE  worker'[w] = worker[w] \/ worker'[w] = Idle
  BY <1>5, WriteBackEffect DEF TypeOK
<1> QED
  BY <1>1, <1>2, <1>3, <1>4, <1>5, StepKinds

\* Nobody comes to hold a task with a token it already had: a worker that holds
\* its row after a step it did not claim in has held it before.
LEMMA HeldBefore ==
    ASSUME IInv, [Next]_vars, NEW w \in Worker,
           worker'[w].task = worker[w].task, worker'[w].token = worker[w].token,
           Holds(w)'
    PROVE  /\ Holds(w)
           /\ task'[worker[w].task].attempts = task[worker[w].task].attempts
           /\ task'[worker[w].task].domain = task[worker[w].task].domain
<1> DEFINE t == worker[w].task
           Same == /\ t \in TaskId
                   /\ task'[t].status = task[t].status /\ task'[t].token = task[t].token
                   /\ task'[t].attempts = task[t].attempts
                   /\ task'[t].domain = task[t].domain
<1>1. t \in TaskId' /\ task'[t].status = "running" /\ task'[t].token = worker[w].token
  BY DEF Holds
<1>2. SUFFICES Same
  BY <1>1 DEF Holds
<1>3. TypeOK /\ \A u \in TaskId : task[u] \in TaskRow
  BY DEF IInv, TypeOK, TaskId
<1>4. CASE RequestStep
  <2>1. PICK d \in Domain, origin \in Origin, force \in BOOLEAN,
             max \in {MaxAttempts, ScheduledMaxAttempts}, u \in 1..MaxTasks :
                AddTask(d, Request(origin, force, max), u)
    BY <1>4 DEF RequestStep
  <2> DEFINE req == Request(origin, force, max)
  <2>2. NewRow(d, req).status = "queued"
    BY DEF NewRow
  <2>3. u \in Nat
    BY PolicyAssumption
  <2>4. t \in TaskId /\ (task'[t] = task[t] \/ task'[t] = Merge(task[t], req))
    <3> HIDE DEF req
    <3> QED
      BY <1>1, <1>3, <2>1, <2>2, <2>3, AddTaskEffect DEF req
  <2> QED
    BY <1>3, <2>4, MergeFields
<1>5. CASE RestartStep
  <2>1. t \in TaskId
    BY <1>1, <1>3, <1>5, SpreadEffect DEF RestartStep
  <2>2. CASE task'[t] = task[t]
    BY <2>1, <2>2
  <2>3. ASSUME NEW at \in (now + 1)..(now + Interval), task'[t] = Spread(task[t], at)
        PROVE  Same
    <3>1. at \in Time
      BY <1>3, <2>3, PolicyAssumption DEF TypeOK, Time
    <3> QED
      BY <1>1, <1>3, <2>1, <2>3, <3>1, SpreadFields
  <2> QED
    BY <1>3, <1>5, <2>1, <2>2, <2>3, SpreadEffect DEF RestartStep
<1>6. CASE QuietStep \/ Tick
  BY <1>1, <1>6 DEF QuietStep, Tick, TaskId
<1>7. ASSUME NEW v \in Worker, Claim(v)
      PROVE  Same
  <2>1. PICK u \in TaskId, k \in Token :
          /\ Unused(k) /\ TaskId' = TaskId /\ task'[u].token = k
          /\ \A x \in TaskId \ {u} : task'[x] = task[x]
    BY <1>3, <1>7, ClaimEffect
  <2>2. worker[w].token # k
    BY <2>1 DEF Unused
  <2> QED
    BY <1>1, <2>1, <2>2
<1>8. ASSUME NEW v \in Worker, Heartbeat(v)
      PROVE  Same
  BY <1>1, <1>3, <1>8, HeartbeatEffect
<1>9. ASSUME NEW v \in Worker, WriteBack(v)
      PROVE  Same
  <2>1. CASE t = worker[v].task
    BY <1>1, <1>3, <1>9, <2>1, WriteBackEffect DEF Ended, Deferred, Retried, Terminal
  <2>2. CASE t # worker[v].task
    BY <1>1, <1>3, <1>9, <2>2, WriteBackEffect
  <2> QED
    BY <2>1, <2>2
<1>10. ASSUME NEW v \in Worker, LocalStep(v)
       PROVE  Same
  BY <1>1, <1>3, <1>10, LocalEffect DEF TaskId
<1> QED
  BY <1>3, <1>4, <1>5, <1>6, <1>7, <1>8, <1>9, <1>10, StepKinds

\* Only a success moves the time of the last success, to its completion time.
LEMMA SuccessMoves ==
    ASSUME TypeOK, [Next]_vars, NEW d \in Domain
    PROVE  \/ domain'[d].successAt = domain[d].successAt
           \/ \E w \in Worker : /\ CompleteSuccess(w)
                                /\ task[worker[w].task].domain = d
                                /\ domain'[d].successAt = worker[w].at
<1>1. domain[d] \in DomainRow /\ domain \in [Domain -> DomainRow]
  BY DEF TypeOK
<1>2. CASE RequestStep \/ QuietStep \/ Tick
  BY <1>2 DEF RequestStep, QuietStep, Tick
<1>3. CASE RestartStep
  BY <1>3, SpreadEffect DEF RestartStep
<1>4. ASSUME NEW w \in Worker, Claim(w) \/ Heartbeat(w) \/ LocalStep(w)
      PROVE  domain'[d].successAt = domain[d].successAt
  BY <1>4, ClaimEffect, HeartbeatEffect, LocalEffect
<1>5. ASSUME NEW w \in Worker, WriteBack(w)
      PROVE  \/ domain'[d].successAt = domain[d].successAt
             \/ /\ CompleteSuccess(w) /\ task[worker[w].task].domain = d
                /\ domain'[d].successAt = worker[w].at
  <2>1. CASE CompleteIfFresh(w)
    BY <1>1, <2>1 DEF CompleteIfFresh, DomainRow
  <2>2. CASE DeferRateLimited(w) \/ CompleteFailure(w)
    BY <2>2 DEF DeferRateLimited, CompleteFailure
  <2>3. CASE CompleteSuccess(w)
    <3>1. PICK next : domain' = [domain EXCEPT ![task[worker[w].task].domain] =
                        [@ EXCEPT !.successAt = worker[w].at, !.nextCheck = next]]
      BY <2>3 DEF CompleteSuccess
    <3> QED
      BY <1>1, <2>3, <3>1 DEF DomainRow
  <2> QED
    BY <1>5, <2>1, <2>2, <2>3 DEF WriteBack
<1> QED
  BY <1>2, <1>3, <1>4, <1>5, StepKinds

\* Two workers that hold tasks of one domain are the same worker.
LEMMA OneHolderPerDomain ==
    ASSUME IInv, NEW v \in Worker, NEW w \in Worker, Holds(v), Holds(w),
           task[worker[v].task].domain = task[worker[w].task].domain
    PROVE  v = w
<1>1. worker[v].task = worker[w].task
  BY DEF Holds, IInv, OneActiveTask, Unfinished
<1>2. worker[v].token = worker[w].token /\ worker[v].token # NoToken
  BY <1>1 DEF Holds, IInv, LeaseFencesTask, Leased
<1> QED
  BY <1>2 DEF IInv, OneProcessPerToken

LEMMA NothingAheadKept ==
    ASSUME IInv, NothingAhead, [Next]_vars
    PROVE  NothingAhead'
<1>1. TypeOK /\ now \in Nat /\ now' \in Nat /\ now' >= now
  <2>1. TypeOK /\ TypeOK'
    BY NextKeepsIInv DEF IInv
  <2>2. now' = now \/ now' = now + 1
    BY <2>1, StepKinds, ClaimEffect, HeartbeatEffect, WriteBackEffect, LocalEffect
       DEF RequestStep, RestartStep, QuietStep, Tick
  <2> QED
    BY <2>1, <2>2 DEF TypeOK, Time
<1>2. ASSUME NEW d \in Domain
      PROVE  domain'[d].successAt <= now'
  <2>1. domain[d].successAt <= now /\ domain[d].successAt \in Nat \cup {NoTime}
    BY <1>1 DEF NothingAhead, TypeOK, DomainRow, Time
  <2>2. \A w \in Worker : worker[w].at <= now /\ worker[w].at \in Nat
    BY <1>1 DEF NothingAhead, TypeOK, WorkerState, Time
  <2> QED
    BY <1>1, <2>1, <2>2, SuccessMoves DEF NoTime
<1>3. ASSUME NEW w \in Worker
      PROVE  worker'[w].at <= now'
  <2>1. worker[w].at <= now /\ worker[w].at \in Nat
    BY <1>1 DEF NothingAhead, TypeOK, WorkerState, Time
  <2>2. Idle.at = 0 /\ Starting.at = 0
    BY DEF Idle, Starting
  <2>3. worker'[w].at \in {worker[w].at, 0, now}
    BY <1>1, <2>2, WorkerMoves, ClaimEffect, LocalEffect
  <2> QED
    BY <1>1, <2>1, <2>3
<1> QED
  BY <1>2, <1>3 DEF NothingAhead

\* A row keeps its domain and its limit for good; a new one has one of the two
\* limits.
LEMMA RowsKept ==
    ASSUME TypeOK, [Next]_vars
    PROVE  /\ \A t \in TaskId : /\ t \in TaskId'
                                /\ task'[t].domain = task[t].domain
                                /\ task'[t].max = task[t].max
           /\ \A t \in TaskId' \ TaskId : task'[t].max \in {MaxAttempts, ScheduledMaxAttempts}
<1>1. \A t \in TaskId : task[t] \in TaskRow
  BY DEF TypeOK, TaskId
<1>2. CASE RequestStep
  <2>1. PICK d \in Domain, origin \in Origin, force \in BOOLEAN,
             max \in {MaxAttempts, ScheduledMaxAttempts}, u \in 1..MaxTasks :
                AddTask(d, Request(origin, force, max), u)
    BY <1>2 DEF RequestStep
  <2> DEFINE req == Request(origin, force, max)
  <2>2. NewRow(d, req).max = max
    BY DEF NewRow, Request
  <2>3. u \in Nat
    BY PolicyAssumption
  <2>4. /\ \A t \in TaskId :
              t \in TaskId' /\ (task'[t] = task[t] \/ task'[t] = Merge(task[t], req))
        /\ \A t \in TaskId' \ TaskId : task'[t] = NewRow(d, req)
    <3> HIDE DEF req
    <3> QED
      BY <2>1, <2>3, AddTaskEffect DEF req
  <2> QED
    BY <1>1, <2>2, <2>4, MergeFields
<1>3. CASE RestartStep
  <2>1. TaskId' = TaskId
    BY <1>3, SpreadEffect DEF RestartStep
  <2>2. ASSUME NEW t \in TaskId, NEW at \in (now + 1)..(now + Interval),
               task'[t] = Spread(task[t], at)
        PROVE  task'[t].domain = task[t].domain /\ task'[t].max = task[t].max
    <3>1. at \in Time
      BY <2>2, PolicyAssumption DEF TypeOK, Time
    <3> QED
      BY <1>1, <2>2, <3>1, SpreadFields
  <2> QED
    BY <1>3, <2>1, <2>2, SpreadEffect DEF RestartStep
<1>4. CASE QuietStep \/ Tick
  BY <1>4 DEF QuietStep, Tick, TaskId
<1>5. ASSUME NEW w \in Worker, Claim(w)
      PROVE  TaskId' = TaskId /\ \A t \in TaskId : /\ task'[t].domain = task[t].domain
                                                   /\ task'[t].max = task[t].max
  BY <1>5, ClaimEffect
<1>6. ASSUME NEW w \in Worker, Heartbeat(w)
      PROVE  TaskId' = TaskId /\ \A t \in TaskId : /\ task'[t].domain = task[t].domain
                                                   /\ task'[t].max = task[t].max
  BY <1>6, HeartbeatEffect
<1>7. ASSUME NEW w \in Worker, WriteBack(w)
      PROVE  TaskId' = TaskId /\ \A t \in TaskId : /\ task'[t].domain = task[t].domain
                                                   /\ task'[t].max = task[t].max
  BY <1>7, WriteBackEffect
<1>8. ASSUME NEW w \in Worker, LocalStep(w)
      PROVE  TaskId' = TaskId /\ \A t \in TaskId : /\ task'[t].domain = task[t].domain
                                                   /\ task'[t].max = task[t].max
  BY <1>8, LocalEffect DEF TaskId
<1> QED
  BY <1>2, <1>3, <1>4, <1>5, <1>6, <1>7, <1>8, StepKinds

LEMMA ClaimsAgreeKept ==
    ASSUME ClockInv, [Next]_vars
    PROVE  ClaimsAgree'
<1> SUFFICES ASSUME NEW w \in Worker, Busy(w)', Holds(w)'
             PROVE  /\ worker'[w].attempt = task'[worker'[w].task].attempts
                    /\ worker'[w].attempt > 0
                    /\ worker'[w].pc = "returned"
                       => worker'[w].at >= domain'[task'[worker'[w].task].domain].successAt
  BY DEF ClaimsAgree
<1>1. TypeOK /\ IInv /\ worker[w] \in WorkerState
  BY DEF ClockInv, IInv, TypeOK
<1>2. CASE Claim(w)
  <2>1. PICK t \in TaskId :
          /\ task'[t].attempts = task[t].attempts + 1 /\ worker'[w].task = t
          /\ worker'[w].attempt = task[t].attempts + 1 /\ worker'[w].pc = "claimed"
    BY <1>1, <1>2, ClaimEffect
  <2>2. task[t] \in TaskRow
    BY <1>1 DEF TypeOK, TaskId
  <2> QED
    BY <2>1, <2>2 DEF TaskRow
<1> DEFINE Kept == /\ worker'[w].task = worker[w].task
                   /\ worker'[w].token = worker[w].token
                   /\ worker'[w].attempt = worker[w].attempt
<1>3. ASSUME Kept, Busy(w)
      PROVE  /\ Holds(w)
             /\ worker'[w].attempt = task'[worker'[w].task].attempts
             /\ worker'[w].attempt > 0
             /\ task'[worker'[w].task].domain = task[worker[w].task].domain
             /\ task[worker[w].task].domain \in Domain
  <2>1. /\ Holds(w)
        /\ task'[worker[w].task].attempts = task[worker[w].task].attempts
        /\ task'[worker[w].task].domain = task[worker[w].task].domain
    BY <1>1, <1>3, HeldBefore
  <2>2. worker[w].task \in TaskId /\ task[worker[w].task] \in TaskRow
    BY <1>1, <2>1 DEF Holds, TypeOK, TaskId
  <2> QED
    BY <1>3, <2>1, <2>2 DEF ClockInv, ClaimsAgree, TaskRow
<1>4. CASE worker'[w] = worker[w]
  <2>1. Kept /\ Busy(w)
    BY <1>4 DEF Busy
  <2> DEFINE d == task[worker[w].task].domain
  <2>2. ASSUME worker[w].pc = "returned"
        PROVE  worker[w].at >= domain'[d].successAt
    <3>1. domain'[d].successAt = domain[d].successAt
      <4>1. ASSUME NEW v \in Worker, CompleteSuccess(v), task[worker[v].task].domain = d
            PROVE  FALSE
        <5>1. Holds(v) /\ worker' = [worker EXCEPT ![v] = Idle]
          BY <4>1 DEF CompleteSuccess, Settle
        <5>2. v = w
          BY <1>1, <1>3, <2>1, <4>1, <5>1, OneHolderPerDomain
        <5>3. worker'[w].pc = "idle"
          BY <1>1, <5>1, <5>2 DEF TypeOK, Idle, Starting
        <5> QED
          BY <1>4, <2>2, <5>3
      <4> QED
        BY <1>1, <1>3, <2>1, <4>1, SuccessMoves
    <3> QED
      BY <1>3, <2>1, <2>2, <3>1 DEF ClockInv, ClaimsAgree
  <2> QED
    BY <1>3, <1>4, <2>1, <2>2
<1>5. CASE LocalStep(w)
  <2>1. worker'[w] # Idle /\ worker'[w] # Starting
    BY DEF Busy, Idle, Starting
  <2>2. Kept /\ Busy(w) /\ UNCHANGED <<domain, now>>
    BY <1>1, <1>5, <2>1, LocalEffect DEF Busy
  <2>3. worker'[w].pc = "returned" => worker'[w].at = now
    BY <1>1, <1>5, <2>1, LocalEffect
  <2>4. domain[task[worker[w].task].domain].successAt <= now
    BY <1>3, <2>2 DEF ClockInv, NothingAhead
  <2>5. now \in Nat /\ domain[task[worker[w].task].domain].successAt \in Nat \cup {NoTime}
    BY <1>1, <1>3, <2>2 DEF TypeOK, DomainRow, Time
  <2> QED
    BY <1>3, <2>2, <2>3, <2>4, <2>5 DEF NoTime
<1>6. CASE worker'[w] = Idle
  BY <1>6 DEF Busy, Idle, Starting
<1> QED
  BY <1>1, <1>2, <1>4, <1>5, <1>6, WorkerMoves

LEMMA ClockInvKept == ClockInv /\ [Next]_vars => ClockInv'
<1> SUFFICES ASSUME ClockInv, [Next]_vars PROVE ClockInv'
  OBVIOUS
<1>1. IInv' /\ NothingAhead'
  BY NextKeepsIInv, NothingAheadKept DEF ClockInv
<1>2. ASSUME NEW t \in TaskId'
      PROVE  task'[t].max <= AttemptLimit
  BY <1>2, RowsKept, PolicyAssumption DEF ClockInv, IInv, RowLimits, AttemptLimit
<1>3. RowLimits'
  BY <1>2 DEF RowLimits
<1> QED
  BY <1>1, <1>3, ClaimsAgreeKept DEF ClockInv

\* The second layer of the invariant: what holders know, and when.
THEOREM ClockSafety == Spec => []ClockInv
<1>1. Init => ClockInv
  <2> SUFFICES ASSUME Init PROVE ClockInv
    OBVIOUS
  <2>1. IInv /\ TaskId = {}
    BY InitEstablishesIInv DEF Init, TaskId
  <2>2. NothingAhead
    BY DEF Init, NothingAhead, NoTime, Starting
  <2> QED
    BY <2>1, <2>2 DEF ClockInv, RowLimits, ClaimsAgree, Holds
<1> QED
  BY <1>1, ClockInvKept, PTL DEF Spec

-----------------------------------------------------------------------------
(* What the domains and the keys are promised *)

\* The time of the last success never goes back: the worker that writes one
\* holds the domain's only task, and read its completion time after the claim.
THEOREM SuccessNeverRegressesHolds == Spec => SuccessNeverRegresses
<1>1. ClockInv /\ [Next]_vars
      => [\A d \in Domain : domain'[d].successAt >= domain[d].successAt]_vars
  <2> SUFFICES ASSUME ClockInv, [Next]_vars, NEW d \in Domain
               PROVE  domain'[d].successAt >= domain[d].successAt
    OBVIOUS
  <2>1. TypeOK /\ domain[d].successAt \in Int
    BY DEF ClockInv, IInv, TypeOK, DomainRow, Time, NoTime
  <2>2. ASSUME NEW w \in Worker, CompleteSuccess(w), task[worker[w].task].domain = d
        PROVE  worker[w].at >= domain[d].successAt
    BY <2>2 DEF CompleteSuccess, Settle, Busy, ClockInv, ClaimsAgree
  <2> QED
    BY <2>1, <2>2, SuccessMoves
<1> QED
  BY <1>1, ClockSafety, PTL DEF Spec, SuccessNeverRegresses

\* The next check after "at" keeps the phase and lies after "at".
LEMMA AdvanceKeepsPhase ==
    ASSUME NEW row \in DomainRow, NEW at \in Time, row.nextCheck # NoTime
    PROVE  /\ Advance(row, at) > at
           /\ (Advance(row, at) - row.nextCheck) % Interval = 0
<1>1. row.nextCheck \in Nat
  BY DEF DomainRow, Time
<1>2. CASE row.nextCheck <= at
  BY <1>1, <1>2, NextPhaseAdvances DEF Advance, Time
<1>3. CASE ~(row.nextCheck <= at)
  <2>1. Advance(row, at) = row.nextCheck
    BY <1>3 DEF Advance
  <2>2. row.nextCheck - row.nextCheck = 0 /\ 0 % Interval = 0
    BY <1>1, PolicyAssumption
  <2> QED
    BY <1>1, <1>3, <2>1, <2>2 DEF Time
<1> QED
  BY <1>2, <1>3

\* A running task ends in a write back of the worker that holds it.
LEMMA EndsByWriteBack ==
    ASSUME IInv, [Next]_vars, NEW t \in TaskId, task[t].status = "running",
           task'[t].status \in Terminal
    PROVE  \E w \in Worker : WriteBack(w) /\ worker[w].task = t
<1>1. TypeOK /\ task[t] \in TaskRow
  BY DEF IInv, TypeOK, TaskId
<1>2. ~RequestStep
  <2> SUFFICES ASSUME NEW d \in Domain, NEW req, NEW u \in 1..MaxTasks, AddTask(d, req, u)
               PROVE  FALSE
    BY DEF RequestStep
  <2> QED
    BY <1>1, AddTaskEffect, PolicyAssumption DEF Terminal
<1>3. ~RestartStep
  <2>1. ASSUME NEW at \in (now + 1)..(now + Interval), task'[t] = Spread(task[t], at)
        PROVE  FALSE
    <3>1. at \in Time
      BY <1>1, <2>1, PolicyAssumption DEF TypeOK, Time
    <3> QED
      BY <1>1, <2>1, <3>1, SpreadFields DEF Terminal
  <2> QED
    BY <1>1, <2>1, SpreadEffect DEF RestartStep, Terminal
<1>4. ASSUME NEW w \in Worker, Claim(w) \/ Heartbeat(w) \/ LocalStep(w)
      PROVE  FALSE
  BY <1>1, <1>4, ClaimEffect, HeartbeatEffect, LocalEffect DEF Terminal
<1>5. ~QuietStep /\ ~Tick
  BY DEF QuietStep, Tick, Terminal
<1>6. PICK w \in Worker : WriteBack(w)
  BY <1>1, <1>2, <1>3, <1>4, <1>5, StepKinds
<1> QED
  BY <1>1, <1>6, WriteBackEffect DEF Terminal

\* An automatic check that ends well leaves the domain on its phase, due after
\* its completion.
THEOREM AutomaticChecksKeepPhaseHolds == Spec => AutomaticChecksKeepPhase
<1>1. ASSUME ClockInv, [Next]_vars, NEW t \in TaskId,
             task[t].status = "running", task[t].origin = "scheduled",
             task'[t].status \in {"success", "info"},
             domain[task[t].domain].nextCheck # NoTime
      PROVE  /\ (domain'[task[t].domain].nextCheck
                 - domain[task[t].domain].nextCheck) % Interval = 0
             /\ domain'[task[t].domain].nextCheck
                  > IF task'[t].status = "info" THEN now ELSE domain'[task[t].domain].successAt
  <2> DEFINE d == task[t].domain
  <2>1. /\ IInv /\ TypeOK /\ task[t] \in TaskRow /\ now \in Time
        /\ domain \in [Domain -> DomainRow] /\ task \in Seq(TaskRow)
    BY <1>1 DEF ClockInv, IInv, TypeOK, TaskId
  <2>2. d \in Domain /\ domain[d] \in DomainRow
    BY <2>1 DEF TaskRow
  <2>3. PICK w \in Worker : WriteBack(w) /\ worker[w].task = t
    BY <1>1, <2>1, EndsByWriteBack DEF Terminal
  <2>4. worker[w].at \in Time /\ domain[d].successAt <= now
        /\ domain[d].successAt \in Int
    BY <1>1, <2>1, <2>2 DEF TypeOK, WorkerState, ClockInv, NothingAhead, DomainRow, Time, NoTime
  <2>5. CASE CompleteIfFresh(w)
    <3> DEFINE next == Advance(domain[d], now)
    <3>1. domain' = [domain EXCEPT ![d].nextCheck = next]
      BY <1>1, <2>3, <2>5 DEF CompleteIfFresh
    <3>2. next > now /\ (next - domain[d].nextCheck) % Interval = 0 /\ next \in Int
      BY <1>1, <2>1, <2>2, AdvanceKeepsPhase, AdvanceType DEF Time, NoTime
    <3> HIDE DEF next
    <3>3. domain'[d].nextCheck = next
      BY <2>1, <2>2, <3>1 DEF DomainRow
    <3>4. task'[t].status = "info"
      <4> DEFINE row == [Released(task[t]) EXCEPT !.status = "info", !.err = "none"]
      <4>1. row.status = "info"
        BY <2>1 DEF Released, TaskRow
      <4>2. task' = [task EXCEPT ![t] = row]
        BY <2>3, <2>5 DEF CompleteIfFresh
      <4> HIDE DEF row
      <4> QED
        BY <2>1, <4>1, <4>2 DEF TaskId
    <3> QED
      BY <3>2, <3>3, <3>4
  <2>6. CASE CompleteSuccess(w)
    <3> DEFINE next == Advance(domain[d], worker[w].at)
    <3>1. domain' = [domain EXCEPT ![d] =
                        [@ EXCEPT !.successAt = worker[w].at, !.nextCheck = next]]
      BY <1>1, <2>2, <2>3, <2>6 DEF CompleteSuccess, DomainRow
    <3>2. /\ next > worker[w].at /\ (next - domain[d].nextCheck) % Interval = 0
      BY <1>1, <2>2, <2>4, AdvanceKeepsPhase
    <3> HIDE DEF next
    <3>3. domain'[d].nextCheck = next /\ domain'[d].successAt = worker[w].at
      BY <2>1, <2>2, <3>1 DEF DomainRow
    <3>4. task'[t].status = "success"
      <4> DEFINE row == [Released(task[t]) EXCEPT !.status = "success", !.err = "none"]
      <4>1. row.status = "success"
        BY <2>1 DEF Released, TaskRow
      <4>2. task' = [task EXCEPT ![t] = row]
        BY <2>3, <2>6 DEF CompleteSuccess, Settle
      <4> HIDE DEF row
      <4> QED
        BY <2>1, <4>1, <4>2 DEF TaskId
    <3> QED
      BY <3>2, <3>3, <3>4
  <2>7. ~DeferRateLimited(w)
    <3> SUFFICES ASSUME DeferRateLimited(w) PROVE FALSE
      OBVIOUS
    <3>1. PICK delay \in 1..MaxCooldown :
            task' = [task EXCEPT ![t] = [Released(task[t]) EXCEPT
              !.status = "queued", !.err = "rate_limited",
              !.attempts = IF @ > 0 THEN @ - 1 ELSE 0,
              !.avail = worker[w].at + delay]]
      BY <2>3 DEF DeferRateLimited, Settle
    <3> DEFINE row == [Released(task[t]) EXCEPT
              !.status = "queued", !.err = "rate_limited",
              !.attempts = IF @ > 0 THEN @ - 1 ELSE 0,
              !.avail = worker[w].at + delay]
    <3>2. row.status = "queued"
      BY <2>1 DEF Released, TaskRow
    <3> HIDE DEF row
    <3>3. task'[t] = row
      BY <2>1, <3>1 DEF TaskId, row
    <3> QED
      BY <1>1, <3>2, <3>3
  <2>8. ~CompleteFailure(w)
    <3> SUFFICES ASSUME CompleteFailure(w) PROVE FALSE
      OBVIOUS
    <3> DEFINE failed == [Released(task[t]) EXCEPT !.status = "failed",
                                                   !.err = worker[w].outcome]
               again == [failed EXCEPT !.status = "queued",
                            !.avail = worker[w].at + RetryDelay(worker[w].attempt)]
    <3>1. \/ task' = [task EXCEPT ![t] = failed]
          \/ task' = [task EXCEPT ![t] = again]
      BY <2>3 DEF CompleteFailure, Settle
    <3>2. failed.status = "failed" /\ again.status = "queued"
      BY <2>1 DEF Released, TaskRow
    <3> HIDE DEF failed, again
    <3>3. task'[t] = failed \/ task'[t] = again
      BY <2>1, <3>1 DEF TaskId
    <3> QED
      BY <1>1, <3>2, <3>3
  <2> QED
    BY <2>3, <2>5, <2>6, <2>7, <2>8 DEF WriteBack
<1>2. ClockInv /\ [Next]_vars
      => [\A t \in TaskId :
            LET before == domain[task[t].domain].nextCheck
                after  == domain'[task[t].domain].nextCheck
            IN  /\ task[t].status = "running" /\ task[t].origin = "scheduled"
                /\ task'[t].status \in {"success", "info"}
                /\ before # NoTime
                => /\ (after - before) % Interval = 0
                   /\ after > IF task'[t].status = "info" THEN now
                               ELSE domain'[task[t].domain].successAt]_vars
  BY <1>1
<1> QED
  BY <1>2, ClockSafety, PTL DEF Spec, AutomaticChecksKeepPhase

\* A request never brings a waiting retry or cooldown forward.  The restart of a
\* process can only move a task of a domain that is not due itself when that
\* task could be claimed already, because it is the domain's only one.
THEOREM RequestsKeepCooldownHolds == Spec => RequestsKeepCooldown
<1>1. ASSUME IInv, [Next]_vars, NEW t \in TaskId,
             task[t].status = "queued", task[t].err # "none",
             domain'[task[t].domain].nextCheck = domain[task[t].domain].nextCheck,
             task'[t].status = "queued"
      PROVE  task'[t].avail >= task[t].avail
  <2> DEFINE d == task[t].domain
  <2>1. /\ TypeOK /\ task[t] \in TaskRow /\ now \in Nat /\ d \in Domain
        /\ task[t].avail \in Nat
    <3>1. TypeOK /\ task[t] \in TaskRow
      BY <1>1 DEF IInv, TypeOK, TaskId
    <3> QED
      BY <3>1 DEF TypeOK, TaskRow, Time
  <2>2. ASSUME task'[t] = task[t]
        PROVE  task'[t].avail >= task[t].avail
    BY <2>1, <2>2
  <2>3. CASE RequestStep
    <3>1. PICK e \in Domain, origin \in Origin, force \in BOOLEAN,
               max \in {MaxAttempts, ScheduledMaxAttempts}, u \in 1..MaxTasks :
                  AddTask(e, Request(origin, force, max), u)
      BY <2>3 DEF RequestStep
    <3> DEFINE req == Request(origin, force, max)
    <3>2. task'[t] = task[t] \/ task'[t] = Merge(task[t], req)
      <4> HIDE DEF req
      <4> QED
        BY <2>1, <3>1, AddTaskEffect, PolicyAssumption DEF req
    <3>3. ~Untouched(task[t])
      BY <1>1 DEF Untouched
    <3>4. Merge(task[t], req).avail = task[t].avail
      <4> HIDE DEF req
      <4> QED
        BY <2>1, <3>3, MergeFields
    <3> QED
      BY <2>1, <3>2, <3>4
  <2>4. CASE RestartStep
    <3>1. ASSUME NEW at \in (now + 1)..(now + Interval), d \in Overdue,
                 task'[t] = Spread(task[t], at), domain'[d].nextCheck = at
          PROVE  task'[t].avail >= task[t].avail
      <4>1. at > now /\ at \in Nat
        BY <2>1, <3>1, PolicyAssumption
      <4>2. domain[d].nextCheck > now
        BY <1>1, <3>1, <4>1
      <4>3. PICK u \in TaskId : /\ task[u].domain = d
                                /\ \/ task[u].status = "queued" /\ task[u].avail <= now
                                   \/ Expired(task[u])
        <5>1. ~(domain[d].nextCheck # NoTime /\ domain[d].nextCheck <= now)
          BY <1>1, <2>1, <3>1, <4>1
        <5> QED
          BY <3>1, <5>1 DEF Overdue
      <4>4. u = t
        BY <1>1, <4>3 DEF IInv, OneActiveTask, Unfinished, Expired
      <4>5. task[t].avail <= now
        BY <1>1, <4>3, <4>4 DEF Expired
      <4>6. task'[t] = task[t] \/ task'[t].avail = at
        BY <2>1, <3>1, <4>1, SpreadFields DEF Time
      <4> QED
        BY <2>1, <2>2, <4>1, <4>5, <4>6
    <3> QED
      BY <2>1, <2>2, <2>4, <3>1, SpreadEffect DEF RestartStep
  <2>5. CASE QuietStep \/ Tick
    BY <2>2, <2>5 DEF QuietStep, Tick
  <2>6. ASSUME NEW w \in Worker, Claim(w)
        PROVE  task'[t] = task[t]
    BY <1>1, <2>1, <2>6, ClaimEffect
  <2>7. ASSUME NEW w \in Worker, Heartbeat(w) \/ WriteBack(w) \/ LocalStep(w)
        PROVE  task'[t] = task[t]
    BY <1>1, <2>1, <2>7, HeartbeatEffect, WriteBackEffect, LocalEffect DEF Holds
  <2>8. CASE \E w \in Worker : Claim(w) \/ Heartbeat(w) \/ WriteBack(w) \/ LocalStep(w)
    BY <2>2, <2>6, <2>7, <2>8
  <2> QED
    BY <1>1, <2>1, <2>3, <2>4, <2>5, <2>8, StepKinds
<1>2. IInv /\ [Next]_vars
      => [\A t \in TaskId :
            /\ task[t].status = "queued" /\ task[t].err # "none"
            /\ domain'[task[t].domain].nextCheck = domain[task[t].domain].nextCheck
            /\ task'[t].status = "queued"
            => task'[t].avail >= task[t].avail]_vars
  <2> SUFFICES ASSUME IInv, [Next]_vars, NEW t \in TaskId,
                 task[t].status = "queued", task[t].err # "none",
                 domain'[task[t].domain].nextCheck = domain[task[t].domain].nextCheck,
                 task'[t].status = "queued"
               PROVE  task'[t].avail >= task[t].avail
    OBVIOUS
  <2> QED
    BY <1>1
<1> QED
  BY <1>2, Safety, PTL DEF Spec, RequestsKeepCooldown

\* A record of a key names a task of the domain it was asked for, and every
\* answer given for the key is the one on record.
KeysNameTasks ==
    \A r \in Domain \X Key :
        /\ idem[r] = 0 => answered[r] = {}
        /\ idem[r] # 0 => /\ idem[r] \in TaskId /\ task[idem[r]].domain = r[1]
                          /\ answered[r] \subseteq {idem[r]}

\* Only a request that finds no record of its key under the lock writes one,
\* for the task it was given.
LEMMA KeySteps ==
    ASSUME TypeOK, [Next]_vars
    PROVE  \/ UNCHANGED <<idem, answered>>
           \/ \E d \in Domain, key \in Key : LaterAnswer(d, key)
           \/ \E d \in Domain, key \in Key, t \in 1..MaxTasks : FirstAnswer(d, key, t)
<1>1. ASSUME NEW c \in Caller, CallerStep(c)
      PROVE  \/ UNCHANGED <<idem, answered>>
             \/ \E d \in Domain, key \in Key :
                  LaterAnswer(d, key) \/ \E t \in 1..MaxTasks : FirstAnswer(d, key, t)
  BY <1>1, CallerEffect
<1>2. CASE UserStep
  BY <1>2 DEF UserStep, CreateDomain, RestoreDomain, UpdateDomain, UpdateDomainAsAdmin,
              DeleteDomain
<1>3. ASSUME NEW s \in Scheduler, SchedulerStep(s) \/ CrashScheduler(s)
      PROVE  UNCHANGED <<idem, answered>>
  BY <1>3 DEF SchedulerStep, StartScheduler, ScheduleDue, CrashScheduler
<1>4. ASSUME NEW w \in Worker, WorkerStep(w) \/ Heartbeat(w) \/ CrashWorker(w)
      PROVE  UNCHANGED <<idem, answered>>
  BY <1>4, ClaimEffect, HeartbeatEffect, WriteBackEffect, LocalEffect
     DEF WorkerStep, StartWorker, WriteBack, LocalStep
<1>5. CASE Tick \/ UNCHANGED vars
  BY <1>5 DEF Tick, vars
<1> QED
  BY <1>1, <1>2, <1>3, <1>4, <1>5 DEF Next

LEMMA KeysKeepNaming ==
    ASSUME IInv, KeysNameTasks, [Next]_vars
    PROVE  KeysNameTasks'
<1>1. /\ TypeOK /\ idem \in [Domain \X Key -> Nat]
      /\ answered \in [Domain \X Key -> SUBSET Nat]
  BY DEF IInv, TypeOK, IdempotencyRecord
<1>2. ASSUME NEW u \in TaskId
      PROVE  u \in TaskId' /\ task'[u].domain = task[u].domain
  BY <1>1, RowsKept
<1>3. CASE UNCHANGED <<idem, answered>>
  BY <1>2, <1>3 DEF KeysNameTasks
<1>4. ASSUME NEW d \in Domain, NEW key \in Key, LaterAnswer(d, key)
      PROVE  KeysNameTasks'
  BY <1>1, <1>2, <1>4 DEF LaterAnswer, KeysNameTasks
<1>5. ASSUME NEW d \in Domain, NEW key \in Key, NEW t \in 1..MaxTasks,
             FirstAnswer(d, key, t)
      PROVE  KeysNameTasks'
  <2>1. t \in TaskId' /\ task'[t].domain = d /\ t # 0
    BY <1>1, <1>5, AddTaskEffect, PolicyAssumption DEF FirstAnswer
  <2>2. ASSUME NEW r \in Domain \X Key, r # <<d, key>>
        PROVE  idem'[r] = idem[r] /\ answered'[r] = answered[r]
    BY <1>1, <1>5, <2>2 DEF FirstAnswer
  <2>3. /\ idem'[<<d, key>>] = t /\ <<d, key>> \in Domain \X Key
        /\ answered'[<<d, key>>] = {t}
    BY <1>1, <1>5 DEF FirstAnswer, KeysNameTasks
  <2>4. <<d, key>>[1] = d
    OBVIOUS
  <2> QED
    BY <1>2, <2>1, <2>2, <2>3, <2>4 DEF KeysNameTasks
<1> QED
  BY <1>1, <1>3, <1>4, <1>5, KeySteps

\* All requests with one key, overlapping or repeated, are answered with one
\* task of their domain.
THEOREM KeyNamesOneTaskHolds == Spec => []KeyNamesOneTask
<1>1. Init => KeysNameTasks
  BY DEF Init, KeysNameTasks
<1>2. IInv /\ KeysNameTasks /\ [Next]_vars => KeysNameTasks'
  BY KeysKeepNaming
<1>3. IInv /\ KeysNameTasks => KeyNamesOneTask
  <2>1. IInv => DOMAIN answered = Domain \X Key
    BY DEF IInv, TypeOK
  <2> QED
    BY <2>1 DEF KeysNameTasks, KeyNamesOneTask
<1> QED
  BY <1>1, <1>2, <1>3, Safety, PTL DEF Spec

\* A held task with a live lease stays with its worker until the worker lets it
\* go: nobody claims, spreads or settles it.
LEMMA LiveClaimKept ==
    ASSUME IInv, [Next]_vars, ~Stalls, NEW w \in Worker, Busy(w), Holds(w),
           task[worker[w].task].lease > now,
           worker'[w].task = worker[w].task, worker'[w].token = worker[w].token,
           worker'[w] # Idle
    PROVE  Holds(w)' /\ task'[worker[w].task].lease > now'
<1> DEFINE t == worker[w].task
           Live == /\ t \in TaskId' /\ task'[t].status = "running"
                   /\ task'[t].token = worker[w].token /\ task'[t].lease > now'
<1>1. /\ TypeOK /\ t \in TaskId /\ task[t] \in TaskRow /\ task[t].status = "running"
      /\ task[t].token = worker[w].token /\ task[t].lease \in Nat /\ now \in Nat
  <2>1. /\ TypeOK /\ t \in TaskId /\ task[t].status = "running"
        /\ task[t].token = worker[w].token /\ now \in Nat
    BY DEF IInv, TypeOK, Holds, Time
  <2>2. task[t] \in TaskRow /\ Leased(task[t])
    BY <2>1 DEF TypeOK, TaskId, IInv, LeaseFencesTask
  <2> QED
    BY <2>1, <2>2 DEF TaskRow, Leased, Time
<1>2. ~Claimable(task[t]) /\ ~Expired(task[t])
  BY <1>1 DEF Claimable, Expired
<1>3. SUFFICES Live
  BY DEF Holds
<1>4. ASSUME t \in TaskId', task'[t] = task[t], now' = now
      PROVE  Live
  BY <1>1, <1>4
<1>5. CASE RequestStep
  <2>1. PICK d \in Domain, origin \in Origin, force \in BOOLEAN,
             max \in {MaxAttempts, ScheduledMaxAttempts}, u \in 1..MaxTasks :
                AddTask(d, Request(origin, force, max), u)
    BY <1>5 DEF RequestStep
  <2> DEFINE req == Request(origin, force, max)
  <2>2. t \in TaskId' /\ task'[t] = task[t]
    <3> HIDE DEF req
    <3> QED
      BY <1>1, <2>1, AddTaskEffect, PolicyAssumption DEF req
  <2> QED
    BY <1>4, <1>5, <2>2 DEF RequestStep
<1>6. CASE RestartStep
  <2>1. ASSUME NEW at \in (now + 1)..(now + Interval), task'[t] = Spread(task[t], at)
        PROVE  task'[t] = task[t]
    <3>1. at \in Time
      BY <1>1, <2>1, PolicyAssumption DEF Time
    <3> QED
      BY <1>1, <1>2, <2>1, <3>1, SpreadFields
  <2> QED
    BY <1>1, <1>4, <1>6, <2>1, SpreadEffect DEF RestartStep
<1>7. CASE QuietStep
  BY <1>1, <1>4, <1>7 DEF QuietStep, TaskId
<1>8. CASE Tick
  BY <1>1, <1>8 DEF Tick, TaskId
<1>9. ASSUME NEW v \in Worker, Claim(v)
      PROVE  Live
  BY <1>1, <1>2, <1>4, <1>9, ClaimEffect
<1>10. ASSUME NEW v \in Worker, Heartbeat(v)
       PROVE  Live
  <2>1. CASE t = worker[v].task
    BY <1>1, <1>10, <2>1, HeartbeatEffect, PolicyAssumption
  <2>2. CASE t # worker[v].task
    BY <1>1, <1>4, <1>10, <2>2, HeartbeatEffect
  <2> QED
    BY <2>1, <2>2
<1>11. ASSUME NEW v \in Worker, WriteBack(v)
       PROVE  Live
  <2>1. worker[v].task # t
    <3> SUFFICES ASSUME worker[v].task = t PROVE FALSE
      OBVIOUS
    <3>1. v = w
      BY <1>1, <1>11, OneHolderPerDomain, WriteBackEffect
    <3> QED
      BY <1>1, <1>11, <3>1, WriteBackEffect DEF TypeOK
  <2> QED
    BY <1>1, <1>4, <1>11, <2>1, WriteBackEffect
<1>12. ASSUME NEW v \in Worker, LocalStep(v)
       PROVE  Live
  BY <1>1, <1>4, <1>12, LocalEffect DEF TaskId
<1> QED
  BY <1>1, <1>5, <1>6, <1>7, <1>8, <1>9, <1>10, <1>11, <1>12, StepKinds

LEMMA LeasesStayLive ==
    ASSUME IInv, LeasesLive, [Next]_vars
    PROVE  LeasesLive'
<1> SUFFICES ASSUME ~Stalls, NEW w \in Worker, Busy(w)'
             PROVE  Holds(w)' /\ task'[worker'[w].task].lease > now'
  BY DEF LeasesLive
<1>1. TypeOK /\ now \in Nat
  BY DEF IInv, TypeOK, Time
<1>2. worker'[w] # Idle /\ worker'[w] # Starting
  BY DEF Busy, Idle, Starting
<1>3. ASSUME Busy(w), worker'[w].task = worker[w].task, worker'[w].token = worker[w].token
      PROVE  Holds(w)' /\ task'[worker'[w].task].lease > now'
  BY <1>2, <1>3, LiveClaimKept DEF LeasesLive
<1>4. CASE worker'[w] = worker[w]
  BY <1>3, <1>4 DEF Busy
<1>5. CASE Claim(w)
  BY <1>1, <1>5, ClaimEffect, PolicyAssumption DEF Holds
<1>6. CASE LocalStep(w)
  BY <1>1, <1>2, <1>3, <1>6, LocalEffect DEF Busy
<1> QED
  BY <1>1, <1>2, <1>4, <1>5, <1>6, WorkerMoves

\* Where every live worker renews its lease in time, a task is looked up by one
\* worker at a time.
THEOREM OneExecutorHolds == Spec => [](~Stalls => OneExecutor)
<1>1. Init => LeasesLive
  BY DEF Init, LeasesLive, Busy, Starting
<1>2. IInv /\ LeasesLive /\ [Next]_vars => LeasesLive'
  BY LeasesStayLive
<1>3. IInv /\ LeasesLive => (~Stalls => OneExecutor)
  <2> SUFFICES ASSUME IInv, LeasesLive, ~Stalls, NEW v \in Worker, NEW w \in Worker,
                      v # w, Busy(v), Busy(w), worker[v].task = worker[w].task
               PROVE  FALSE
    BY DEF OneExecutor
  <2> QED
    BY OneHolderPerDomain DEF LeasesLive
<1> QED
  BY <1>1, <1>2, <1>3, Safety, PTL DEF Spec

-----------------------------------------------------------------------------
(* The queue implements the life of each task *)

Presents(w, t) == Busy(w) /\ Holds(w) /\ worker[w].task = t

OwnersKnown ==
    /\ \A w \in Worker, t \in 1..MaxTasks : Presents(w, t) => OwnerOf(t) = w
    /\ \A t \in 1..MaxTasks : (\A w \in Worker : ~Presents(w, t)) => OwnerOf(t) = NoWorker

\* The owner of a task is the worker that presents its token, if there is one.
LEMMA OwnerIsHolder == IInv => OwnersKnown
<1> SUFFICES ASSUME IInv PROVE OwnersKnown
  OBVIOUS
<1>1. ASSUME NEW w \in Worker, NEW t \in 1..MaxTasks, Presents(w, t)
      PROVE  OwnerOf(t) = w
  <2>1. OwnerOf(t) \in Worker /\ Presents(OwnerOf(t), t)
    BY <1>1 DEF OwnerOf, Presents
  <2> HIDE DEF OwnersKnown
  <2> QED
    BY <1>1, <2>1, OneHolderPerDomain DEF Presents
<1>2. ASSUME NEW t \in 1..MaxTasks, \A w \in Worker : ~Presents(w, t)
      PROVE  OwnerOf(t) = NoWorker
  BY <1>2 DEF OwnerOf, Presents
<1> QED
  BY <1>1, <1>2 DEF OwnersKnown

LEMMA OwnerKept ==
    ASSUME OwnersKnown, OwnersKnown', NEW t \in 1..MaxTasks,
           \A w \in Worker : Presents(w, t)' <=> Presents(w, t)
    PROVE  OwnerOf(t)' = OwnerOf(t)
BY DEF OwnersKnown

\* Where a row, the clock and the owner stay, the task's life stands still.
LEMMA NothingHappens ==
    ASSUME NEW t \in 1..MaxTasks, UNCHANGED now, OwnerOf(t)' = OwnerOf(t),
           \/ t \notin TaskId /\ t \notin TaskId'
           \/ /\ t \in TaskId /\ t \in TaskId'
              /\ task'[t].status = task[t].status /\ task'[t].avail = task[t].avail
              /\ task'[t].lease = task[t].lease /\ task'[t].attempts = task[t].attempts
    PROVE  UNCHANGED Lifecycle(t)!vars
BY DEF Lifecycle!vars, StatusOf, WaitOf, LeaseOf, AttemptsOf, Inserted, Left

\* What the mapping reads is well formed.
LEMMA MappedRow ==
    ASSUME IInv, NEW t \in TaskId
    PROVE  /\ task[t] \in TaskRow /\ now \in Nat
           /\ task[t].attempts \in Nat /\ task[t].avail \in Nat
           /\ task[t].status = "running" => task[t].lease \in Nat
           /\ Inserted(t) /\ StatusOf(t) = task[t].status
           /\ AttemptsOf(t) = Smaller(task[t].attempts, AttemptLimit)
           /\ AttemptLimit \in Nat \ {0}
<1>1. task[t] \in TaskRow /\ now \in Nat /\ Leased(task[t])
  BY DEF IInv, TypeOK, TaskId, LeaseFencesTask, Time
<1>2. AttemptLimit \in Nat \ {0}
  BY PolicyAssumption DEF AttemptLimit
<1> QED
  BY <1>1, <1>2 DEF TaskRow, Time, Leased, Inserted, StatusOf, AttemptsOf

LifeStep(t) == Lifecycle(t)!Next \/ UNCHANGED Lifecycle(t)!vars

\* A request inserts the task, expedites it, or leaves it as it is.
LEMMA RequestMaps ==
    ASSUME IInv, OwnersKnown, OwnersKnown', NEW t \in 1..MaxTasks, RequestStep
    PROVE  LifeStep(t)
<1>1. PICK d \in Domain, origin \in Origin, force \in BOOLEAN,
           max \in {MaxAttempts, ScheduledMaxAttempts}, u \in 1..MaxTasks :
              AddTask(d, Request(origin, force, max), u)
  BY DEF RequestStep
<1> DEFINE req == Request(origin, force, max)
<1>2. /\ \A x \in TaskId :
            /\ x \in TaskId'
            /\ \/ task'[x] = task[x]
               \/ task[x].status = "queued" /\ task'[x] = Merge(task[x], req)
      /\ \A x \in TaskId' \ TaskId : task'[x] = NewRow(d, req)
  <2> HIDE DEF req
  <2> QED
    BY <1>1, AddTaskEffect, PolicyAssumption DEF IInv, req
<1>3. UNCHANGED <<now, worker>>
  BY DEF RequestStep
<1>4. CASE t \notin TaskId /\ t \notin TaskId'
  <2>1. OwnerOf(t)' = OwnerOf(t)
    BY <1>4, OwnerKept DEF Presents, Holds
  <2> QED
    BY <1>3, <1>4, <2>1, NothingHappens DEF LifeStep
<1>5. CASE t \notin TaskId /\ t \in TaskId'
  <2>1. /\ task'[t].status = "queued" /\ task'[t].attempts = 0
        /\ task'[t].avail = now
    BY <1>2, <1>5 DEF NewRow
  <2>2. OwnerOf(t)' = OwnerOf(t)
    BY <1>5, <2>1, OwnerKept DEF Presents, Holds
  <2>3. /\ StatusOf(t) = "absent" /\ WaitOf(t) = 0 /\ LeaseOf(t) = 0 /\ AttemptsOf(t) = 0
    BY <1>5 DEF StatusOf, WaitOf, LeaseOf, AttemptsOf, Inserted
  <2>4. /\ StatusOf(t)' = "queued" /\ LeaseOf(t)' = 0 /\ AttemptsOf(t)' = 0
    BY <1>5, <2>1, PolicyAssumption
       DEF StatusOf, LeaseOf, AttemptsOf, Inserted, Smaller, AttemptLimit
  <2>5. WaitOf(t)' = 0
    BY <1>3, <2>1, <2>4 DEF WaitOf, Left, IInv, TypeOK, Time
  <2>6. Lifecycle(t)!Insert
    BY <2>2, <2>3, <2>4, <2>5 DEF Lifecycle!Insert
  <2> QED
    BY <2>6 DEF Lifecycle!Next, LifeStep
<1>6. CASE t \in TaskId
  <2>1. task[t] \in TaskRow
    BY <1>6, MappedRow
  <2>2. /\ task'[t].status = task[t].status /\ task'[t].token = task[t].token
        /\ task'[t].lease = task[t].lease /\ task'[t].attempts = task[t].attempts
        /\ \/ task'[t].avail = task[t].avail
           \/ /\ task[t].status = "queued" /\ Untouched(task[t])
              /\ task'[t].avail = Smaller(task[t].avail, now)
    <3> HIDE DEF req
    <3> QED
      BY <1>2, <1>6, <2>1, MergeFields
  <2>3. t \in TaskId' /\ OwnerOf(t)' = OwnerOf(t)
    <3>1. t \in TaskId'
      BY <1>2, <1>6
    <3>2. \A w \in Worker : Presents(w, t)' <=> Presents(w, t)
      BY <1>3, <1>6, <2>2, <3>1 DEF Presents, Holds, Busy
    <3> QED
      BY <3>1, <3>2, OwnerKept
  <2>4. CASE task'[t].avail = task[t].avail
    BY <1>3, <1>6, <2>2, <2>3, <2>4, NothingHappens DEF LifeStep
  <2>5. CASE /\ task[t].status = "queued" /\ Untouched(task[t])
             /\ task'[t].avail = Smaller(task[t].avail, now)
    <3>1. /\ StatusOf(t) = "queued" /\ StatusOf(t)' = "queued"
          /\ LeaseOf(t)' = LeaseOf(t) /\ AttemptsOf(t)' = AttemptsOf(t)
      BY <1>6, <2>2, <2>3, <2>5 DEF StatusOf, LeaseOf, AttemptsOf, Inserted
    <3>2. AttemptsOf(t) = 0
      BY <1>6, <2>5, MappedRow DEF Untouched, Smaller
    <3>3. WaitOf(t)' = 0
      BY <1>3, <1>6, <2>5, <3>1, MappedRow DEF WaitOf, Left, Smaller
    <3>4. Lifecycle(t)!Expedite
      BY <2>3, <3>1, <3>2, <3>3 DEF Lifecycle!Expedite
    <3> QED
      BY <3>4 DEF Lifecycle!Next, LifeStep
  <2> QED
    BY <2>2, <2>4, <2>5
<1> QED
  BY <1>2, <1>4, <1>5, <1>6

\* A restart postpones the task or leaves it as it is.
LEMMA RestartMaps ==
    ASSUME IInv, OwnersKnown, OwnersKnown', NEW t \in 1..MaxTasks, RestartStep
    PROVE  LifeStep(t)
<1>1. TypeOK /\ TaskId' = TaskId /\ UNCHANGED now
  BY SpreadEffect DEF IInv, RestartStep
<1>2. \A w \in Worker : (Busy(w)' <=> Busy(w)) /\ (Busy(w) => worker'[w] = worker[w])
  <2>1. CASE UNCHANGED worker
    BY <2>1 DEF Busy
  <2>2. ASSUME NEW w \in Worker, worker[w].pc = "starting",
               worker' = [worker EXCEPT ![w] = Idle]
        PROVE  \A v \in Worker : (Busy(v)' <=> Busy(v)) /\ (Busy(v) => worker'[v] = worker[v])
    <3>1. worker'[w] = Idle /\ \A v \in Worker \ {w} : worker'[v] = worker[v]
      BY <1>1, <2>2 DEF TypeOK
    <3>2. ~Busy(w) /\ ~Busy(w)'
      BY <2>2, <3>1 DEF Busy, Idle, Starting
    <3> QED
      BY <3>1, <3>2 DEF Busy
  <2> QED
    BY <2>1, <2>2 DEF RestartStep
<1>3. CASE t \notin TaskId
  <2>1. OwnerOf(t)' = OwnerOf(t)
    BY <1>1, <1>3, OwnerKept DEF Presents, Holds
  <2> QED
    BY <1>1, <1>3, <2>1, NothingHappens DEF LifeStep
<1>4. CASE t \in TaskId /\ task'[t] = task[t]
  <2>1. \A w \in Worker : Presents(w, t)' <=> Presents(w, t)
    BY <1>1, <1>2, <1>4 DEF Presents, Holds
  <2> QED
    BY <1>1, <1>4, <2>1, OwnerKept, NothingHappens DEF LifeStep
<1>5. ASSUME t \in TaskId, NEW at \in (now + 1)..(now + Interval),
             task'[t] = Spread(task[t], at)
      PROVE  LifeStep(t)
  <2>1. at \in Time /\ now \in Nat
    BY <1>1, <1>5, PolicyAssumption DEF TypeOK, Time
  <2>2. \/ task'[t] = task[t]
        \/ /\ task[t].status = "queued" \/ Expired(task[t])
           /\ task'[t].status = "queued" /\ task'[t].avail = at
           /\ task'[t].attempts = task[t].attempts
    BY <1>5, <2>1, MappedRow, SpreadFields
  <2>3. CASE /\ task[t].status = "queued" \/ Expired(task[t])
             /\ task'[t].status = "queued" /\ task'[t].avail = at
             /\ task'[t].attempts = task[t].attempts
    <3>1. /\ StatusOf(t)' = "queued" /\ LeaseOf(t)' = 0
          /\ AttemptsOf(t)' = AttemptsOf(t)
      BY <1>1, <1>5, <2>3 DEF StatusOf, LeaseOf, AttemptsOf, Inserted
    <3>2. WaitOf(t)' \in 1..Interval
      BY <1>1, <1>5, <2>1, <2>3, <3>1, PolicyAssumption DEF WaitOf, Left
    <3>3. OwnerOf(t)' = NoWorker
      BY <2>3 DEF OwnersKnown, Presents, Holds
    <3>4. StatusOf(t) = "queued" \/ (StatusOf(t) = "running" /\ LeaseOf(t) = 0)
      BY <1>5, <2>3, MappedRow DEF Expired, LeaseOf, Left
    <3>5. Lifecycle(t)!Postpone
      BY <3>1, <3>2, <3>3, <3>4 DEF Lifecycle!Postpone, Lifecycle!LeaseOut
    <3> QED
      BY <3>5 DEF Lifecycle!Next, LifeStep
  <2> QED
    BY <1>4, <1>5, <2>2, <2>3
<1> QED
  BY <1>1, <1>3, <1>4, <1>5, SpreadEffect DEF RestartStep

\* The clock.
LEMMA TickMaps ==
    ASSUME IInv, OwnersKnown, OwnersKnown', NEW t \in 1..MaxTasks, Tick
    PROVE  LifeStep(t)
<1>1. UNCHANGED <<task, worker>> /\ now' = now + 1 /\ TaskId' = TaskId
  BY DEF Tick, TaskId
<1>2. OwnerOf(t)' = OwnerOf(t)
  BY <1>1, OwnerKept DEF Presents, Holds, Busy
<1>3. StatusOf(t)' = StatusOf(t) /\ AttemptsOf(t)' = AttemptsOf(t)
  BY <1>1 DEF StatusOf, AttemptsOf, Inserted
<1>4. ASSUME NEW at \in Nat
      PROVE  Left(at)' = IF Left(at) > 0 THEN Left(at) - 1 ELSE 0
  BY <1>1 DEF Left, IInv, TypeOK, Time
<1>5. WaitOf(t)' = IF WaitOf(t) > 0 THEN WaitOf(t) - 1 ELSE 0
  <2>1. CASE StatusOf(t) = "queued"
    <3>1. t \in TaskId /\ task[t].avail \in Nat
      BY <2>1, MappedRow DEF StatusOf, Inserted
    <3> QED
      BY <1>1, <1>3, <1>4, <2>1, <3>1 DEF WaitOf, Left
  <2>2. CASE StatusOf(t) # "queued"
    BY <1>3, <2>2 DEF WaitOf
  <2> QED
    BY <2>1, <2>2
<1>6. LeaseOf(t)' = IF LeaseOf(t) > 0 THEN LeaseOf(t) - 1 ELSE 0
  <2>1. CASE StatusOf(t) = "running"
    <3>1. t \in TaskId /\ task[t].lease \in Nat
      BY <2>1, MappedRow DEF StatusOf, Inserted
    <3> QED
      BY <1>1, <1>3, <1>4, <2>1, <3>1 DEF LeaseOf, Left
  <2>2. CASE StatusOf(t) # "running"
    BY <1>3, <2>2 DEF LeaseOf
  <2> QED
    BY <2>1, <2>2
<1>7. Lifecycle(t)!Tick
  BY <1>2, <1>3, <1>5, <1>6 DEF Lifecycle!Tick, Lifecycle!CountDown
<1> QED
  BY <1>7 DEF Lifecycle!Next, LifeStep

\* A claim is the claim of one task and nothing to the others.
LEMMA ClaimMaps ==
    ASSUME IInv, OwnersKnown, OwnersKnown', NEW t \in 1..MaxTasks,
           NEW w \in Worker, Claim(w)
    PROVE  LifeStep(t)
<1>1. PICK u \in TaskId, k \in Token :
        /\ worker[w].pc = "idle" /\ Claimable(task[u])
        /\ TaskId' = TaskId /\ \A x \in TaskId \ {u} : task'[x] = task[x]
        /\ task'[u].status = "running" /\ task'[u].token = k
        /\ task'[u].lease = now + Lease /\ task'[u].attempts = task[u].attempts + 1
        /\ \A v \in Worker \ {w} : worker'[v] = worker[v]
        /\ worker'[w].pc = "claimed" /\ worker'[w].task = u /\ worker'[w].token = k
        /\ UNCHANGED now
  BY ClaimEffect DEF IInv
<1>2. CASE t # u
  <2>1. \A v \in Worker : Presents(v, t)' <=> Presents(v, t)
    <3>1. ~Presents(w, t) /\ ~Presents(w, t)'
      BY <1>1, <1>2 DEF Presents, Busy
    <3>2. \A v \in Worker \ {w} : Presents(v, t)' <=> Presents(v, t)
      BY <1>1, <1>2 DEF Presents, Holds, Busy
    <3> QED
      BY <3>1, <3>2
  <2> QED
    BY <1>1, <1>2, <2>1, OwnerKept, NothingHappens DEF LifeStep
<1>3. CASE t = u
  <2>1. OwnerOf(t)' = w
    BY <1>1, <1>3 DEF OwnersKnown, Presents, Holds, Busy
  <2>2. StatusOf(t)' = "running" /\ WaitOf(t)' = 0
    BY <1>1, <1>3 DEF StatusOf, WaitOf, Inserted
  <2>3. LeaseOf(t)' = Lease
    BY <1>1, <1>3, <2>2, MappedRow, PolicyAssumption DEF LeaseOf, Left
  <2>4. AttemptsOf(t)' = IF AttemptsOf(t) < AttemptLimit THEN AttemptsOf(t) + 1 ELSE AttemptLimit
    <3>1. AttemptsOf(t)' = Smaller(task[t].attempts + 1, AttemptLimit)
      BY <1>1, <1>3 DEF AttemptsOf, Inserted, Smaller
    <3> QED
      BY <1>3, <3>1, MappedRow DEF Smaller
  <2>5. \/ StatusOf(t) = "queued" /\ WaitOf(t) = 0
        \/ StatusOf(t) = "running" /\ LeaseOf(t) = 0
    BY <1>1, <1>3, MappedRow DEF Claimable, Expired, WaitOf, LeaseOf, Left
  <2>6. Lifecycle(t)!Claim(w)
    BY <2>1, <2>2, <2>3, <2>4, <2>5 DEF Lifecycle!Claim, Lifecycle!LeaseOut
  <2> QED
    BY <2>6 DEF Lifecycle!Next, LifeStep
<1> QED
  BY <1>2, <1>3

\* A granted renewal renews the lease of its task.
LEMMA HeartbeatMaps ==
    ASSUME IInv, OwnersKnown, OwnersKnown', NEW t \in 1..MaxTasks,
           NEW w \in Worker, Heartbeat(w)
    PROVE  LifeStep(t)
<1>1. /\ worker[w].pc = "looking" /\ Holds(w) /\ TaskId' = TaskId
      /\ \A x \in TaskId : task'[x].status = task[x].status /\ task'[x].token = task[x].token
                           /\ task'[x].attempts = task[x].attempts
      /\ \A x \in TaskId \ {worker[w].task} : task'[x] = task[x]
      /\ task'[worker[w].task].lease = now + Lease
      /\ UNCHANGED <<now, worker>>
  BY HeartbeatEffect DEF IInv
<1>2. OwnerOf(t)' = OwnerOf(t)
  <2>1. \A v \in Worker : Presents(v, t)' <=> Presents(v, t)
    BY <1>1 DEF Presents, Holds, Busy
  <2> QED
    BY <2>1, OwnerKept
<1>3. CASE t \notin TaskId \/ t # worker[w].task
  BY <1>1, <1>2, <1>3, NothingHappens DEF LifeStep
<1>4. CASE t \in TaskId /\ t = worker[w].task
  <2>1. StatusOf(t) = "running" /\ OwnerOf(t) = w
    BY <1>1, <1>4, MappedRow DEF OwnersKnown, Presents, Busy, Holds
  <2>2. /\ StatusOf(t)' = StatusOf(t) /\ AttemptsOf(t)' = AttemptsOf(t)
        /\ WaitOf(t)' = WaitOf(t)
    BY <1>1, <1>4, <2>1 DEF StatusOf, AttemptsOf, WaitOf, Inserted
  <2>3. LeaseOf(t)' = Lease
    BY <1>1, <1>4, <2>1, <2>2, MappedRow, PolicyAssumption DEF LeaseOf, Left
  <2>4. Lifecycle(t)!Renew(w)
    BY <1>2, <2>1, <2>2, <2>3 DEF Lifecycle!Renew, Lifecycle!Owns
  <2> QED
    BY <2>4 DEF Lifecycle!Next, LifeStep
<1> QED
  BY <1>3, <1>4

\* A write back finishes, defers or retries the task of its owner.
LEMMA WriteBackMaps ==
    ASSUME ClockInv, OwnersKnown, OwnersKnown', NEW t \in 1..MaxTasks,
           NEW w \in Worker, WriteBack(w)
    PROVE  LifeStep(t)
<1>0. IInv /\ TypeOK
  BY DEF ClockInv, IInv
<1>1. /\ Busy(w) /\ Holds(w) /\ TaskId' = TaskId /\ UNCHANGED now
      /\ \A x \in TaskId \ {worker[w].task} : task'[x] = task[x]
      /\ worker' = [worker EXCEPT ![w] = Idle]
  BY <1>0, WriteBackEffect
<1>2. /\ ~Busy(w)' /\ \A v \in Worker \ {w} : worker'[v] = worker[v]
  BY <1>0, <1>1 DEF TypeOK, Busy, Idle, Starting
<1>3. CASE t # worker[w].task
  <2>1. \A v \in Worker : Presents(v, t)' <=> Presents(v, t)
    <3>1. ~Presents(w, t) /\ ~Presents(w, t)'
      BY <1>2, <1>3 DEF Presents
    <3>2. \A v \in Worker \ {w} : Presents(v, t)' <=> Presents(v, t)
      BY <1>1, <1>2, <1>3 DEF Presents, Holds, Busy
    <3> QED
      BY <3>1, <3>2
  <2> QED
    BY <1>1, <1>3, <2>1, OwnerKept, NothingHappens DEF LifeStep
<1>4. CASE t = worker[w].task
  <2> DEFINE at == worker[w].at
  <2>1. t \in TaskId /\ t \in TaskId' /\ task[t].status = "running"
    BY <1>1, <1>4 DEF Holds
  <2>2. /\ StatusOf(t) = "running" /\ OwnerOf(t) = w /\ WaitOf(t) = 0
        /\ AttemptsOf(t) = Smaller(task[t].attempts, AttemptLimit)
        /\ task[t].attempts \in Nat \ {0} /\ AttemptLimit \in Nat \ {0}
        /\ worker[w].attempt = task[t].attempts /\ task[t].max <= AttemptLimit
        /\ at \in Nat /\ now \in Nat /\ at <= now /\ task[t].max \in Nat
    <3>1. OwnerOf(t) = w
      BY <1>1, <1>4 DEF OwnersKnown, Presents
    <3>2. /\ worker[w].attempt = task[t].attempts /\ worker[w].attempt > 0
          /\ task[t].max <= AttemptLimit /\ at <= now
      BY <1>1, <1>4, <2>1 DEF ClockInv, ClaimsAgree, RowLimits, NothingAhead
    <3>3. at \in Nat
      BY <1>0 DEF TypeOK, WorkerState, Time
    <3>4. task[t].max \in Nat
      BY <1>0, <2>1, MappedRow DEF TaskRow
    <3> QED
      BY <1>0, <2>1, <3>1, <3>2, <3>3, <3>4, MappedRow DEF WaitOf
  <2>3. ASSUME task'[t].status # "running"
        PROVE  /\ StatusOf(t)' = task'[t].status /\ LeaseOf(t)' = 0
               /\ AttemptsOf(t)' = Smaller(task'[t].attempts, AttemptLimit)
               /\ OwnerOf(t)' = NoWorker
    <3>1. /\ StatusOf(t)' = task'[t].status /\ LeaseOf(t)' = 0
          /\ AttemptsOf(t)' = Smaller(task'[t].attempts, AttemptLimit)
      BY <2>1, <2>3 DEF StatusOf, LeaseOf, AttemptsOf, Inserted, Smaller
    <3>2. OwnerOf(t)' = NoWorker
      BY <2>3 DEF OwnersKnown, Presents, Holds
    <3> QED
      BY <3>1, <3>2
  <2>4. ASSUME task'[t].status = "queued", NEW limit \in Nat,
               NEW delay \in 1..limit, task'[t].avail = at + delay
        PROVE  WaitOf(t)' \in 0..limit
    <3>1. StatusOf(t)' = "queued"
      BY <2>3, <2>4
    <3> QED
      BY <1>1, <2>2, <2>4, <3>1 DEF WaitOf, Left
  <2>5. CASE Ended(task[t], task'[t])
    <3>1. task'[t].status # "running" /\ WaitOf(t)' = 0 /\ AttemptsOf(t)' = AttemptsOf(t)
      BY <2>2, <2>3, <2>5 DEF Ended, Terminal, WaitOf
    <3>2. Lifecycle(t)!Finish(w)
      BY <2>2, <2>3, <2>5, <3>1
         DEF Lifecycle!Finish, Lifecycle!Owns, Lifecycle!Release, Lifecycle!Terminal,
             Ended, Terminal
    <3> QED
      BY <3>2 DEF Lifecycle!Next, Lifecycle!Resolve, LifeStep
  <2>6. CASE Deferred(task[t], task'[t], at)
    <3>1. WaitOf(t)' \in 0..MaxCooldown
      BY <2>4, <2>6, PolicyAssumption DEF Deferred
    <3>2. task'[t].attempts = task[t].attempts - 1 /\ task'[t].status = "queued"
      BY <2>2, <2>6 DEF Deferred
    <3>3. AttemptsOf(t)' \in {AttemptsOf(t) - 1} \cup ({AttemptsOf(t)} \cap {AttemptLimit})
      <4>1. ASSUME NEW a \in Nat \ {0}, NEW limit \in Nat \ {0}
            PROVE  \/ Smaller(a - 1, limit) = Smaller(a, limit) - 1
                   \/ Smaller(a - 1, limit) = Smaller(a, limit) /\ Smaller(a, limit) = limit
        BY DEF Smaller
      <4>2. AttemptsOf(t)' = Smaller(task[t].attempts - 1, AttemptLimit)
        BY <2>3, <3>2
      <4>3. \/ AttemptsOf(t)' = AttemptsOf(t) - 1
            \/ AttemptsOf(t)' = AttemptsOf(t) /\ AttemptsOf(t) = AttemptLimit
        <5>1. task[t].attempts \in Nat \ {0} /\ AttemptLimit \in Nat \ {0}
          BY <2>2
        <5>2. AttemptsOf(t) = Smaller(task[t].attempts, AttemptLimit)
          BY <2>2
        <5> QED
          BY <4>1, <4>2, <5>1, <5>2
      <4> QED
        BY <4>3
    <3>4. Lifecycle(t)!Defer(w)
      BY <2>2, <2>3, <3>1, <3>2, <3>3 DEF Lifecycle!Defer, Lifecycle!Owns, Lifecycle!Release
    <3> QED
      BY <3>4 DEF Lifecycle!Next, Lifecycle!Resolve, LifeStep
  <2>7. CASE Retried(task[t], task'[t], at, worker[w].attempt)
    <3>1. WaitOf(t)' \in 0..RetryMax
      BY <2>4, <2>7, PolicyAssumption DEF Retried
    <3>2. /\ AttemptsOf(t) < AttemptLimit /\ task'[t].attempts = task[t].attempts
          /\ task'[t].status = "queued"
      BY <2>2, <2>7 DEF Retried, Smaller
    <3>3. Lifecycle(t)!Retry(w)
      BY <2>2, <2>3, <3>1, <3>2 DEF Lifecycle!Retry, Lifecycle!Owns, Lifecycle!Release
    <3> QED
      BY <3>3 DEF Lifecycle!Next, Lifecycle!Resolve, LifeStep
  <2> QED
    BY <1>0, <1>4, <2>5, <2>6, <2>7, WriteBackEffect
<1> QED
  BY <1>3, <1>4

\* A step that writes no row matters to a task when its owner dies.
LEMMA LocalMaps ==
    ASSUME IInv, OwnersKnown, OwnersKnown', NEW t \in 1..MaxTasks,
           NEW w \in Worker, LocalStep(w)
    PROVE  LifeStep(t)
<1>1. /\ UNCHANGED <<now, task>> /\ TaskId' = TaskId
      /\ \A v \in Worker \ {w} : worker'[v] = worker[v]
  BY LocalEffect DEF IInv, TaskId
<1>2. \A v \in Worker \ {w} : Presents(v, t)' <=> Presents(v, t)
  BY <1>1 DEF Presents, Holds, Busy
<1>3. ASSUME Presents(w, t)' <=> Presents(w, t)
      PROVE  LifeStep(t)
  <2>1. OwnerOf(t)' = OwnerOf(t)
    BY <1>2, <1>3, OwnerKept
  <2> QED
    BY <1>1, <2>1, NothingHappens DEF LifeStep
<1>4. CASE worker'[w] = Idle /\ ~Holds(w)
  BY <1>3, <1>4 DEF Presents, Busy, Idle, Starting
<1>5. CASE /\ worker'[w].task = worker[w].task /\ worker'[w].token = worker[w].token
           /\ worker[w].pc \in {"claimed", "looking"}
           /\ worker'[w].pc \in {"looking", "returned"}
  BY <1>1, <1>3, <1>5 DEF Presents, Busy, Holds
<1>6. CASE worker'[w] = Starting
  <2>1. ~Presents(w, t)'
    BY <1>6 DEF Presents, Busy, Starting
  <2>2. CASE Presents(w, t)
    <3>1. \A v \in Worker \ {w} : ~Presents(v, t)
      BY <2>2 DEF OwnersKnown
    <3>2. OwnerOf(t)' = NoWorker /\ OwnerOf(t) = w /\ w # NoWorker
      BY <1>2, <2>1, <2>2, <3>1, NoWorkerAssumption DEF OwnersKnown
    <3>3. StatusOf(t) = "running" /\ StatusOf(t)' = "running"
      BY <1>1, <2>2 DEF Presents, Holds, StatusOf, Inserted
    <3>4. WaitOf(t)' = WaitOf(t) /\ LeaseOf(t)' = LeaseOf(t) /\ AttemptsOf(t)' = AttemptsOf(t)
      BY <1>1, <3>3 DEF WaitOf, LeaseOf, AttemptsOf, Left, Inserted
    <3>5. Lifecycle(t)!Abandon
      BY <3>2, <3>3, <3>4 DEF Lifecycle!Abandon
    <3> QED
      BY <3>5 DEF Lifecycle!Next, LifeStep
  <2> QED
    BY <1>3, <2>1, <2>2
<1> QED
  BY <1>4, <1>5, <1>6, LocalEffect DEF IInv

\* Every step of the queue is a step in the life of each task, or none.
LEMMA StepMaps ==
    ASSUME ClockInv, OwnersKnown, OwnersKnown', [Next]_vars, NEW t \in 1..MaxTasks
    PROVE  LifeStep(t)
<1>1. IInv /\ TypeOK
  BY DEF ClockInv, IInv
<1>2. CASE QuietStep
  <2>1. UNCHANGED <<now, task, worker>> /\ TaskId' = TaskId
    BY <1>2 DEF QuietStep, TaskId
  <2>2. OwnerOf(t)' = OwnerOf(t)
    BY <2>1, OwnerKept DEF Presents, Holds, Busy
  <2> QED
    BY <2>1, <2>2, NothingHappens DEF LifeStep
<1> QED
  BY <1>1, <1>2, RequestMaps, RestartMaps, TickMaps, ClaimMaps, HeartbeatMaps,
     WriteBackMaps, LocalMaps, StepKinds

\* The queue implements the abstract life of every task, whoever takes the
\* steps: no claim before its time, no write back but the owner's, and no attempt
\* beyond the larger of the two limits a row can be inserted with.
THEOREM LifecycleImplemented == Spec => ImplementsLifecycle
<1>1. Init => \A t \in 1..MaxTasks : Lifecycle(t)!Init
  <2> SUFFICES ASSUME Init, NEW t \in 1..MaxTasks PROVE Lifecycle(t)!Init
    OBVIOUS
  <2>1. TaskId = {}
    BY DEF Init, TaskId
  <2>2. OwnerOf(t) = NoWorker
    BY <2>1 DEF OwnerOf, Holds
  <2> QED
    BY <2>1, <2>2 DEF Lifecycle!Init, StatusOf, WaitOf, LeaseOf, AttemptsOf, Inserted
<1>2. ClockInv => OwnersKnown
  BY OwnerIsHolder DEF ClockInv
<1>3. ClockInv /\ OwnersKnown /\ OwnersKnown' /\ [Next]_vars
      => [\A t \in 1..MaxTasks :
            Lifecycle(t)!Next \/ UNCHANGED Lifecycle(t)!vars]_vars
  BY StepMaps DEF LifeStep
<1> QED
  BY <1>1, <1>2, <1>3, ClockSafety, PTL DEF Spec, ImplementsLifecycle
=============================================================================
