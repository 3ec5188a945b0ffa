------------------------- MODULE NotificationOutbox -------------------------
(***************************************************************************)
(* Delivery from notification_outbox by notifier processes: claim under a   *)
(* lease, send to the webhook or the mail server, write the outcome back.   *)
(* There is no heartbeat: a delivery is expected to end within its lease.   *)
(* The database is PostgreSQL: SQLite has no row locks, and its deployment   *)
(* (domainsmanager-server) has one notifier only.                           *)
(* Times are kept as the time LEFT until them.                              *)
(***************************************************************************)
EXTENDS Integers, FiniteSets

CONSTANTS
    Message, NoMessage, \* notification_outbox rows, none
    Notifier,       \* notifier processes, each one message at a time
    Token, NoToken, \* lease tokens (uuid4 values), NULL
    Lease,          \* lease_duration
    MaxAttempts,    \* max_attempts
    RetryBase,      \* retry_base_delay
    RetryMax,       \* retry_max_delay
    MaxRetryAfter,  \* bound: longest Retry-After a webhook names
    MaxCrashes,     \* bound on crashes
    MaxToggles      \* bound on rule and recipient changes

ASSUME OutboxAssumption ==
    /\ Lease \in Nat \ {0} /\ MaxAttempts \in Nat \ {0}
    /\ RetryBase \in Nat /\ RetryMax \in Nat /\ MaxRetryAfter \in Nat
    /\ MaxCrashes \in Nat /\ MaxToggles \in Nat
    /\ NoToken \notin Token /\ NoMessage \notin Message

VARIABLES
    row,         \* the outbox rows
    deliverable, \* rule enabled, not deleted; an email's recipient verified
    notifier,    \* local state of each process
    stalled,     \* history: a delivery outlasted its lease
    crashes, toggles

outboxVars == <<row, deliverable, notifier, stalled, crashes, toggles>>

\* attempts counts up to MaxAttempts, although takeovers go on counting in the code:
\* the row's count is only compared with the limit, and the delay that run_once
\* computes for a count beyond it is not used.  (It overflows a timedelta from the
\* 42nd claim on; what happens after that many takeovers is left out.)
\* wait and lease: time left to available_at and lease_until.
Final == {"sent", "dead_letter", "skipped"}
Row == [status : {"pending", "running"} \cup Final, wait : Nat, lease : Nat,
        token : Token \cup {NoToken}, attempts : 0..MaxAttempts]

\* retryAfter: NoDelay without a Retry-After.
NoDelay == -1
Result == {"success", "retryable", "permanent", "suppressed"}
NotifierState ==
    [pc : {"idle", "selected", "claimed", "answered"},
     message : Message \cup {NoMessage}, token : Token \cup {NoToken},
     attempts : 0..MaxAttempts, result : Result \cup {"none"},
     retryAfter : {NoDelay} \cup 0..MaxRetryAfter]
Idle == [pc |-> "idle", message |-> NoMessage, token |-> NoToken,
         attempts |-> 0, result |-> "none", retryAfter |-> NoDelay]

-----------------------------------------------------------------------------
(* Helpers *)

Smaller(a, b) == IF a <= b THEN a ELSE b

\* _retry_delay of the application service (the minimum is by membership, so that
\* it is plainly 0..RetryMax).
RetryDelay(attempts) ==
    LET delay == RetryBase * 2^(IF attempts > 1 THEN attempts - 1 ELSE 0)
    IN  IF delay \in 0..RetryMax THEN delay ELSE RetryMax

\* Mutant: a row left running by a dead notifier is not taken over.
Claimable_PendingOnly(m) ==
    deliverable[m] /\ row[m].status = "pending" /\ row[m].wait = 0

\* The WHERE clause of claim_outbox.
Claimable(m) ==
    /\ deliverable[m]
    /\ \/ row[m].status = "pending" /\ row[m].wait = 0
       \/ row[m].status = "running" /\ row[m].lease = 0

\* Mutant: the message's id alone finds the row.
Holds_Unfenced(n) == notifier[n].message # NoMessage

\* The condition of _locked_outbox: running, and under this notifier's token.
Holds(n) ==
    LET m == notifier[n].message
    IN  /\ m # NoMessage
        /\ row[m].status = "running"
        /\ row[m].token # NoToken /\ row[m].token = notifier[n].token

\* Mutant: the SELECT takes rows another notifier has locked.
Locked_Never(m) == FALSE

\* The lock is on the row, its rule and its user: write backs and changes wait.
Locked(m) == \E n \in Notifier : notifier[n].pc = "selected" /\ notifier[n].message = m

Unused(k) ==
    /\ \A m \in Message : row[m].token # k
    /\ \A n \in Notifier : notifier[n].token # k

\* The row as every write back leaves it; without the token it does nothing.
Finish(n, status, wait) ==
    row' = IF ~Holds(n) THEN row
           ELSE [row EXCEPT ![notifier[n].message] =
                   [@ EXCEPT !.status = status, !.wait = wait, !.lease = 0,
                             !.token = NoToken]]

Sending(n) == notifier[n].pc = "claimed"

-----------------------------------------------------------------------------

\* The SELECT ... FOR UPDATE SKIP LOCKED of claim_outbox, ...
Select(n, m) ==
    /\ notifier[n].pc = "idle" /\ Claimable(m) /\ ~Locked(m)
    /\ notifier' = [notifier EXCEPT ![n] = [Idle EXCEPT
                      !.pc = "selected", !.message = m, !.attempts = row[m].attempts]]
    /\ UNCHANGED <<row, deliverable, stalled, crashes, toggles>>

\* ... and its UPDATE by primary key, on the attempt count it read; the commit
\* gives the row lock up.
WriteSelected(n) ==
    LET m == notifier[n].message
        attempts == Smaller(notifier[n].attempts + 1, MaxAttempts)
    IN  /\ notifier[n].pc = "selected"
        /\ \E k \in Token :
            /\ Unused(k)
            /\ row' = [row EXCEPT ![m] = [@ EXCEPT
                         !.status = "running", !.lease = Lease, !.token = k,
                         !.attempts = attempts]]
            /\ notifier' = [notifier EXCEPT ![n] = [Idle EXCEPT
                              !.pc = "claimed", !.message = m, !.token = k,
                              !.attempts = attempts]]
        /\ UNCHANGED <<deliverable, stalled, crashes, toggles>>

\* A delivery of m has ended.
Answered(n, result, after) ==
    /\ notifier[n].pc = "claimed"
    /\ notifier' = [notifier EXCEPT ![n].pc = "answered",
                      ![n].result = result, ![n].retryAfter = after]
    /\ UNCHANGED <<row, deliverable, stalled, crashes, toggles>>

\* deliver to a webhook: the status or the network error decides whether it is
\* worth a retry; a 429 may name a delay.
DeliverWebhook(n) ==
    \E result \in {"success", "retryable", "permanent"},
       after \in {NoDelay} \cup 0..MaxRetryAfter :
        /\ result # "retryable" => after = NoDelay
        /\ Answered(n, result, after)

\* The SMTP dialogue: run_once retries after an exception of any kind, a
\* missing configuration included.
MailOutcome == {"success", "retryable"}

\* deliver by email.  Rule and settings are those of the moment: a rule may have
\* changed its channel since the row was queued, and SMTP may be switched off.
DeliverEmail(n) ==
    \E smtp \in BOOLEAN :
      \E result \in IF smtp THEN MailOutcome ELSE {"suppressed"} :
        Answered(n, result, NoDelay)

Deliver(n) == DeliverWebhook(n) \/ DeliverEmail(n)

\* The comparison of fail_outbox; it reads the row's count.
Exhausted(n) == row[notifier[n].message].attempts >= MaxAttempts

\* fail_outbox.  The delay is computed before the limit is compared, and used only
\* below it.  A Retry-After of zero counts as none, and a longer one than the maximum
\* delay is cut off.
Fail(n) ==
    /\ notifier[n].pc = "answered" /\ notifier[n].result \in {"retryable", "permanent"}
    /\ ~Locked(notifier[n].message)
    /\ LET delay == IF notifier[n].retryAfter > 0
                    THEN Smaller(notifier[n].retryAfter, RetryMax)
                    ELSE RetryDelay(notifier[n].attempts)
       IN  IF notifier[n].result = "permanent" \/ Exhausted(n)
           THEN Finish(n, "dead_letter", 0)
           ELSE Finish(n, "pending", delay)
    /\ notifier' = [notifier EXCEPT ![n] = Idle]
    /\ UNCHANGED <<deliverable, stalled, crashes, toggles>>

\* complete_outbox and suppress_outbox.
Complete(n) ==
    /\ notifier[n].pc = "answered" /\ notifier[n].result \in {"success", "suppressed"}
    /\ ~Locked(notifier[n].message)
    /\ Finish(n, IF notifier[n].result = "success" THEN "sent" ELSE "skipped",
              row[notifier[n].message].wait)
    /\ notifier' = [notifier EXCEPT ![n] = Idle]
    /\ UNCHANGED <<deliverable, stalled, crashes, toggles>>

\* The process ends and starts again: after a send whose result it lost, too.
Crash(n) ==
    /\ notifier[n].pc # "idle" /\ crashes < MaxCrashes
    /\ notifier' = [notifier EXCEPT ![n] = Idle]
    /\ crashes' = crashes + 1
    /\ UNCHANGED <<row, deliverable, stalled, toggles>>

\* The rule is disabled, deleted or enabled again, or the recipient's email
\* address loses or gains its verification.
Toggle(m) ==
    /\ toggles < MaxToggles /\ ~Locked(m)
    /\ deliverable' = [deliverable EXCEPT ![m] = ~@]
    /\ toggles' = toggles + 1
    /\ UNCHANGED <<row, notifier, stalled, crashes>>

CountDown(timer) == IF timer > 0 THEN timer - 1 ELSE timer

\* A claim's transaction is short; a delivery may outlast its lease.
Tick ==
    /\ \A n \in Notifier : notifier[n].pc # "selected"
    /\ stalled' = (stalled \/ \E n \in Notifier :
                     /\ notifier[n].pc \in {"claimed", "answered"} /\ Holds(n)
                     /\ row[notifier[n].message].lease <= 1)
    /\ row' = [m \in Message |->
                 [row[m] EXCEPT !.wait = CountDown(@), !.lease = CountDown(@)]]
    /\ UNCHANGED <<deliverable, notifier, crashes, toggles>>

-----------------------------------------------------------------------------

\* The queue is NotificationQueue's; here its rows are there from the start.
OutboxInit ==
    /\ row = [m \in Message |-> [status |-> "pending", wait |-> 0, lease |-> 0,
                                 token |-> NoToken, attempts |-> 0]]
    /\ deliverable = [m \in Message |-> TRUE]
    /\ notifier = [n \in Notifier |-> Idle]
    /\ stalled = FALSE /\ crashes = 0 /\ toggles = 0

\* What a notifier does about one message; a delivery has a timeout.
Proceed(n) == WriteSelected(n) \/ Deliver(n) \/ Fail(n) \/ Complete(n)

OutboxNext ==
    \/ \E n \in Notifier :
        \/ \E m \in Message : Select(n, m)
        \/ Proceed(n)
        \/ Crash(n)
    \/ \E m \in Message : Toggle(m)
    \/ Tick

\* Rows are claimed in the order of available_at, so that one that stays
\* claimable is taken before any that becomes so later: strong fairness.
Fairness ==
    /\ WF_outboxVars(Tick)
    /\ \A n \in Notifier : WF_outboxVars(Proceed(n))
    /\ \A m \in Message : SF_outboxVars(\E n \in Notifier : Select(n, m))

OutboxSpec == OutboxInit /\ [][OutboxNext]_outboxVars /\ Fairness

-----------------------------------------------------------------------------
(* Properties *)

\* Every variable keeps its type.
OutboxTypeOK ==
    /\ row \in [Message -> Row]
    /\ deliverable \in [Message -> BOOLEAN]
    /\ notifier \in [Notifier -> NotifierState]
    /\ stalled \in BOOLEAN /\ crashes \in Nat /\ toggles \in Nat

\* As long as deliveries end within their lease, no message is being sent by two
\* notifiers at once, although any of them may die with the lease.
OneSender ==
    ~stalled =>
        \A n, k \in Notifier :
            Sending(n) /\ Sending(k) /\ notifier[n].message = notifier[k].message
            => n = k

\* However late an outcome is written back, and whoever claimed the row in the
\* meantime: sent, skipped and dead-lettered rows stay what they are.
FinalIsFinal ==
    [][\A m \in Message : row[m].status \in Final => row'[m] = row[m]]_outboxVars

\* A message nobody got is given up only by an answer that says so or after the
\* last attempt.
GivesUpLate ==
    [][\A m \in Message :
        row[m].status # "dead_letter" /\ row'[m].status = "dead_letter"
        => row[m].attempts = MaxAttempts
           \/ \E n \in Notifier : /\ notifier[n].token = row[m].token
                                  /\ notifier[n].result = "permanent"]_outboxVars

\* A message whose rule stays enabled is finished, however its deliveries go and
\* whatever crashed with its lease, if deliveries end within their lease: one that
\* never does is taken over again and again, and never written back.
EventuallyFinished ==
    \A m \in Message :
        []~stalled /\ <>[]deliverable[m] => <>(row[m].status \in Final)
=============================================================================
