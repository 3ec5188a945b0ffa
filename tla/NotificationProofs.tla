------------------------- MODULE NotificationProofs -------------------------
(***************************************************************************)
(* Theorems of NotificationQueue: repeated checks never queue the same       *)
(* warning twice, and none is forgotten; and of NotificationOutbox: one      *)
(* sender at a time, ends that stay, and no message given up early.  For      *)
(* every set of rules, domains, messages and notifiers, every horizon and    *)
(* all durations and limits.                                                *)
(***************************************************************************)
EXTENDS NotificationQueue, NotificationOutboxLifecycle, TLAPS

-----------------------------------------------------------------------------
(* Queuing *)

\* A warning's key names no check: with it OneWarningPerDate follows from the
\* uniqueness of keys.
WarningsNameNoCheck ==
    \A entry \in outbox :
        entry.key.event = "domain.expiration_warning" => entry.key.check = None

\* The unique constraint on deduplication_key.
KeysAreUnique == \A a, b \in outbox : a.key = b.key => a = b

IInv == TypeOK /\ WarningsNameNoCheck /\ KeysAreUnique

-----------------------------------------------------------------------------

\* _add_outbox keeps the unique constraint and adds rows with new keys only,
\* whatever keys it is given.
LEMMA AddOutboxKeepsKeysUnique ==
    ASSUME NEW d, NEW check, NEW keys, KeysAreUnique
    PROVE  \A a, b \in AddOutbox(d, check, keys) : a.key = b.key => a = b
  BY DEF AddOutbox, KeysAreUnique

\* A entry of the outbox after _add_outbox is an old one or one with a given key.
LEMMA AddOutboxAdds ==
    ASSUME NEW d, NEW check, NEW keys, NEW entry \in AddOutbox(d, check, keys)
    PROVE  entry \in outbox
           \/ \E k \in keys : entry = [key |-> k, domain |-> d, check |-> check]
  BY DEF AddOutbox

\* Every given key has a row after _add_outbox, an old one or a new one.
LEMMA AddOutboxHasKeys ==
    ASSUME NEW d, NEW check, NEW keys, NEW k \in keys
    PROVE  \E entry \in AddOutbox(d, check, keys) : entry.key = k
  <1>1. CASE \E entry \in outbox : entry.key = k
    BY <1>1 DEF AddOutbox
  <1>2. CASE \A entry \in outbox : entry.key # k
    <2>1. [key |-> k, domain |-> d, check |-> check] \in AddOutbox(d, check, keys)
      BY <1>2 DEF AddOutbox
    <2> QED BY <2>1
  <1> QED BY <1>1, <1>2

\* The keys of a success are keys, and those of warnings name no check.
LEMMA KeysOfSuccess ==
    ASSUME TypeOK, NEW r \in Rule, NEW date \in Day, NEW check \in 0..MaxChecks,
           rule[r] # Absent
    PROVE  /\ WarningKey(r, date, check) \in Key
           /\ WarningKey(r, date, check).check = None
  <1>1. rule[r].days \in DaysBefore
    BY DEF TypeOK, RuleRow
  <1> QED
    BY <1>1 DEF WarningKey, Key, Event

\* The keys of the other events are keys.
LEMMA KeysOfChecks ==
    ASSUME NEW r \in Rule, NEW check \in 0..MaxChecks, NEW event \in Event
    PROVE  /\ CheckKey(r, event, check) \in Key
           /\ CheckKey(r, event, check).event = event
  BY DEF CheckKey, Key

-----------------------------------------------------------------------------

\* The invariant holds in the initial states.
LEMMA InitIsSafe == Init => IInv
  BY QueueAssumption
     DEF Init, IInv, TypeOK, WarningsNameNoCheck, KeysAreUnique, DomainRow, Day, None

\* A successful check keeps the invariant.
LEMMA SuccessIsSafe ==
    ASSUME IInv, NEW d \in Domain, CheckSucceeds(d)
    PROVE  IInv'
  <1> USE QueueAssumption
  <1>1. PICK changed \in BOOLEAN, warnable \in BOOLEAN, date \in {registry[d], None} :
          LET check == checks + 1
              changes == IF changed THEN Matching("domain.status_changed", d) ELSE {}
              warned == IF warnable /\ date # None
                        THEN {r \in Matching("domain.expiration_warning", d) : Due(r, date)}
                        ELSE {}
          IN  /\ outbox' = AddOutbox(d, check,
                    {CheckKey(r, "domain.status_changed", check) : r \in changes}
                    \cup {WarningKey(r, date, check) : r \in warned})
              /\ domain' = [domain EXCEPT ![d] = [expires |-> date,
                                warnable |-> warnable, check |-> check]]
              /\ checks' = check
    <2>1. \A date \in Day \cup {None}, warnable \in BOOLEAN :
            Changed(d, date, warnable) \subseteq BOOLEAN
      BY Zenon DEF Changed
    <2>2. \A x \in {registry[d], None} : x \in Day \cup {None}
      BY DEF IInv, TypeOK
    <2> QED BY <2>1, <2>2 DEF CheckSucceeds
  <1> DEFINE check == checks + 1
             changes == IF changed THEN Matching("domain.status_changed", d) ELSE {}
             warned == IF warnable /\ date # None
                       THEN {r \in Matching("domain.expiration_warning", d) : Due(r, date)}
                       ELSE {}
             keys == {CheckKey(r, "domain.status_changed", check) : r \in changes}
                     \cup {WarningKey(r, date, check) : r \in warned}
  <1>2. /\ outbox' = AddOutbox(d, check, keys)
        /\ domain' = [domain EXCEPT ![d] = [expires |-> date,
                          warnable |-> warnable, check |-> check]]
        /\ checks' = check
    BY <1>1
  <1>3. check \in 0..MaxChecks
    BY DEF CheckSucceeds, IInv, TypeOK
  <1>4. \A k \in keys : k \in Key /\ (k.event = "domain.expiration_warning" => k.check = None)
    <2>1. ASSUME NEW r \in changes
          PROVE  LET k == CheckKey(r, "domain.status_changed", check)
                 IN  k \in Key /\ k.event = "domain.status_changed"
      <3>1. r \in Rule BY DEF Matching
      <3> QED BY <1>3, <3>1, KeysOfChecks DEF Event
    <2>2. ASSUME NEW r \in warned
          PROVE  LET k == WarningKey(r, date, check)
                 IN  k \in Key /\ k.check = None
      <3>1. r \in Rule /\ rule[r] # Absent /\ date # None BY DEF Matching
      <3>2. date \in Day BY <3>1 DEF IInv, TypeOK
      <3> QED BY <1>3, <3>1, <3>2, KeysOfSuccess DEF IInv
    <2> QED BY <2>1, <2>2
  <1>5. \A entry \in outbox' : entry \in outbox
          \/ \E k \in keys : entry = [key |-> k, domain |-> d, check |-> check]
    BY <1>2, AddOutboxAdds
  <1> HIDE DEF keys, warned, changes
  <1>6. outbox' \subseteq OutboxRow
    <2> SUFFICES ASSUME NEW entry \in outbox' PROVE entry \in OutboxRow
      OBVIOUS
    <2>1. CASE entry \in outbox BY <2>1 DEF IInv, TypeOK
    <2>2. CASE \E k \in keys : entry = [key |-> k, domain |-> d, check |-> check]
      BY <2>2, <1>3, <1>4 DEF OutboxRow
    <2> QED BY <1>5, <2>1, <2>2
  <1>7. WarningsNameNoCheck'
    <2> SUFFICES ASSUME NEW entry \in outbox', entry.key.event = "domain.expiration_warning"
                 PROVE  entry.key.check = None
      BY DEF WarningsNameNoCheck
    <2>1. CASE entry \in outbox BY <2>1 DEF IInv, WarningsNameNoCheck
    <2>2. CASE \E k \in keys : entry = [key |-> k, domain |-> d, check |-> check]
      BY <2>2, <1>4
    <2> QED BY <1>5, <2>1, <2>2
  <1>8. KeysAreUnique'
    <2>1. \A a, b \in AddOutbox(d, check, keys) : a.key = b.key => a = b
      BY AddOutboxKeepsKeysUnique DEF IInv
    <2> QED BY <1>2, <2>1 DEF KeysAreUnique
  <1>9. domain' \in [Domain -> DomainRow]
    <2>1. [expires |-> date, warnable |-> warnable, check |-> check] \in DomainRow
      BY <1>3 DEF IInv, TypeOK, DomainRow
    <2> QED BY <1>2, <2>1 DEF IInv, TypeOK
  <1> QED
    BY <1>2, <1>3, <1>6, <1>7, <1>8, <1>9 DEF IInv, TypeOK, CheckSucceeds

\* A failed check keeps the invariant.
LEMMA FailureIsSafe ==
    ASSUME IInv, NEW d \in Domain, CheckFails(d)
    PROVE  IInv'
  <1> DEFINE check == checks + 1
             keys == {CheckKey(r, "domain.query_failed", check) :
                        r \in Matching("domain.query_failed", d)}
  <1>1. outbox' = AddOutbox(d, check, keys) /\ checks' = check
    BY DEF CheckFails
  <1>2. check \in 0..MaxChecks
    BY QueueAssumption DEF CheckFails, IInv, TypeOK
  <1>3. \A k \in keys : k \in Key /\ k.event # "domain.expiration_warning"
    <2> SUFFICES ASSUME NEW r \in Matching("domain.query_failed", d)
                 PROVE  LET k == CheckKey(r, "domain.query_failed", check)
                        IN  k \in Key /\ k.event # "domain.expiration_warning"
      OBVIOUS
    <2>1. r \in Rule BY DEF Matching
    <2> QED BY <1>2, <2>1, KeysOfChecks DEF Event
  <1>4. \A entry \in outbox' : entry \in outbox
          \/ \E k \in keys : entry = [key |-> k, domain |-> d, check |-> check]
    BY <1>1, AddOutboxAdds
  <1> HIDE DEF keys
  <1>5. outbox' \subseteq OutboxRow
    <2> SUFFICES ASSUME NEW entry \in outbox' PROVE entry \in OutboxRow
      OBVIOUS
    <2>1. CASE entry \in outbox BY <2>1 DEF IInv, TypeOK
    <2>2. CASE \E k \in keys : entry = [key |-> k, domain |-> d, check |-> check]
      BY <2>2, <1>2, <1>3 DEF OutboxRow
    <2> QED BY <1>4, <2>1, <2>2
  <1>6. WarningsNameNoCheck'
    BY <1>3, <1>4 DEF IInv, WarningsNameNoCheck
  <1>7. KeysAreUnique'
    <2>1. \A a, b \in AddOutbox(d, check, keys) : a.key = b.key => a = b
      BY AddOutboxKeepsKeysUnique DEF IInv
    <2> QED BY <1>1, <2>1 DEF KeysAreUnique
  <1> QED
    BY <1>1, <1>2, <1>5, <1>6, <1>7 DEF IInv, TypeOK, CheckFails

\* Every step keeps the invariant.
LEMMA StepIsSafe == IInv /\ [Next]_vars => IInv'
  <1> USE DEF IInv, TypeOK, WarningsNameNoCheck, KeysAreUnique
  <1> SUFFICES ASSUME IInv, [Next]_vars PROVE IInv'
    OBVIOUS
  <1>1. ASSUME NEW r \in Rule, CreateRule(r) \/ UpdateRule(r) PROVE IInv'
    <2>1. PICK enabled \in BOOLEAN : SaveRule(r, enabled)
      BY <1>1 DEF CreateRule, UpdateRule
    <2> QED BY <2>1 DEF SaveRule, RuleRow
  <1>2. ASSUME NEW r \in Rule, DeleteRule(r) PROVE IInv'
    BY <1>2 DEF DeleteRule, RuleRow
  <1>3. ASSUME NEW d \in Domain, Renew(d) PROVE IInv'
    BY <1>3, QueueAssumption DEF Renew, Day
  <1>4. ASSUME NEW d \in Domain, CheckSucceeds(d) PROVE IInv'
    BY <1>4, SuccessIsSafe
  <1>5. ASSUME NEW d \in Domain, CheckFails(d) PROVE IInv'
    BY <1>5, FailureIsSafe
  <1>6. CASE SetSmtp
    BY <1>6 DEF SetSmtp
  <1>7. CASE NextDay
    BY <1>7, QueueAssumption DEF NextDay, Day
  <1>8. CASE UNCHANGED vars
    BY <1>8 DEF vars
  <1> QED
    BY <1>1, <1>2, <1>3, <1>4, <1>5, <1>6, <1>7, <1>8 DEF Next

\* The invariant of every run of the program.
THEOREM Safety == Spec => []IInv
  BY InitIsSafe, StepIsSafe, PTL DEF Spec

\* Type correctness.
THEOREM TypeCorrect == Spec => []TypeOK
  BY Safety, PTL DEF IInv

\* However often a domain is checked, a rule's warning of one expiry date is
\* queued at most once for each days_before.
THEOREM OneWarningPerDateHolds == Spec => []OneWarningPerDate
  <1>1. IInv => OneWarningPerDate
    <2> SUFFICES ASSUME IInv, NEW a \in outbox, NEW b \in outbox,
                        a.key.event = "domain.expiration_warning",
                        a.key.event = b.key.event, a.key.rule = b.key.rule,
                        a.key.date = b.key.date, a.key.days = b.key.days
                 PROVE  a = b
      BY DEF OneWarningPerDate
    <2>1. a.key \in Key /\ b.key \in Key
      BY DEF IInv, TypeOK, OutboxRow
    <2>2. a.key.check = b.key.check
      BY DEF IInv, WarningsNameNoCheck
    <2>3. a.key = b.key
      BY <2>1, <2>2 DEF Key
    <2> QED BY <2>3 DEF IInv, KeysAreUnique
  <1> QED BY <1>1, Safety, PTL

\* Whatever was queued before, a successful check leaves a warning in the outbox
\* for each rule in whose window it finds the expiry date: its key is among those
\* it gives to _add_outbox, which drops a row only for one with the same key.
THEOREM WindowIsWarnedHolds == Spec => WindowIsWarned
  <1> DEFINE Warned(d, r) ==
               \E w \in outbox' : /\ w.key.rule = r /\ w.key.date = domain'[d].expires
                                  /\ w.key.event = "domain.expiration_warning"
                                  /\ w.key.days = rule[r].days
  <1>1. ASSUME TypeOK, [Next]_vars, NEW d \in Domain, NEW r \in Rule, InWindow(r, d)
        PROVE  Warned(d, r)
    <2>1. domain'[d].check # domain[d].check
      BY <1>1 DEF InWindow
    <2>2. CheckSucceeds(d)
      <3>1. \A e \in Domain \ {d} : ~CheckSucceeds(e)
        BY <1>1, <2>1 DEF CheckSucceeds, TypeOK
      <3>2. ~UNCHANGED domain
        BY <2>1
      <3> QED BY <1>1, <3>1, <3>2 DEF Next, vars, CreateRule, UpdateRule, DeleteRule,
                 SaveRule, Renew, CheckFails, SetSmtp, NextDay
    <2>3. PICK warnable \in BOOLEAN, date \in {registry[d], None} :
            \E changed \in Changed(d, date, warnable) :
              LET check == checks + 1
                  changes == IF changed THEN Matching("domain.status_changed", d) ELSE {}
                  warned == IF warnable /\ date # None
                            THEN {r2 \in Matching("domain.expiration_warning", d) :
                                    Due(r2, date)}
                            ELSE {}
              IN  /\ outbox' = AddOutbox(d, check,
                        {CheckKey(r2, "domain.status_changed", check) : r2 \in changes}
                        \cup {WarningKey(r2, date, check) : r2 \in warned})
                  /\ domain' = [domain EXCEPT ![d] = [expires |-> date,
                                    warnable |-> warnable, check |-> check]]
      BY <2>2 DEF CheckSucceeds
    <2> DEFINE warned == IF warnable /\ date # None
                         THEN {r2 \in Matching("domain.expiration_warning", d) :
                                 Due(r2, date)}
                         ELSE {}
    <2>4. PICK changed \in Changed(d, date, warnable) :
            LET check == checks + 1
                changes == IF changed THEN Matching("domain.status_changed", d) ELSE {}
            IN  outbox' = AddOutbox(d, check,
                      {CheckKey(r2, "domain.status_changed", check) : r2 \in changes}
                      \cup {WarningKey(r2, date, check) : r2 \in warned})
      BY <2>3
    <2> DEFINE changes == IF changed THEN Matching("domain.status_changed", d) ELSE {}
               keys == {CheckKey(r2, "domain.status_changed", checks + 1) : r2 \in changes}
                       \cup {WarningKey(r2, date, checks + 1) : r2 \in warned}
    <2>5. outbox' = AddOutbox(d, checks + 1, keys)
      BY <2>4
    <2>6. domain'[d].expires = date /\ domain'[d].warnable = warnable
      BY <1>1, <2>3 DEF TypeOK
    <2>7. r \in warned
      BY <1>1, <2>6 DEF InWindow
    <2> HIDE DEF warned, changes
    <2>8. WarningKey(r, date, checks + 1) \in keys
      BY <2>7
    <2> HIDE DEF keys
    <2>9. PICK w \in outbox' : w.key = WarningKey(r, date, checks + 1)
      BY <2>5, <2>8, AddOutboxHasKeys
    <2> QED BY <2>6, <2>9 DEF WarningKey
  <1>2. TypeOK /\ [Next]_vars
        => [\A d \in Domain, r \in Rule : InWindow(r, d) => Warned(d, r)]_vars
    BY <1>1
  <1> QED BY <1>2, TypeCorrect, PTL DEF Spec, WindowIsWarned

-----------------------------------------------------------------------------
(* Delivery *)

\* Whoever is past the choice of a message has one.
NotifiersFit == \A n \in Notifier : notifier[n].pc # "idle" => notifier[n].message \in Message

\* Only a pending row waits, and only a running one has time left on its lease.
RowsRest ==
    \A m \in Message : /\ row[m].status # "pending" => row[m].wait = 0
                       /\ row[m].status # "running" => row[m].lease = 0

\* No two notifiers know the same lease token.
TokensDiffer ==
    \A n, k \in Notifier :
        n # k /\ notifier[n].token = notifier[k].token => notifier[n].token = NoToken

\* A row whose lock is held stays as it was selected, and by one notifier.
SelectionsHold ==
    \A n \in Notifier : notifier[n].pc = "selected" =>
        /\ Claimable(notifier[n].message)
        /\ \A k \in Notifier : notifier[k].pc = "selected"
                               /\ notifier[k].message = notifier[n].message => n = k

\* A delivery in progress, or its answer not yet written back.
Delivering(n) == notifier[n].pc \in {"claimed", "answered"}

\* Until a delivery outlasts its lease, each has a live one.
LeasesLive ==
    ~stalled => \A n \in Notifier :
                   Delivering(n) => Holds(n) /\ row[notifier[n].message].lease > 0

OutboxInv ==
    /\ OutboxTypeOK
    /\ NotifiersFit
    /\ RowsRest
    /\ TokensDiffer
    /\ SelectionsHold
    /\ LeasesLive

-----------------------------------------------------------------------------
(* What the steps do, row by row and notifier by notifier *)

\* The types of the parts.
LEMMA OutboxTypes ==
    ASSUME OutboxTypeOK
    PROVE  /\ \A m \in Message :
                /\ row[m] \in Row /\ row[m].wait \in Nat /\ row[m].lease \in Nat
                /\ row[m].attempts \in 0..MaxAttempts
           /\ \A n \in Notifier :
                /\ notifier[n] \in NotifierState
                /\ notifier[n].attempts \in 0..MaxAttempts
                /\ notifier[n].retryAfter \in {NoDelay} \cup 0..MaxRetryAfter
                /\ notifier[n].token \in Token \cup {NoToken}
  BY DEF OutboxTypeOK, Row, NotifierState

LEMMA IdleIsNotifier ==
    Idle \in NotifierState /\ Idle.pc = "idle" /\ Idle.token = NoToken
  BY OutboxAssumption DEF Idle, NotifierState

\* The retry delay is at most the configured maximum (_retry_delay).
LEMMA RetryDelayIsBounded ==
    ASSUME NEW attempts \in Nat
    PROVE  RetryDelay(attempts) \in 0..RetryMax
  BY OutboxAssumption DEF RetryDelay

\* A selection changes the selecting notifier only.
LEMMA SelectEffect ==
    ASSUME OutboxInv, NEW n \in Notifier, NEW m \in Message, Select(n, m)
    PROVE  /\ UNCHANGED <<row, deliverable, stalled, crashes, toggles>>
           /\ notifier' \in [Notifier -> NotifierState]
           /\ \A k \in Notifier \ {n} : notifier'[k] = notifier[k]
           /\ notifier'[n].pc = "selected" /\ notifier'[n].message = m
           /\ notifier'[n].token = NoToken /\ notifier'[n].attempts = row[m].attempts
           /\ notifier[n].pc = "idle"
  <1> DEFINE local == [Idle EXCEPT !.pc = "selected", !.message = m,
                                   !.attempts = row[m].attempts]
  <1>1. local \in NotifierState
    BY IdleIsNotifier, OutboxTypes DEF OutboxInv, NotifierState
  <1>2. local.pc = "selected" /\ local.message = m /\ local.token = NoToken
        /\ local.attempts = row[m].attempts
    BY DEF Idle
  <1>3. notifier' = [notifier EXCEPT ![n] = local]
    BY DEF Select
  <1> HIDE DEF local
  <1> QED
    BY <1>1, <1>2, <1>3 DEF Select, OutboxInv, OutboxTypeOK

\* The claim's update leases the selected row under a new token.
LEMMA WriteEffect ==
    ASSUME OutboxInv, NEW n \in Notifier, WriteSelected(n)
    PROVE  LET m == notifier[n].message
           IN  \E t \in Token :
                /\ UNCHANGED <<deliverable, stalled, crashes, toggles>>
                /\ m \in Message /\ Unused(t)
                /\ row' \in [Message -> Row]
                /\ \A j \in Message \ {m} : row'[j] = row[j]
                /\ row'[m].status = "running" /\ row'[m].wait = row[m].wait
                /\ row'[m].lease = Lease /\ row'[m].token = t
                /\ row'[m].attempts = Smaller(notifier[n].attempts + 1, MaxAttempts)
                /\ notifier' \in [Notifier -> NotifierState]
                /\ \A k \in Notifier \ {n} : notifier'[k] = notifier[k]
                /\ notifier'[n].pc = "claimed" /\ notifier'[n].message = m
                /\ notifier'[n].token = t /\ notifier'[n].result = "none"
                /\ notifier[n].pc = "selected"
  <1> DEFINE m == notifier[n].message
             attempts == Smaller(notifier[n].attempts + 1, MaxAttempts)
  <1>1. PICK t \in Token :
          /\ Unused(t)
          /\ row' = [row EXCEPT ![m] = [row[m] EXCEPT
                       !.status = "running", !.lease = Lease, !.token = t,
                       !.attempts = attempts]]
          /\ notifier' = [notifier EXCEPT ![n] = [Idle EXCEPT
                            !.pc = "claimed", !.message = m, !.token = t,
                            !.attempts = attempts]]
    BY DEF WriteSelected
  <1>2. m \in Message
    BY DEF WriteSelected, OutboxInv, NotifiersFit
  <1>3. attempts \in 0..MaxAttempts
    BY OutboxTypes, OutboxAssumption DEF OutboxInv, Smaller
  <1> HIDE DEF attempts
  <1> DEFINE new == [row[m] EXCEPT !.status = "running", !.lease = Lease, !.token = t,
                                   !.attempts = attempts]
             local == [Idle EXCEPT !.pc = "claimed", !.message = m, !.token = t,
                                   !.attempts = attempts]
  <1>4. new \in Row /\ new.status = "running" /\ new.wait = row[m].wait
        /\ new.lease = Lease /\ new.token = t /\ new.attempts = attempts
    BY <1>2, <1>3, OutboxTypes, OutboxAssumption DEF OutboxInv, Row
  <1>5. local \in NotifierState /\ local.pc = "claimed" /\ local.message = m
        /\ local.token = t /\ local.result = "none"
    BY <1>2, <1>3, IdleIsNotifier DEF NotifierState, Idle
  <1>6. row' = [row EXCEPT ![m] = new] /\ notifier' = [notifier EXCEPT ![n] = local]
    BY <1>1
  <1> HIDE DEF new, local
  <1>7. /\ row' \in [Message -> Row] /\ row'[m] = new
        /\ \A j \in Message \ {m} : row'[j] = row[j]
    BY <1>2, <1>4, <1>6 DEF OutboxInv, OutboxTypeOK
  <1>8. /\ notifier' \in [Notifier -> NotifierState] /\ notifier'[n] = local
        /\ \A k \in Notifier \ {n} : notifier'[k] = notifier[k]
    BY <1>5, <1>6 DEF OutboxInv, OutboxTypeOK
  <1>9. UNCHANGED <<deliverable, stalled, crashes, toggles>> /\ notifier[n].pc = "selected"
    BY DEF WriteSelected
  <1>10. attempts = Smaller(notifier[n].attempts + 1, MaxAttempts)
    BY DEF attempts
  <1> QED
    BY <1>1, <1>2, <1>4, <1>5, <1>7, <1>8, <1>9, <1>10

\* An answer arrives, or the process starts anew.
LEMMA LocalEffect ==
    ASSUME OutboxInv, NEW n \in Notifier, Deliver(n) \/ Crash(n)
    PROVE  /\ UNCHANGED <<row, deliverable, stalled, toggles>>
           /\ crashes' \in Nat
           /\ notifier' \in [Notifier -> NotifierState]
           /\ \A k \in Notifier \ {n} : notifier'[k] = notifier[k]
           /\ \/ notifier'[n] = Idle
              \/ /\ notifier[n].pc = "claimed" /\ notifier'[n].pc = "answered"
                 /\ notifier'[n].message = notifier[n].message
                 /\ notifier'[n].token = notifier[n].token
                 /\ notifier'[n].result \in Result
  <1>1. CASE Crash(n)
    <2>1. notifier' = [notifier EXCEPT ![n] = Idle] /\ crashes' = crashes + 1
      BY <1>1 DEF Crash
    <2> QED
      BY <1>1, <2>1, IdleIsNotifier DEF Crash, OutboxInv, OutboxTypeOK
  <1>2. ASSUME NEW result \in Result, NEW after \in {NoDelay} \cup 0..MaxRetryAfter,
               Answered(n, result, after)
        PROVE  /\ UNCHANGED <<row, deliverable, stalled, toggles>>
               /\ crashes' \in Nat
               /\ notifier' \in [Notifier -> NotifierState]
               /\ \A k \in Notifier \ {n} : notifier'[k] = notifier[k]
               /\ notifier[n].pc = "claimed" /\ notifier'[n].pc = "answered"
               /\ notifier'[n].message = notifier[n].message
               /\ notifier'[n].token = notifier[n].token
               /\ notifier'[n].result \in Result
    <2> DEFINE local == [notifier[n] EXCEPT !.pc = "answered", !.result = result,
                                            !.retryAfter = after]
    <2>1. local \in NotifierState /\ local.pc = "answered"
          /\ local.message = notifier[n].message /\ local.token = notifier[n].token
          /\ local.result = result
      BY OutboxTypes DEF OutboxInv, NotifierState
    <2>2. notifier' = [notifier EXCEPT ![n] = local]
      BY <1>2 DEF Answered
    <2> HIDE DEF local
    <2>3. /\ notifier' \in [Notifier -> NotifierState] /\ notifier'[n] = local
          /\ \A k \in Notifier \ {n} : notifier'[k] = notifier[k]
      BY <2>1, <2>2 DEF OutboxInv, OutboxTypeOK
    <2>4. /\ UNCHANGED <<row, deliverable, stalled, toggles, crashes>>
          /\ notifier[n].pc = "claimed" /\ crashes \in Nat
      BY <1>2 DEF Answered, OutboxInv, OutboxTypeOK
    <2> QED
      BY <2>1, <2>3, <2>4
  <1>3. CASE Deliver(n)
    <2>1. \E result \in Result, after \in {NoDelay} \cup 0..MaxRetryAfter :
             Answered(n, result, after)
      BY <1>3 DEF Deliver, DeliverWebhook, DeliverEmail, MailOutcome, Result
    <2> QED
      BY <2>1, <1>2
  <1> QED
    BY <1>1, <1>3

\* A write back ends the notifier's work; of the rows it changes at most the one
\* the notifier still holds, to an end or back to pending.
LEMMA WriteBackEffect ==
    ASSUME OutboxInv, NEW n \in Notifier, Fail(n) \/ Complete(n)
    PROVE  /\ UNCHANGED <<deliverable, stalled, crashes, toggles>>
           /\ ~Locked(notifier[n].message)
           /\ Delivering(n)
           /\ notifier' \in [Notifier -> NotifierState]
           /\ \A k \in Notifier \ {n} : notifier'[k] = notifier[k]
           /\ notifier'[n] = Idle
           /\ row' \in [Message -> Row]
           /\ \A m \in Message : row'[m] # row[m] =>
                /\ Holds(n) /\ m = notifier[n].message
                /\ row'[m].status \in Final \cup {"pending"}
                /\ row'[m].status # "pending" => row'[m].wait = 0
                /\ row'[m].lease = 0
                /\ row'[m].status = "dead_letter" =>
                     notifier[n].result = "permanent" \/ Exhausted(n)
  <1> DEFINE m == notifier[n].message
             Goal(status, wait) ==
               /\ row' \in [Message -> Row]
               /\ \A j \in Message : row'[j] # row[j] =>
                    /\ Holds(n) /\ j = m
                    /\ row'[j].status = status /\ row'[j].wait = wait
                    /\ row'[j].lease = 0
  <1>1. ASSUME NEW status \in Final \cup {"pending"}, NEW wait \in Nat,
               Finish(n, status, wait)
        PROVE  Goal(status, wait)
    <2>1. CASE ~Holds(n)
      BY <1>1, <2>1 DEF Finish, OutboxInv, OutboxTypeOK
    <2>2. CASE Holds(n)
      <3> DEFINE new == [row[m] EXCEPT !.status = status, !.wait = wait, !.lease = 0,
                                       !.token = NoToken]
      <3>1. m \in Message
        BY <2>2, OutboxTypes DEF Holds, OutboxInv, NotifierState
      <3>0. row[m] \in Row
        BY <3>1, OutboxTypes DEF OutboxInv
      <3>2. new \in Row /\ new.status = status /\ new.wait = wait /\ new.lease = 0
        BY <1>1, <3>0 DEF Row
      <3>3. row' = [row EXCEPT ![m] = new]
        BY <1>1, <2>2 DEF Finish
      <3> HIDE DEF new
      <3> QED
        BY <2>2, <3>1, <3>2, <3>3 DEF OutboxInv, OutboxTypeOK
    <2> QED BY <2>1, <2>2
  <1>2. notifier' = [notifier EXCEPT ![n] = Idle]
    BY DEF Fail, Complete
  <1>3. /\ notifier' \in [Notifier -> NotifierState]
        /\ \A k \in Notifier \ {n} : notifier'[k] = notifier[k]
        /\ notifier'[n] = Idle
    BY <1>2, IdleIsNotifier DEF OutboxInv, OutboxTypeOK
  <1>4. CASE Fail(n)
    <2> DEFINE delay == IF notifier[n].retryAfter > 0
                        THEN Smaller(notifier[n].retryAfter, RetryMax)
                        ELSE RetryDelay(notifier[n].attempts)
    <2>1. delay \in Nat
      BY OutboxTypes, RetryDelayIsBounded, OutboxAssumption DEF OutboxInv, Smaller, NoDelay
    <2>2. \/ /\ Finish(n, "dead_letter", 0)
             /\ notifier[n].result = "permanent" \/ Exhausted(n)
          \/ Finish(n, "pending", delay)
      BY <1>4 DEF Fail
    <2> HIDE DEF delay
    <2>3. CASE Finish(n, "dead_letter", 0)
               /\ (notifier[n].result = "permanent" \/ Exhausted(n))
      <3>1. Goal("dead_letter", 0)
        BY <1>1, <2>3 DEF Final
      <3> QED BY <1>3, <1>4, <2>3, <3>1 DEF Fail, Delivering, Final
    <2>4. CASE Finish(n, "pending", delay)
      <3>1. Goal("pending", delay)
        BY <1>1, <2>1, <2>4
      <3> QED BY <1>3, <1>4, <3>1 DEF Fail, Delivering
    <2> QED BY <2>2, <2>3, <2>4
  <1>5. CASE Complete(n)
    <2>1. PICK status \in {"sent", "skipped"} : Finish(n, status, row[m].wait)
      BY <1>5 DEF Complete
    <2>2. CASE ~Holds(n)
      <3>1. row' = row
        BY <2>1, <2>2 DEF Finish
      <3> QED BY <1>3, <1>5, <3>1 DEF Complete, Delivering, OutboxInv, OutboxTypeOK
    <2>3. CASE Holds(n)
      <3>1. m \in Message /\ row[m].status = "running"
        BY <2>3, OutboxTypes DEF Holds, OutboxInv, NotifierState
      <3>2. row[m].wait = 0
        BY <3>1 DEF OutboxInv, RowsRest
      <3>3. Goal(status, 0)
        BY <1>1, <2>1, <3>2 DEF Final
      <3> QED BY <1>3, <1>5, <3>3 DEF Complete, Delivering, Final
    <2> QED BY <2>2, <2>3
  <1> QED BY <1>4, <1>5

\* Time runs only between the transactions of the claims.
LEMMA TickEffect ==
    ASSUME OutboxInv, Tick
    PROVE  /\ UNCHANGED <<deliverable, notifier, crashes, toggles>>
           /\ stalled' \in BOOLEAN
           /\ \A n \in Notifier : notifier[n].pc # "selected"
           /\ row' \in [Message -> Row]
           /\ \A m \in Message :
                /\ row'[m].status = row[m].status /\ row'[m].token = row[m].token
                /\ row'[m].attempts = row[m].attempts
                /\ row'[m].wait = CountDown(row[m].wait)
                /\ row'[m].lease = CountDown(row[m].lease)
                /\ row[m].wait = 0 /\ row[m].lease = 0 => row'[m] = row[m]
  <1>1. ASSUME NEW m \in Message
        PROVE  /\ row'[m] \in Row
               /\ row'[m].status = row[m].status /\ row'[m].token = row[m].token
               /\ row'[m].attempts = row[m].attempts
               /\ row'[m].wait = CountDown(row[m].wait)
               /\ row'[m].lease = CountDown(row[m].lease)
               /\ row[m].wait = 0 /\ row[m].lease = 0 => row'[m] = row[m]
    <2>1. row[m] \in Row /\ row[m].wait \in Nat /\ row[m].lease \in Nat
      BY OutboxTypes DEF OutboxInv
    <2>2. CountDown(row[m].wait) \in Nat /\ CountDown(row[m].lease) \in Nat
      BY <2>1 DEF CountDown
    <2>3. row'[m] = [row[m] EXCEPT !.wait = CountDown(row[m].wait),
                                   !.lease = CountDown(row[m].lease)]
      BY DEF Tick
    <2>4. CountDown(0) = 0
      BY DEF CountDown
    <2>5. /\ row'[m] \in Row
          /\ row'[m].status = row[m].status /\ row'[m].token = row[m].token
          /\ row'[m].attempts = row[m].attempts
          /\ row'[m].wait = CountDown(row[m].wait)
          /\ row'[m].lease = CountDown(row[m].lease)
      BY <2>1, <2>2, <2>3 DEF Row
    <2>6. ASSUME row[m].wait = 0, row[m].lease = 0
          PROVE  row'[m] = row[m]
      BY <2>1, <2>4, <2>5, <2>6 DEF Row
    <2> QED
      BY <2>5, <2>6
  <1>2. row' \in [Message -> Row]
    BY <1>1 DEF Tick
  <1> QED
    BY <1>1, <1>2 DEF Tick

-----------------------------------------------------------------------------
(* The invariant of delivery *)

LEMMA InitEstablishesOutboxInv == OutboxInit => OutboxInv
  <1> SUFFICES ASSUME OutboxInit PROVE OutboxInv
    OBVIOUS
  <1>1. \A m \in Message : row[m].status = "pending" /\ row[m].wait = 0 /\ row[m].lease = 0
    BY DEF OutboxInit
  <1>2. \A n \in Notifier : notifier[n].pc = "idle" /\ notifier[n].token = NoToken
    BY IdleIsNotifier DEF OutboxInit
  <1>3. OutboxTypeOK
    <2>1. [status |-> "pending", wait |-> 0, lease |-> 0, token |-> NoToken,
           attempts |-> 0] \in Row
      BY OutboxAssumption DEF Row
    <2>2. row \in [Message -> Row]
      BY <2>1 DEF OutboxInit
    <2>3. notifier \in [Notifier -> NotifierState]
      BY IdleIsNotifier DEF OutboxInit
    <2> QED
      BY <2>2, <2>3 DEF OutboxInit, OutboxTypeOK
  <1> QED
    BY <1>1, <1>2, <1>3
       DEF OutboxInv, NotifiersFit, RowsRest, TokensDiffer, SelectionsHold, LeasesLive,
           Delivering

\* A selected row is claimable, and nobody else has it: SKIP LOCKED.
LEMMA SelectKeepsOutboxInv ==
    ASSUME OutboxInv, NEW n \in Notifier, NEW m \in Message, Select(n, m)
    PROVE  OutboxInv'
  <1>1. /\ UNCHANGED <<row, deliverable, stalled, crashes, toggles>>
        /\ notifier' \in [Notifier -> NotifierState]
        /\ \A k \in Notifier \ {n} : notifier'[k] = notifier[k]
        /\ notifier'[n].pc = "selected" /\ notifier'[n].message = m
        /\ notifier'[n].token = NoToken
    BY SelectEffect
  <1>2. OutboxTypeOK' /\ RowsRest'
    BY <1>1 DEF OutboxInv, OutboxTypeOK, RowsRest
  <1>3. NotifiersFit' /\ TokensDiffer'
    BY <1>1 DEF OutboxInv, NotifiersFit, TokensDiffer
  <1>4. SelectionsHold'
    <2>1. Claimable(m) /\ \A k \in Notifier : ~(notifier[k].pc = "selected"
                                               /\ notifier[k].message = m)
      BY DEF Select, Locked
    <2>2. \A j \in Message : Claimable(j) => Claimable(j)'
      BY <1>1 DEF Claimable
    <2>3. \A k \in Notifier : notifier[k].pc = "selected" => notifier[k].message \in Message
      BY DEF OutboxInv, NotifiersFit
    <2> SUFFICES ASSUME NEW a \in Notifier, notifier'[a].pc = "selected"
                 PROVE  /\ Claimable(notifier[a].message)'
                        /\ \A b \in Notifier :
                             notifier'[b].pc = "selected"
                             /\ notifier'[b].message = notifier'[a].message => a = b
      BY DEF SelectionsHold
    <2>4. CASE a = n
      BY <1>1, <2>1, <2>2, <2>4
    <2>5. CASE a # n
      BY <1>1, <2>1, <2>2, <2>3, <2>5 DEF OutboxInv, SelectionsHold
    <2> QED BY <2>4, <2>5
  <1>5. LeasesLive'
    BY <1>1 DEF OutboxInv, LeasesLive, Delivering, Holds
  <1> QED
    BY <1>2, <1>3, <1>4, <1>5 DEF OutboxInv

\* The claim's update takes the row from nobody with a live lease.
LEMMA WriteKeepsOutboxInv ==
    ASSUME OutboxInv, NEW n \in Notifier, WriteSelected(n)
    PROVE  OutboxInv'
  <1> DEFINE m == notifier[n].message
  <1>1. PICK t \in Token :
          /\ UNCHANGED <<deliverable, stalled, crashes, toggles>>
          /\ m \in Message /\ Unused(t)
          /\ row' \in [Message -> Row]
          /\ \A j \in Message \ {m} : row'[j] = row[j]
          /\ row'[m].status = "running" /\ row'[m].wait = row[m].wait
          /\ row'[m].lease = Lease /\ row'[m].token = t
          /\ notifier' \in [Notifier -> NotifierState]
          /\ \A k \in Notifier \ {n} : notifier'[k] = notifier[k]
          /\ notifier'[n].pc = "claimed" /\ notifier'[n].message = m
          /\ notifier'[n].token = t
    BY WriteEffect
  <1> HIDE DEF m
  <1>2. /\ Claimable(m)
        /\ \A k \in Notifier \ {n} : notifier[k].pc = "selected" => notifier[k].message # m
    BY DEF m, WriteSelected, OutboxInv, SelectionsHold
  <1>3. OutboxTypeOK' /\ NotifiersFit'
    BY <1>1 DEF OutboxInv, OutboxTypeOK, NotifiersFit
  <1>4. RowsRest'
    <2>1. row[m].wait = 0
      BY <1>1, <1>2 DEF Claimable, OutboxInv, RowsRest
    <2> QED BY <1>1, <2>1 DEF OutboxInv, RowsRest
  <1>5. TokensDiffer'
    BY <1>1 DEF OutboxInv, TokensDiffer, Unused
  <1>6. SelectionsHold'
    <2>1. \A j \in Message \ {m} : Claimable(j) => Claimable(j)'
      BY <1>1 DEF Claimable
    <2>2. \A k \in Notifier : notifier[k].pc = "selected" => notifier[k].message \in Message
      BY DEF OutboxInv, NotifiersFit
    <2> SUFFICES ASSUME NEW a \in Notifier, notifier'[a].pc = "selected"
                 PROVE  /\ Claimable(notifier[a].message)'
                        /\ \A b \in Notifier :
                             notifier'[b].pc = "selected"
                             /\ notifier'[b].message = notifier'[a].message => a = b
      BY DEF SelectionsHold
    <2>3. a # n
      BY <1>1
    <2> QED BY <1>1, <1>2, <2>1, <2>2, <2>3 DEF OutboxInv, SelectionsHold
  <1>7. LeasesLive'
    <2> SUFFICES ASSUME ~stalled', NEW a \in Notifier, Delivering(a)'
                 PROVE  Holds(a)' /\ row'[notifier'[a].message].lease > 0
      BY DEF LeasesLive
    <2>1. CASE a = n
      BY <1>1, <2>1, OutboxAssumption DEF Holds
    <2>2. CASE a # n
      <3>1. notifier'[a] = notifier[a] /\ Delivering(a)
        BY <1>1, <2>2 DEF Delivering
      <3>2. Holds(a) /\ row[notifier[a].message].lease > 0
        BY <1>1, <3>1 DEF OutboxInv, LeasesLive
      <3>3. notifier[a].message # m
        BY <1>2, <3>2 DEF Claimable, Holds
      <3>4. notifier[a].message \in Message
        BY <3>1 DEF Delivering, OutboxInv, NotifiersFit
      <3> QED BY <1>1, <3>1, <3>2, <3>3, <3>4 DEF Holds
    <2> QED BY <2>1, <2>2
  <1> QED
    BY <1>3, <1>4, <1>5, <1>6, <1>7 DEF OutboxInv

\* An answer and a crash change no row.
LEMMA LocalKeepsOutboxInv ==
    ASSUME OutboxInv, NEW n \in Notifier, Deliver(n) \/ Crash(n)
    PROVE  OutboxInv'
  <1>1. /\ UNCHANGED <<row, deliverable, stalled, toggles>>
        /\ crashes' \in Nat
        /\ notifier' \in [Notifier -> NotifierState]
        /\ \A k \in Notifier \ {n} : notifier'[k] = notifier[k]
        /\ \/ notifier'[n] = Idle
           \/ /\ notifier[n].pc = "claimed" /\ notifier'[n].pc = "answered"
              /\ notifier'[n].message = notifier[n].message
              /\ notifier'[n].token = notifier[n].token
    BY LocalEffect
  <1>2. OutboxTypeOK' /\ RowsRest'
    BY <1>1 DEF OutboxInv, OutboxTypeOK, RowsRest
  <1>3. NotifiersFit' /\ TokensDiffer'
    BY <1>1, IdleIsNotifier DEF OutboxInv, NotifiersFit, TokensDiffer
  <1>4. SelectionsHold'
    <2>1. \A j : Claimable(j) => Claimable(j)'
      BY <1>1 DEF Claimable
    <2>2. \A k \in Notifier : notifier'[k].pc = "selected" => notifier'[k] = notifier[k]
      BY <1>1, IdleIsNotifier
    <2> QED BY <2>1, <2>2 DEF OutboxInv, SelectionsHold
  <1>5. LeasesLive'
    <2> SUFFICES ASSUME ~stalled', NEW a \in Notifier, Delivering(a)'
                 PROVE  Holds(a)' /\ row'[notifier'[a].message].lease > 0
      BY DEF LeasesLive
    <2>1. /\ Delivering(a) /\ notifier'[a].message = notifier[a].message
          /\ notifier'[a].token = notifier[a].token
      BY <1>1, IdleIsNotifier DEF Delivering
    <2> QED BY <1>1, <2>1 DEF OutboxInv, LeasesLive, Holds
  <1> QED
    BY <1>2, <1>3, <1>4, <1>5 DEF OutboxInv

\* A write back waits for the row's lock, and touches no row but its own.
LEMMA WriteBackKeepsOutboxInv ==
    ASSUME OutboxInv, NEW n \in Notifier, Fail(n) \/ Complete(n)
    PROVE  OutboxInv'
  <1> DEFINE m == notifier[n].message
  <1>1. /\ UNCHANGED <<deliverable, stalled, crashes, toggles>>
        /\ ~Locked(m)
        /\ Delivering(n)
        /\ notifier' \in [Notifier -> NotifierState]
        /\ \A k \in Notifier \ {n} : notifier'[k] = notifier[k]
        /\ notifier'[n] = Idle
        /\ row' \in [Message -> Row]
        /\ \A j \in Message : row'[j] # row[j] =>
             /\ Holds(n) /\ j = m
             /\ row'[j].status \in Final \cup {"pending"}
             /\ row'[j].status # "pending" => row'[j].wait = 0
             /\ row'[j].lease = 0
    BY WriteBackEffect
  <1> HIDE DEF m
  <1>2. OutboxTypeOK' /\ NotifiersFit'
    BY <1>1, IdleIsNotifier DEF OutboxInv, OutboxTypeOK, NotifiersFit
  <1>3. RowsRest'
    BY <1>1 DEF OutboxInv, RowsRest
  <1>4. TokensDiffer'
    BY <1>1, IdleIsNotifier DEF OutboxInv, TokensDiffer
  <1>5. SelectionsHold'
    <2>1. \A k \in Notifier : notifier'[k].pc = "selected" =>
             /\ notifier'[k] = notifier[k] /\ notifier[k].message \in Message
             /\ notifier[k].message # m
      BY <1>1, IdleIsNotifier DEF Locked, OutboxInv, NotifiersFit
    <2>2. \A j \in Message \ {m} : Claimable(j) => Claimable(j)'
      BY <1>1 DEF Claimable
    <2> QED BY <2>1, <2>2 DEF OutboxInv, SelectionsHold
  <1>6. LeasesLive'
    <2> SUFFICES ASSUME ~stalled', NEW a \in Notifier, Delivering(a)'
                 PROVE  Holds(a)' /\ row'[notifier'[a].message].lease > 0
      BY DEF LeasesLive
    <2>1. a # n /\ notifier'[a] = notifier[a] /\ Delivering(a)
      BY <1>1, IdleIsNotifier DEF Delivering
    <2>2. Holds(a) /\ row[notifier[a].message].lease > 0
      BY <1>1, <2>1 DEF OutboxInv, LeasesLive
    <2>3. notifier[a].message \in Message
      BY <2>1 DEF Delivering, OutboxInv, NotifiersFit
    <2>4. ~(Holds(n) /\ notifier[a].message = m)
      BY <2>1, <2>2 DEF m, Holds, OutboxInv, TokensDiffer
    <2> QED BY <1>1, <2>1, <2>2, <2>3, <2>4 DEF Holds
  <1> QED
    BY <1>2, <1>3, <1>4, <1>5, <1>6 DEF OutboxInv

\* A rule or a recipient changes when no claim has locked it.
LEMMA ToggleKeepsOutboxInv ==
    ASSUME OutboxInv, NEW m \in Message, Toggle(m)
    PROVE  OutboxInv'
  <1>1. /\ UNCHANGED <<row, notifier, stalled, crashes>>
        /\ deliverable' \in [Message -> BOOLEAN] /\ toggles' \in Nat
        /\ \A j \in Message \ {m} : deliverable'[j] = deliverable[j]
        /\ ~Locked(m)
    BY DEF Toggle, OutboxInv, OutboxTypeOK
  <1>2. OutboxTypeOK' /\ NotifiersFit' /\ RowsRest' /\ TokensDiffer'
    BY <1>1 DEF OutboxInv, OutboxTypeOK, NotifiersFit, RowsRest, TokensDiffer
  <1>3. SelectionsHold'
    <2>1. \A k \in Notifier : notifier[k].pc = "selected" =>
             notifier[k].message \in Message \ {m}
      BY <1>1 DEF Locked, OutboxInv, NotifiersFit
    <2>2. \A j \in Message \ {m} : Claimable(j) => Claimable(j)'
      BY <1>1 DEF Claimable
    <2> QED BY <1>1, <2>1, <2>2 DEF OutboxInv, SelectionsHold
  <1>4. LeasesLive'
    BY <1>1 DEF OutboxInv, LeasesLive, Delivering, Holds
  <1> QED
    BY <1>2, <1>3, <1>4 DEF OutboxInv

\* Time leaves every lease under its holder alive, or tells of the stall.
LEMMA TickKeepsOutboxInv ==
    ASSUME OutboxInv, Tick
    PROVE  OutboxInv'
  <1>1. /\ UNCHANGED <<deliverable, notifier, crashes, toggles>>
        /\ stalled' \in BOOLEAN
        /\ \A n \in Notifier : notifier[n].pc # "selected"
        /\ row' \in [Message -> Row]
        /\ \A m \in Message :
             /\ row'[m].status = row[m].status /\ row'[m].token = row[m].token
             /\ row'[m].wait = CountDown(row[m].wait)
             /\ row'[m].lease = CountDown(row[m].lease)
    BY TickEffect
  <1>2. OutboxTypeOK' /\ NotifiersFit' /\ TokensDiffer' /\ SelectionsHold'
    BY <1>1 DEF OutboxInv, OutboxTypeOK, NotifiersFit, TokensDiffer, SelectionsHold
  <1>3. RowsRest'
    BY <1>1 DEF OutboxInv, RowsRest, CountDown
  <1>4. LeasesLive'
    <2> SUFFICES ASSUME ~stalled', NEW a \in Notifier, Delivering(a)'
                 PROVE  Holds(a)' /\ row'[notifier'[a].message].lease > 0
      BY DEF LeasesLive
    <2> DEFINE m == notifier[a].message
    <2>1. Delivering(a) /\ m \in Message
      BY <1>1 DEF Delivering, OutboxInv, NotifiersFit
    <2>2. /\ ~stalled
          /\ ~(Delivering(a) /\ Holds(a) /\ row[m].lease <= 1)
      BY Zenon DEF Tick, Delivering
    <2>3. Holds(a) /\ row[m].lease > 0 /\ row[m].lease \in Nat
      BY <2>1, <2>2, OutboxTypes DEF OutboxInv, LeasesLive
    <2>4. row'[m].lease > 0
      BY <1>1, <2>1, <2>2, <2>3 DEF CountDown
    <2> QED BY <1>1, <2>1, <2>3, <2>4 DEF Holds
  <1> QED
    BY <1>2, <1>3, <1>4 DEF OutboxInv

LEMMA NextKeepsOutboxInv == OutboxInv /\ [OutboxNext]_outboxVars => OutboxInv'
  <1>1. CASE UNCHANGED outboxVars
    BY <1>1 DEF outboxVars, OutboxInv, OutboxTypeOK, NotifiersFit, RowsRest, TokensDiffer,
                SelectionsHold, LeasesLive, Claimable, Holds, Delivering
  <1> QED
    BY <1>1, SelectKeepsOutboxInv, WriteKeepsOutboxInv, LocalKeepsOutboxInv,
       WriteBackKeepsOutboxInv, ToggleKeepsOutboxInv, TickKeepsOutboxInv
       DEF OutboxNext, Proceed

\* The invariant of every run of the notifiers.
THEOREM OutboxSafety == OutboxSpec => []OutboxInv
  BY InitEstablishesOutboxInv, NextKeepsOutboxInv, PTL DEF OutboxSpec

\* As long as deliveries end within their lease, a message is sent by one notifier
\* at a time: each sender holds the row's lease, which has one token.
THEOREM OneSenderHolds == OutboxSpec => []OneSender
  <1>1. OutboxInv => OneSender
    BY DEF OutboxInv, LeasesLive, TokensDiffer, OneSender, Sending, Delivering, Holds
  <1> QED BY <1>1, OutboxSafety, PTL

\* Nothing changes a message that was sent, skipped or given up: claims take
\* pending and running rows, and a write back needs the lease, which ended.
THEOREM FinalIsFinalHolds == OutboxSpec => FinalIsFinal
  <1>1. ASSUME OutboxInv, [OutboxNext]_outboxVars,
               NEW m \in Message, row[m].status \in Final
        PROVE  row'[m] = row[m]
    <2>1. ASSUME NEW n \in Notifier, WriteSelected(n)
          PROVE  row'[m] = row[m]
      <3>1. Claimable(notifier[n].message)
        BY <1>1, <2>1 DEF WriteSelected, OutboxInv, SelectionsHold
      <3>2. notifier[n].message # m
        BY <1>1, <3>1 DEF Claimable, Final
      <3> QED BY <1>1, <2>1, <3>2, WriteEffect
    <2>2. ASSUME NEW n \in Notifier, Fail(n) \/ Complete(n)
          PROVE  row'[m] = row[m]
      <3>1. ~(Holds(n) /\ m = notifier[n].message)
        BY <1>1 DEF Holds, Final
      <3> QED BY <1>1, <2>2, <3>1, WriteBackEffect
    <2>3. CASE Tick
      <3>1. row[m].wait = 0 /\ row[m].lease = 0
        BY <1>1 DEF OutboxInv, RowsRest, Final
      <3> QED BY <1>1, <2>3, <3>1, TickEffect
    <2>4. ASSUME NEW n \in Notifier, (\E j \in Message : Select(n, j)) \/ Deliver(n) \/ Crash(n)
          PROVE  row'[m] = row[m]
      BY <1>1, <2>4, LocalEffect DEF Select
    <2>5. ASSUME NEW j \in Message, Toggle(j)
          PROVE  row'[m] = row[m]
      BY <2>5 DEF Toggle
    <2>6. CASE UNCHANGED outboxVars
      BY <2>6 DEF outboxVars
    <2> QED
      BY <1>1, <2>1, <2>2, <2>3, <2>4, <2>5, <2>6 DEF OutboxNext, Proceed
  <1>2. OutboxInv /\ [OutboxNext]_outboxVars
        => [\A m \in Message : row[m].status \in Final => row'[m] = row[m]]_outboxVars
    BY <1>1
  <1> QED BY <1>2, OutboxSafety, PTL DEF OutboxSpec, FinalIsFinal

\* A message is only dead-lettered by the notifier that holds it, after a permanent
\* answer or when the row's count has reached the limit.
THEOREM GivesUpLateHolds == OutboxSpec => GivesUpLate
  <1> DEFINE Justified(m) ==
               row[m].attempts = MaxAttempts
               \/ \E n \in Notifier : /\ notifier[n].token = row[m].token
                                      /\ notifier[n].result = "permanent"
  <1>1. ASSUME OutboxInv, [OutboxNext]_outboxVars, NEW m \in Message,
               row[m].status # "dead_letter", row'[m].status = "dead_letter"
        PROVE  Justified(m)
    <2>1. ASSUME NEW n \in Notifier, Fail(n) \/ Complete(n)
          PROVE  Justified(m)
      <3>1. /\ Holds(n) /\ m = notifier[n].message
            /\ notifier[n].result = "permanent" \/ Exhausted(n)
        BY <1>1, <2>1, WriteBackEffect
      <3>2. CASE Exhausted(n)
        BY <1>1, <3>1, <3>2, OutboxTypes, OutboxAssumption DEF Exhausted, OutboxInv
      <3>3. CASE notifier[n].result = "permanent"
        BY <3>1, <3>3 DEF Holds
      <3> QED BY <3>1, <3>2, <3>3
    <2>2. ASSUME NEW n \in Notifier, WriteSelected(n)
          PROVE  FALSE
      <3>1. row'[m].status \in {row[m].status, "running"}
        BY <1>1, <2>2, WriteEffect
      <3> QED BY <1>1, <3>1
    <2>3. CASE Tick
      BY <1>1, <2>3, TickEffect
    <2>4. ASSUME NEW n \in Notifier, (\E j \in Message : Select(n, j)) \/ Deliver(n) \/ Crash(n)
          PROVE  FALSE
      BY <1>1, <2>4, LocalEffect DEF Select
    <2>5. ASSUME NEW j \in Message, Toggle(j)
          PROVE  FALSE
      BY <1>1, <2>5 DEF Toggle
    <2>6. CASE UNCHANGED outboxVars
      BY <1>1, <2>6 DEF outboxVars
    <2> HIDE DEF Justified
    <2> QED
      BY <1>1, <2>1, <2>2, <2>3, <2>4, <2>5, <2>6 DEF OutboxNext, Proceed
  <1>2. OutboxInv /\ [OutboxNext]_outboxVars
        => [\A m \in Message :
              row[m].status # "dead_letter" /\ row'[m].status = "dead_letter"
              => Justified(m)]_outboxVars
    BY <1>1
  <1> QED BY <1>2, OutboxSafety, PTL DEF OutboxSpec, GivesUpLate

-----------------------------------------------------------------------------
(* The outbox implements the life of each message *)

\* A claim in progress counts from the row's attempts, and whoever still delivers has
\* no answer.
AnswersFollow ==
    \A n \in Notifier :
        /\ notifier[n].pc = "selected" =>
             notifier[n].attempts = row[notifier[n].message].attempts
        /\ notifier[n].pc = "claimed" => notifier[n].result = "none"

LifeInv == OutboxInv /\ AnswersFollow

LEMMA NextKeepsAnswersFollow ==
    ASSUME LifeInv, [OutboxNext]_outboxVars
    PROVE  AnswersFollow'
  <1> USE DEF LifeInv
  <1>1. ASSUME NEW n \in Notifier, NEW m \in Message, Select(n, m)
        PROVE  AnswersFollow'
    BY <1>1, SelectEffect DEF AnswersFollow
  <1>2. ASSUME NEW n \in Notifier, WriteSelected(n)
        PROVE  AnswersFollow'
    <2> DEFINE m == notifier[n].message
    <2>1. /\ notifier[n].pc = "selected" /\ m \in Message
          /\ \A j \in Message \ {m} : row'[j] = row[j]
          /\ \A k \in Notifier \ {n} : notifier'[k] = notifier[k]
          /\ notifier'[n].pc = "claimed" /\ notifier'[n].result = "none"
      BY <1>2, WriteEffect
    <2>2. ASSUME NEW k \in Notifier \ {n}, notifier[k].pc = "selected"
          PROVE  notifier[k].message \in Message \ {m}
      BY <2>1, <2>2 DEF OutboxInv, NotifiersFit, SelectionsHold
    <2> HIDE DEF m
    <2> QED
      BY <2>1, <2>2 DEF AnswersFollow
  <1>3. ASSUME NEW n \in Notifier, Deliver(n) \/ Crash(n)
        PROVE  AnswersFollow'
    BY <1>3, LocalEffect, IdleIsNotifier DEF AnswersFollow
  <1>4. ASSUME NEW n \in Notifier, Fail(n) \/ Complete(n)
        PROVE  AnswersFollow'
    <2>1. /\ ~Locked(notifier[n].message)
          /\ \A k \in Notifier \ {n} : notifier'[k] = notifier[k]
          /\ notifier'[n] = Idle
          /\ \A j \in Message : row'[j] # row[j] => j = notifier[n].message
      BY <1>4, WriteBackEffect
    <2>2. ASSUME NEW k \in Notifier, notifier[k].pc = "selected"
          PROVE  row'[notifier[k].message] = row[notifier[k].message]
      BY <2>1, <2>2 DEF Locked, OutboxInv, NotifiersFit
    <2> QED
      BY <2>1, <2>2, IdleIsNotifier DEF AnswersFollow
  <1>5. CASE Tick
    BY <1>5, TickEffect DEF AnswersFollow
  <1>6. ASSUME NEW m \in Message, Toggle(m)
        PROVE  AnswersFollow'
    BY <1>6 DEF Toggle, AnswersFollow
  <1>7. CASE UNCHANGED outboxVars
    BY <1>7 DEF outboxVars, AnswersFollow
  <1> QED
    BY <1>1, <1>2, <1>3, <1>4, <1>5, <1>6, <1>7 DEF OutboxNext, Proceed

OwnersKnown ==
    /\ \A n \in Notifier, m \in Message :
          Presents(n, m) => OwnerOf(m) = n /\ AnswerOf(m) = notifier[n].result
    /\ \A m \in Message : (\A n \in Notifier : ~Presents(n, m))
                          => OwnerOf(m) = NoNotifier /\ AnswerOf(m) = "none"

\* The owner of a message is the notifier that presents its token, if there is one.
LEMMA OwnerIsHolder == OutboxInv => OwnersKnown
  <1> SUFFICES ASSUME OutboxInv PROVE OwnersKnown
    OBVIOUS
  <1>1. ASSUME NEW n \in Notifier, NEW m \in Message, Presents(n, m)
        PROVE  OwnerOf(m) = n /\ AnswerOf(m) = notifier[n].result
    <2>1. OwnerOf(m) \in Notifier /\ Presents(OwnerOf(m), m)
      BY <1>1 DEF OwnerOf
    <2>2. OwnerOf(m) = n
      BY <1>1, <2>1 DEF Presents, Holds, OutboxInv, TokensDiffer
    <2> QED
      BY <1>1, <2>2 DEF AnswerOf
  <1>2. ASSUME NEW m \in Message, \A n \in Notifier : ~Presents(n, m)
        PROVE  OwnerOf(m) = NoNotifier /\ AnswerOf(m) = "none"
    BY <1>2 DEF OwnerOf, AnswerOf
  <1> QED
    BY <1>1, <1>2 DEF OwnersKnown

LifeStep(m) == Life(m)!Next \/ UNCHANGED Life(m)!vars

\* Where the row, its rule and its owner stay, the message's life stands still.
LEMMA NothingHappens ==
    ASSUME OwnersKnown, OwnersKnown', NEW m \in Message,
           row'[m] = row[m], deliverable'[m] = deliverable[m],
           \A n \in Notifier : Presents(n, m)' <=> Presents(n, m),
           \A n \in Notifier : Presents(n, m) => notifier'[n].result = notifier[n].result
    PROVE  LifeStep(m)
  <1>1. OwnerOf(m)' = OwnerOf(m) /\ AnswerOf(m)' = AnswerOf(m)
    <2>1. CASE \E n \in Notifier : Presents(n, m)
      BY <2>1 DEF OwnersKnown
    <2>2. CASE ~ \E n \in Notifier : Presents(n, m)
      BY <2>2 DEF OwnersKnown
    <2> QED
      BY <2>1, <2>2
  <1> QED
    BY <1>1 DEF LifeStep, Life!vars

\* Of the others' holds on a message whose row stays, none changes.
LEMMA PresentsKept ==
    ASSUME NEW m \in Message, NEW n \in Notifier,
           row'[m].status = row[m].status, row'[m].token = row[m].token,
           notifier'[n] = notifier[n]
    PROVE  Presents(n, m)' <=> Presents(n, m)
  BY DEF Presents, Holds

LEMMA SelectMaps ==
    ASSUME LifeInv, OwnersKnown, OwnersKnown', NEW n \in Notifier, NEW j \in Message,
           Select(n, j), NEW m \in Message
    PROVE  LifeStep(m)
  <1>1. /\ UNCHANGED <<row, deliverable>>
        /\ \A k \in Notifier \ {n} : notifier'[k] = notifier[k]
        /\ notifier[n].pc = "idle" /\ notifier'[n].pc = "selected"
    BY SelectEffect DEF LifeInv
  <1>2. ~Presents(n, m) /\ ~Presents(n, m)'
    BY <1>1 DEF Presents
  <1>3. \A k \in Notifier \ {n} : Presents(k, m)' <=> Presents(k, m)
    BY <1>1, PresentsKept
  <1> QED
    BY <1>1, <1>2, <1>3, NothingHappens

\* The second half of a claim is the claim of one message and nothing to the others.
LEMMA WriteMaps ==
    ASSUME LifeInv, OwnersKnown, OwnersKnown', NEW n \in Notifier, WriteSelected(n),
           NEW m \in Message
    PROVE  LifeStep(m)
  <1> DEFINE u == notifier[n].message
  <1>1. PICK t \in Token :
          /\ UNCHANGED deliverable
          /\ u \in Message
          /\ \A j \in Message \ {u} : row'[j] = row[j]
          /\ row'[u].status = "running" /\ row'[u].wait = row[u].wait
          /\ row'[u].lease = Lease /\ row'[u].token = t
          /\ row'[u].attempts = Smaller(notifier[n].attempts + 1, MaxAttempts)
          /\ \A k \in Notifier \ {n} : notifier'[k] = notifier[k]
          /\ notifier'[n].pc = "claimed" /\ notifier'[n].message = u
          /\ notifier'[n].token = t /\ notifier'[n].result = "none"
          /\ notifier[n].pc = "selected"
    BY WriteEffect DEF LifeInv
  <1>2. /\ Claimable(u) /\ notifier[n].attempts = row[u].attempts
    BY <1>1 DEF LifeInv, OutboxInv, SelectionsHold, AnswersFollow
  <1> HIDE DEF u
  <1>3. CASE m # u
    <2>1. ~Presents(n, m) /\ ~Presents(n, m)'
      BY <1>1, <1>3 DEF Presents
    <2>2. \A k \in Notifier \ {n} : Presents(k, m)' <=> Presents(k, m)
      BY <1>1, <1>3, PresentsKept
    <2> QED
      BY <1>1, <1>3, <2>1, <2>2, NothingHappens
  <1>4. CASE m = u
    <2>1. Presents(n, m)'
      BY <1>1, <1>4, OutboxAssumption DEF Presents, Holds
    <2>2. OwnerOf(m)' = n /\ AnswerOf(m)' = "none"
      BY <1>1, <2>1 DEF OwnersKnown
    <2>3. row'[m].attempts = IF row[m].attempts < MaxAttempts THEN row[m].attempts + 1
                             ELSE MaxAttempts
      BY <1>1, <1>2, <1>4, OutboxTypes, OutboxAssumption DEF LifeInv, OutboxInv, Smaller
    <2>4. Life(m)!Claim(n)
      BY <1>1, <1>2, <1>4, <2>2, <2>3 DEF Life!Claim, Claimable
    <2> QED
      BY <2>4 DEF LifeStep, Life!Next
  <1> QED
    BY <1>3, <1>4

\* An answer matters to the message its notifier owns, and so does a crash.
LEMMA LocalMaps ==
    ASSUME LifeInv, OwnersKnown, OwnersKnown', NEW n \in Notifier,
           Deliver(n) \/ Crash(n), NEW m \in Message
    PROVE  LifeStep(m)
  <1>1. /\ UNCHANGED <<row, deliverable>>
        /\ \A k \in Notifier \ {n} : notifier'[k] = notifier[k]
        /\ \/ notifier'[n] = Idle
           \/ /\ notifier[n].pc = "claimed" /\ notifier'[n].pc = "answered"
              /\ notifier'[n].message = notifier[n].message
              /\ notifier'[n].token = notifier[n].token
              /\ notifier'[n].result \in Result
    BY LocalEffect DEF LifeInv
  <1>2. \A k \in Notifier \ {n} : Presents(k, m)' <=> Presents(k, m)
    BY <1>1, PresentsKept
  <1>3. CASE ~Presents(n, m)
    <2>1. ~Presents(n, m)'
      BY <1>1, <1>3, IdleIsNotifier DEF Presents, Holds
    <2> QED
      BY <1>1, <1>2, <1>3, <2>1, NothingHappens
  <1>4. CASE Presents(n, m)
    <2>1. OwnerOf(m) = n /\ AnswerOf(m) = notifier[n].result /\ n # NoNotifier
      BY <1>4, NoNotifierAssumption DEF OwnersKnown
    <2>2. \A k \in Notifier \ {n} : ~Presents(k, m)'
      BY <1>2, <1>4 DEF OwnersKnown
    <2>3. CASE notifier'[n] = Idle
      <3>1. ~Presents(n, m)'
        BY <2>3, IdleIsNotifier DEF Presents
      <3>2. OwnerOf(m)' = NoNotifier /\ AnswerOf(m)' = "none"
        BY <2>2, <3>1 DEF OwnersKnown
      <3>3. Life(m)!Abandon
        BY <1>1, <2>1, <3>2 DEF Life!Abandon
      <3> QED
        BY <3>3 DEF LifeStep, Life!Next
    <2>4. CASE notifier'[n] # Idle
      <3>1. Presents(n, m)'
        BY <1>1, <1>4, <2>4 DEF Presents, Holds
      <3>2. OwnerOf(m)' = n /\ AnswerOf(m)' \in Result
        BY <1>1, <2>4, <3>1 DEF OwnersKnown
      <3>3. AnswerOf(m) = "none"
        BY <1>1, <2>1, <2>4 DEF LifeInv, AnswersFollow
      <3>4. Life(m)!Deliver
        BY <1>1, <2>1, <3>2, <3>3 DEF Life!Deliver, Result
      <3> QED
        BY <3>4 DEF LifeStep, Life!Next
    <2> QED
      BY <2>3, <2>4
  <1> QED
    BY <1>3, <1>4

\* What the write back of the holder leaves in the row: its answer decides.
LEMMA WriteBackDecides ==
    ASSUME OutboxInv, NEW n \in Notifier, Fail(n) \/ Complete(n), Holds(n)
    PROVE  LET m == notifier[n].message
               Becomes(status, wait) == row'[m].status = status /\ row'[m].wait = wait
           IN  /\ m \in Message /\ row'[m].token = NoToken
               /\ row'[m].lease = 0 /\ row'[m].attempts = row[m].attempts
               /\ \/ notifier[n].result = "success" /\ Becomes("sent", 0)
                  \/ notifier[n].result = "suppressed" /\ Becomes("skipped", 0)
                  \/ /\ \/ notifier[n].result = "permanent"
                        \/ notifier[n].result = "retryable" /\ row[m].attempts = MaxAttempts
                     /\ Becomes("dead_letter", 0)
                  \/ /\ notifier[n].result = "retryable" /\ row[m].attempts < MaxAttempts
                     /\ \E delay \in 0..RetryMax : Becomes("pending", delay)
  <1> DEFINE m == notifier[n].message
             Left(status, wait) ==
               /\ row'[m].token = NoToken /\ row'[m].lease = 0
               /\ row'[m].attempts = row[m].attempts
               /\ row'[m].status = status /\ row'[m].wait = wait
  <1>1. /\ m \in Message /\ row[m] \in Row /\ row[m].attempts \in 0..MaxAttempts
        /\ row[m].status = "running" /\ row[m].wait = 0
    BY OutboxTypes DEF Holds, OutboxInv, NotifierState, RowsRest
  <1>2. ASSUME NEW status, NEW wait, Finish(n, status, wait)
        PROVE  Left(status, wait)
    <2> DEFINE new == [row[m] EXCEPT !.status = status, !.wait = wait, !.lease = 0,
                                     !.token = NoToken]
    <2>1. /\ new.token = NoToken /\ new.lease = 0 /\ new.attempts = row[m].attempts
          /\ new.status = status /\ new.wait = wait
      BY <1>1 DEF Row
    <2>2. row' = [row EXCEPT ![m] = new]
      BY <1>2 DEF Finish
    <2> HIDE DEF new
    <2>3. row'[m] = new
      BY <1>1, <2>2 DEF OutboxInv, OutboxTypeOK
    <2> QED
      BY <2>1, <2>3
  <1>3. CASE Fail(n)
    <2> DEFINE delay == IF notifier[n].retryAfter > 0
                        THEN Smaller(notifier[n].retryAfter, RetryMax)
                        ELSE RetryDelay(notifier[n].attempts)
    <2>1. delay \in 0..RetryMax
      BY OutboxTypes, RetryDelayIsBounded, OutboxAssumption DEF OutboxInv, Smaller, NoDelay
    <2>2. /\ notifier[n].result \in {"retryable", "permanent"}
          /\ IF notifier[n].result = "permanent" \/ Exhausted(n)
             THEN Finish(n, "dead_letter", 0) ELSE Finish(n, "pending", delay)
      BY <1>3 DEF Fail
    <2>3. Exhausted(n) <=> row[m].attempts = MaxAttempts
      BY <1>1, OutboxAssumption DEF Exhausted
    <2>4. row[m].attempts # MaxAttempts => row[m].attempts < MaxAttempts
      BY <1>1, OutboxAssumption
    <2> HIDE DEF delay
    <2>5. CASE notifier[n].result = "permanent" \/ Exhausted(n)
      <3>1. Left("dead_letter", 0)
        BY <1>2, <2>2, <2>5
      <3> QED
        BY <1>1, <2>2, <2>3, <2>5, <3>1
    <2>6. CASE ~(notifier[n].result = "permanent" \/ Exhausted(n))
      <3>1. Left("pending", delay)
        BY <1>2, <2>2, <2>6
      <3> QED
        BY <1>1, <2>1, <2>2, <2>3, <2>4, <2>6, <3>1
    <2> QED
      BY <2>5, <2>6
  <1>4. CASE Complete(n)
    <2>1. /\ notifier[n].result \in {"success", "suppressed"}
          /\ Finish(n, IF notifier[n].result = "success" THEN "sent" ELSE "skipped", 0)
      BY <1>1, <1>4 DEF Complete
    <2>2. Left(IF notifier[n].result = "success" THEN "sent" ELSE "skipped", 0)
      BY <1>2, <2>1
    <2> QED
      BY <1>1, <2>1, <2>2
  <1> QED
    BY <1>3, <1>4

\* A write back is the end, the retry or nothing in the life of one message.
LEMMA WriteBackMaps ==
    ASSUME LifeInv, OwnersKnown, OwnersKnown', NEW n \in Notifier,
           Fail(n) \/ Complete(n), NEW m \in Message
    PROVE  LifeStep(m)
  <1>1. /\ UNCHANGED deliverable
        /\ Delivering(n)
        /\ \A k \in Notifier \ {n} : notifier'[k] = notifier[k]
        /\ notifier'[n] = Idle
        /\ \A j \in Message : row'[j] # row[j] => Holds(n) /\ j = notifier[n].message
    BY WriteBackEffect DEF LifeInv
  <1>2. ~Presents(n, m)'
    BY <1>1, IdleIsNotifier DEF Presents
  <1>3. CASE ~Presents(n, m)
    <2>1. row'[m] = row[m]
      BY <1>1, <1>3 DEF Presents, Delivering
    <2>2. \A k \in Notifier \ {n} : Presents(k, m)' <=> Presents(k, m)
      BY <1>1, <2>1, PresentsKept
    <2> QED
      BY <1>1, <1>2, <1>3, <2>1, <2>2, NothingHappens
  <1>4. CASE Presents(n, m)
    <2>1. Holds(n) /\ m = notifier[n].message
      BY <1>4 DEF Presents
    <2>2. OwnerOf(m) = n /\ AnswerOf(m) = notifier[n].result
      BY <1>4 DEF OwnersKnown
    <2>3. /\ row'[m].token = NoToken /\ row'[m].lease = 0
          /\ row'[m].attempts = row[m].attempts
          /\ \/ /\ notifier[n].result = "success"
                /\ row'[m].status = "sent" /\ row'[m].wait = 0
             \/ /\ notifier[n].result = "suppressed"
                /\ row'[m].status = "skipped" /\ row'[m].wait = 0
             \/ /\ \/ notifier[n].result = "permanent"
                   \/ notifier[n].result = "retryable" /\ row[m].attempts = MaxAttempts
                /\ row'[m].status = "dead_letter" /\ row'[m].wait = 0
             \/ /\ notifier[n].result = "retryable" /\ row[m].attempts < MaxAttempts
                /\ \E delay \in 0..RetryMax :
                     row'[m].status = "pending" /\ row'[m].wait = delay
      BY <2>1, WriteBackDecides DEF LifeInv
    <2>4. \A k \in Notifier : ~Presents(k, m)'
      BY <2>3 DEF Presents, Holds
    <2>5. OwnerOf(m)' = NoNotifier /\ AnswerOf(m)' = "none"
      BY <2>4 DEF OwnersKnown
    <2>6. Life(m)!Complete \/ Life(m)!Suppress \/ Life(m)!GiveUp \/ Life(m)!Retry
      BY <1>1, <2>2, <2>3, <2>5
         DEF Life!Complete, Life!Suppress, Life!GiveUp, Life!Retry, Life!WriteBack
    <2> QED
      BY <2>6 DEF LifeStep, Life!Next
  <1> QED
    BY <1>3, <1>4

LEMMA ToggleMaps ==
    ASSUME LifeInv, OwnersKnown, OwnersKnown', NEW j \in Message, Toggle(j),
           NEW m \in Message
    PROVE  LifeStep(m)
  <1>1. UNCHANGED <<row, notifier>> /\ deliverable' = [deliverable EXCEPT ![j] = ~deliverable[j]]
    BY DEF Toggle
  <1>2. \A k \in Notifier : Presents(k, m)' <=> Presents(k, m)
    BY <1>1, PresentsKept
  <1>3. CASE m # j
    <2>1. deliverable'[m] = deliverable[m]
      BY <1>1, <1>3 DEF LifeInv, OutboxInv, OutboxTypeOK
    <2> QED
      BY <1>1, <1>2, <2>1, NothingHappens
  <1>4. CASE m = j
    <2>1. deliverable'[m] = ~deliverable[m]
      BY <1>1, <1>4 DEF LifeInv, OutboxInv, OutboxTypeOK
    <2>2. OwnerOf(m)' = OwnerOf(m) /\ AnswerOf(m)' = AnswerOf(m)
      BY <1>1 DEF OwnerOf, AnswerOf, Presents, Holds
    <2>3. Life(m)!Toggle
      BY <1>1, <2>1, <2>2 DEF Life!Toggle
    <2> QED
      BY <2>3 DEF LifeStep, Life!Next
  <1> QED
    BY <1>3, <1>4

LEMMA TickMaps ==
    ASSUME LifeInv, OwnersKnown, OwnersKnown', Tick, NEW m \in Message
    PROVE  LifeStep(m)
  <1>1. /\ UNCHANGED <<deliverable, notifier>>
        /\ \A j \in Message :
             /\ row'[j].status = row[j].status /\ row'[j].token = row[j].token
             /\ row'[j].attempts = row[j].attempts
             /\ row'[j].wait = CountDown(row[j].wait)
             /\ row'[j].lease = CountDown(row[j].lease)
    BY TickEffect DEF LifeInv
  <1>2. \A k \in Notifier : Presents(k, m)' <=> Presents(k, m)
    BY <1>1, PresentsKept
  <1>3. OwnerOf(m)' = OwnerOf(m) /\ AnswerOf(m)' = AnswerOf(m)
    <2>1. CASE \E n \in Notifier : Presents(n, m)
      BY <1>1, <1>2, <2>1 DEF OwnersKnown
    <2>2. CASE ~ \E n \in Notifier : Presents(n, m)
      BY <1>2, <2>2 DEF OwnersKnown
    <2> QED
      BY <2>1, <2>2
  <1>4. Life(m)!Tick
    BY <1>1, <1>3 DEF Life!Tick, Life!CountDown, CountDown
  <1> QED
    BY <1>4 DEF LifeStep, Life!Next

\* The outbox implements the abstract life of every message: no claim before its
\* time or under a rule that is off, and no end but the one that the answer of its
\* current owner names.
THEOREM DeliveryImplemented == OutboxSpec => ImplementsDelivery
  <1>1. OutboxInit => AnswersFollow /\ \A m \in Message : Life(m)!Init
    <2> SUFFICES ASSUME OutboxInit
                 PROVE  AnswersFollow /\ \A m \in Message : Life(m)!Init
      OBVIOUS
    <2>1. \A n \in Notifier : notifier[n].pc = "idle"
      BY IdleIsNotifier DEF OutboxInit
    <2>2. ASSUME NEW m \in Message PROVE Life(m)!Init
      <3>1. OwnerOf(m) = NoNotifier /\ AnswerOf(m) = "none"
        BY <2>1 DEF OwnerOf, AnswerOf, Presents
      <3> QED
        BY <3>1 DEF OutboxInit, Life!Init
    <2> QED
      BY <2>1, <2>2 DEF AnswersFollow
  <1>2. LifeInv /\ [OutboxNext]_outboxVars => AnswersFollow'
    BY NextKeepsAnswersFollow
  <1>3. OutboxInv => OwnersKnown
    BY OwnerIsHolder
  <1>4. ASSUME LifeInv, OwnersKnown, OwnersKnown', [OutboxNext]_outboxVars, NEW m \in Message
        PROVE  LifeStep(m)
    <2>1. CASE UNCHANGED outboxVars
      <3>1. UNCHANGED <<row, deliverable, notifier>>
        BY <2>1 DEF outboxVars
      <3>2. \A k \in Notifier : Presents(k, m)' <=> Presents(k, m)
        BY <3>1, PresentsKept
      <3> QED
        BY <1>4, <3>1, <3>2, NothingHappens
    <2> QED
      BY <1>4, <2>1, SelectMaps, WriteMaps, LocalMaps, WriteBackMaps, ToggleMaps, TickMaps
         DEF OutboxNext, Proceed
  <1>5. LifeInv /\ OwnersKnown /\ OwnersKnown' /\ [OutboxNext]_outboxVars
        => [\A m \in Message : Life(m)!Next \/ UNCHANGED Life(m)!vars]_outboxVars
    BY <1>4 DEF LifeStep
  <1> QED
    BY <1>1, <1>2, <1>3, <1>5, OutboxSafety, PTL DEF OutboxSpec, ImplementsDelivery, LifeInv
=============================================================================
