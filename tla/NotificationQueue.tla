-------------------------- MODULE NotificationQueue --------------------------
(***************************************************************************)
(* Queuing of notifications: which finished domain check puts which events  *)
(* into notification_outbox, in the transaction that records the check, and *)
(* how the unique deduplication key keeps repeats out.  One user, a day as  *)
(* the unit of time; what is sent from the outbox is NotificationOutbox.    *)
(***************************************************************************)
EXTENDS Integers, FiniteSets

CONSTANTS
    Rule,           \* notification rules the user may create
    Domain,         \* the user's domains
    AnyDomain,      \* managed_domain_id NULL: the rule is for every domain
    Absent,         \* no such row
    DaysBefore,     \* the days_before values rules use
    MaxDay,         \* bound: days and expiry dates
    MaxChecks       \* bound: finished checks

ASSUME QueueAssumption ==
    /\ DaysBefore \subseteq Nat /\ MaxDay \in Nat /\ MaxChecks \in Nat
    /\ AnyDomain \notin Domain

VARIABLES
    rule,     \* notification_rule rows; Absent before creation
    outbox,   \* notification_outbox rows, as far as queuing reads them
    domain,   \* managed_domain: what the last success stored
    registry, \* the expiry date the registrar reports now
    smtp,     \* global setting smtp_enabled
    today,
    checks    \* finished checks so far; the latest one's id

vars == <<rule, outbox, domain, registry, smtp, today, checks>>

Day == 0..MaxDay
Event == {"domain.expiration_warning", "domain.status_changed", "domain.query_failed"}
Scope == Domain \cup {AnyDomain}

\* A deleted rule stays as a disabled row.
RuleRow == [event : Event, scope : Scope, days : DaysBefore,
            channel : {"email", "webhook"}, enabled : BOOLEAN, deleted : BOOLEAN]

\* The key names a check, or a date and a number of days; None elsewhere.
None == -1
Key == [rule : Rule, event : Event, check : 0..MaxChecks \cup {None},
        date : Day \cup {None}, days : DaysBefore \cup {None}]
OutboxRow == [key : Key, domain : Domain, check : 0..MaxChecks]

\* warnable: the stored expiration_status is active or grace_period.
DomainRow == [expires : Day \cup {None}, warnable : BOOLEAN, check : 0..MaxChecks]

-----------------------------------------------------------------------------
(* Helpers *)

\* The rules an event of a domain is queued for.  An email rule is passed over
\* while SMTP is off.
Matching(event, d) ==
    {r \in Rule :
        /\ rule[r] # Absent
        /\ rule[r].enabled /\ rule[r].event = event
        /\ rule[r].scope \in {AnyDomain, d}
        /\ rule[r].channel = "email" => smtp}

Due(r, date) == date <= today + rule[r].days

CheckKey(r, event, check) ==
    [rule |-> r, event |-> event, check |-> check, date |-> None, days |-> None]

\* Mutant: the key of a warning names the check, like the other events' keys.
WarningKey_PerCheck(r, date, check) ==
    CheckKey(r, "domain.expiration_warning", check)

\* Mutant: the date is left out, so a rule warns once in its life.
WarningKey_NoDate(r, date, check) ==
    [rule |-> r, event |-> "domain.expiration_warning", check |-> None,
     date |-> None, days |-> rule[r].days]

\* The key of a warning: rule, expiry date and days, but not the domain.
WarningKey(r, date, check) ==
    [rule |-> r, event |-> "domain.expiration_warning", check |-> None,
     date |-> date, days |-> rule[r].days]

\* _add_outbox in its savepoint: a row whose key exists is dropped silently.
AddOutbox(d, check, keys) ==
    outbox \cup {[key |-> k, domain |-> d, check |-> check] :
                    k \in {k \in keys : \A row \in outbox : row.key # k}}

-----------------------------------------------------------------------------

\* The row a valid request leaves, whatever its other fields.
SaveRule(r, enabled) ==
    /\ \E event \in Event, scope \in Scope, days \in DaysBefore,
          channel \in {"email", "webhook"} :
        rule' = [rule EXCEPT ![r] =
              [event |-> event, scope |-> scope, days |-> days,
               channel |-> channel, enabled |-> enabled, deleted |-> FALSE]]
    /\ UNCHANGED <<outbox, domain, registry, smtp, today, checks>>

\* POST notification-rules: a new rule is enabled.
CreateRule(r) == rule[r] = Absent /\ SaveRule(r, TRUE)

\* PATCH notification-rules: any field may change.
UpdateRule(r) ==
    /\ rule[r] # Absent /\ ~rule[r].deleted
    /\ \E enabled \in BOOLEAN : SaveRule(r, enabled)

DeleteRule(r) ==
    /\ rule[r] # Absent /\ ~rule[r].deleted
    /\ rule' = [rule EXCEPT ![r].enabled = FALSE, ![r].deleted = TRUE]
    /\ UNCHANGED <<outbox, domain, registry, smtp, today, checks>>

SetSmtp ==
    /\ smtp' = ~smtp
    /\ UNCHANGED <<rule, outbox, domain, registry, today, checks>>

\* The owner renews the domain at its registrar.
Renew(d) ==
    /\ registry[d] < MaxDay
    /\ registry' = [registry EXCEPT ![d] = @ + 1]
    /\ UNCHANGED <<rule, outbox, domain, smtp, today, checks>>

NextDay ==
    /\ today < MaxDay
    /\ today' = today + 1
    /\ UNCHANGED <<rule, outbox, domain, registry, smtp, checks>>

\* The snapshot of the last success; Absent before the first.
PreviousSuccess(d) == IF domain[d].check = 0 THEN Absent ELSE domain[d]

\* Whether the snapshot of a success differs from the previous one: the first has
\* no changes, and fields that are left out here may differ too.
Changed(d, date, warnable) ==
    LET last == PreviousSuccess(d)
    IN  IF last = Absent THEN {FALSE}
        ELSE IF last.expires # date \/ last.warnable # warnable THEN {TRUE}
        ELSE BOOLEAN

\* complete_success: the snapshot goes into the domain row, a change of it is
\* told to the status rules, and an expiry date that is known and not final to
\* the expiration rules.
CheckSucceeds(d) ==
    /\ checks < MaxChecks
    /\ \E warnable \in BOOLEAN, date \in {registry[d], None} :
       \E changed \in Changed(d, date, warnable) :
        LET check == checks + 1
            changes == IF changed THEN Matching("domain.status_changed", d) ELSE {}
            warned == IF warnable /\ date # None
                      THEN {r \in Matching("domain.expiration_warning", d) : Due(r, date)}
                      ELSE {}
        IN  /\ outbox' = AddOutbox(d, check,
                  {CheckKey(r, "domain.status_changed", check) : r \in changes}
                  \cup {WarningKey(r, date, check) : r \in warned})
            /\ domain' = [domain EXCEPT ![d] = [expires |-> date,
                              warnable |-> warnable, check |-> check]]
            /\ checks' = check
    /\ UNCHANGED <<rule, registry, smtp, today>>

\* complete_failure: every failed attempt is told, a retried one too.
CheckFails(d) ==
    /\ checks < MaxChecks
    /\ LET check == checks + 1
       IN  /\ outbox' = AddOutbox(d, check,
                 {CheckKey(r, "domain.query_failed", check) :
                    r \in Matching("domain.query_failed", d)})
           /\ checks' = check
    /\ UNCHANGED <<rule, domain, registry, smtp, today>>

-----------------------------------------------------------------------------

Init ==
    /\ rule = [r \in Rule |-> Absent]
    /\ outbox = {}
    /\ domain = [d \in Domain |-> [expires |-> None, warnable |-> FALSE, check |-> 0]]
    /\ registry \in [Domain -> Day]
    /\ smtp \in BOOLEAN
    /\ today = 0
    /\ checks = 0

Next ==
    \/ \E r \in Rule : CreateRule(r) \/ UpdateRule(r) \/ DeleteRule(r)
    \/ \E d \in Domain : Renew(d) \/ CheckSucceeds(d) \/ CheckFails(d)
    \/ SetSmtp
    \/ NextDay

Spec == Init /\ [][Next]_vars

-----------------------------------------------------------------------------
(* Properties *)

\* Every variable keeps its type.
TypeOK ==
    /\ rule \in [Rule -> RuleRow \cup {Absent}]
    /\ outbox \subseteq OutboxRow
    /\ domain \in [Domain -> DomainRow]
    /\ registry \in [Domain -> Day]
    /\ smtp \in BOOLEAN
    /\ today \in Day
    /\ checks \in 0..MaxChecks

\* The warning outbox rows of one rule, domain and expiry date: one for each
\* days_before the rule has had, however often the domain is checked.
OneWarningPerDate ==
    \A a, b \in outbox :
        /\ a.key.event = "domain.expiration_warning"
        /\ a.key.event = b.key.event /\ a.key.rule = b.key.rule
        /\ a.key.date = b.key.date /\ a.key.days = b.key.days
        /\ a.domain = b.domain
        => a = b

\* The expiry date that a check of d just stored is in rule r's warning window.
InWindow(r, d) ==
    LET row == domain'[d]
    IN  /\ row.check # domain[d].check /\ row.warnable /\ row.expires # None
        /\ r \in Matching("domain.expiration_warning", d) /\ Due(r, row.expires)

\* An expiry date that a successful check finds in a rule's warning window has a
\* warning in the outbox, queued now or by an earlier check of a domain with that
\* date: after a renewal the new date warns again, and what was passed over while
\* SMTP was off or the rule was disabled is made up for.
WindowIsWarned ==
    [][\A d \in Domain, r \in Rule : InWindow(r, d) =>
         \E w \in outbox' : /\ w.key.rule = r /\ w.key.date = domain'[d].expires
                            /\ w.key.event = "domain.expiration_warning"
                            /\ w.key.days = rule[r].days]_vars

\* ... for that very domain.
DomainIsWarned ==
    [][\A d \in Domain, r \in Rule : InWindow(r, d) =>
         \E w \in outbox' : w.domain = d /\ w.key.rule = r
                            /\ w.key.date = domain'[d].expires]_vars
=============================================================================
