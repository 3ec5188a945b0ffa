# Specifications of DomainsManager

TLA+ modules for the core of DomainsManager, the TLC configurations that check
them and the theorems proved about them with TLAPS. Paths are relative to the
repository; `persistence/` stands for `domainsmanager_persistence/`, and likewise
`application/`, `lookup/` and `api/`.

## 1. The system

Four kinds of process share one database (PostgreSQL, or SQLite for a local
server and tests): the API, the scheduler, the workers and the notifiers.
`domainsmanager-server` runs all four in one process. They do not send each
other messages: every interaction is a row that one process writes and another
reads, and every step is a database transaction (unit of work in
`persistence/auth.py`). What is between two transactions of one process (a
registry lookup, a webhook request, the exchange of an OAuth code) can take any
time, and the process can end in it. Within a transaction at READ COMMITTED,
rows that were read without a lock may have changed when they are written.

| Component | State it keeps | Operations | Hard behaviour |
|---|---|---|---|
| Refresh task queue (`persistence/tasks.py`, `application/tasks.py`, `api/worker.py`) | `domain_refresh_task`, `idempotency_record` | add and merge, claim, renew, complete, defer, fail | leases that run out under a live worker, late results, retries, cooldowns, crashes |
| Domain scheduling (`persistence/domains.py`, `application/scheduler.py`) | `managed_domain.next_check_at`, monitoring, soft delete | claim due domains, spread a backlog | several schedulers, restarts, requests that meet scheduled work |
| Domain edits (`application/domains.py`, `persistence/domains.py`, `api/api/admin.py`) | `managed_domain`, its version | create, restore, list, get, update, delete | stale pages, owner against administrator, results stored meanwhile |
| Endpoint gate (`lookup/endpoint_gate.py`, `persistence/lookup_store.py`, `lookup/memory_store.py`) | `endpoint_request_gate` | acquire, poll, renew, release, block | lost leases, late 429 answers, crashed holders, backoff |
| Lookup service and cache (`lookup/_internal/services/`, `persistence/lookup_store.py`) | cached responses and endpoints, a lock per suffix and process | lookup, discover, query, save, enrich | failures of every step, cancellation, out-of-order saves |
| Clients and parsers (`lookup/_internal/clients/`, `.../parsers/`) | none | classify replies, extract fields | which reply is which outcome |
| Notification queuing (`persistence/tasks.py`, `application/notifications.py`) | `notification_rule`, `notification_outbox` keys | rule edits, queue in the check's transaction | repeats, deduplication, renewals, SMTP off |
| Notification delivery (`persistence/notifications.py`, `api/notifier.py`) | `notification_outbox` | claim, deliver, complete, fail, suppress | crashes after the send, slow deliveries |
| Authentication (`application/services.py`, `persistence/auth.py`) | users, sessions, refresh tokens | register, login, rotate, log out, change password, ban, revoke | refresh replay, revocation during rotation, lock order |
| OAuth (`application/oauth.py`) | authorization attempts, identities | begin, complete, link, unlink, first password | callbacks that take their time, the last login method |
| Global settings (`api/api/admin.py`, `api/global_setting_registry.py`, `api/resources.py`) | `global_setting`, each process's policies | two forms, reload | lost updates, settings that depend on each other |
| Email verification (`api/email_verification.py`, `api/api/auth.py`) | challenges, the address columns | register, change, resend, confirm | links opened twice or late, the switch |
| Rate limiter, cleanup, all-in-one server, tools, frontend, legacy modules | hit windows, old rows | | section 7 |

What makes each correct:

- *queue*: one unfinished task per domain; one worker may write its result;
  finished is final; attempts are bounded; every task ends;
- *scheduling and edits*: checks keep their own phase however late they run; an
  edit replaces what its author saw; monitoring that is switched on is followed
  by a check;
- *gate*: one request per endpoint, a rate limit holds for everybody until its
  end, the gate never stays shut;
- *lookups*: answers are as fresh as asked for, the cache never goes back in time,
  no lookup waits for a lock nobody will release;
- *notifications*: each event that is due is queued once and delivered by one
  notifier at a time, or given up for a reason;
- *sessions and login methods*: one live refresh token, a replay ends the session,
  revoked is dead; nobody loses the last login method, nobody links what is not
  theirs;
- *settings and addresses*: stored settings are a valid combination, no save is
  blind; what counts as verified was proven.

## 2. The modules

| Module | Models | Checked by |
|---|---|---|
| `RefreshTasks` | tasks, domains, idempotency, workers, schedulers | `MCRefreshTasks` |
| `TaskLifecycle` | abstract: what happens to one task | itself |
| `RefreshTasksLifecycle` | the refinement of `TaskLifecycle` by `RefreshTasks` | `MCRefreshTasksLifecycle` |
| `DomainEdits` | one domain, the pages and requests of its owner and of administrators | `MCDomainEdits` |
| `EndpointGate` | the gate of one endpoint and its callers | `MCEndpointGate` |
| `LookupReplies` | operators: what a reply or the dates of a domain mean | through `LookupService` |
| `LookupService` | lookups of one domain by several processes over one store | `MCLookupService` |
| `NotificationQueue` | rules, checks and the rows they queue | `MCNotificationQueue` |
| `NotificationOutbox` | outbox rows and notifiers | through `NotificationOutboxLifecycle` |
| `MessageLifecycle` | abstract: what happens to one message | through `NotificationOutboxLifecycle` |
| `NotificationOutboxLifecycle` | the refinement of `MessageLifecycle` by `NotificationOutbox` | `MCNotificationOutbox` |
| `AuthSessions` | users, sessions, refresh tokens, requests and their row locks | through `AuthSessionsLifecycle` |
| `SessionLifecycle` | abstract: what happens to one session | through `AuthSessionsLifecycle` |
| `AuthSessionsLifecycle` | the refinement of `SessionLifecycle` by `AuthSessions` | `MCAuthSessions` |
| `OAuthLogin` | attempts, identities, callbacks and changes of login methods | `MCOAuthLogin` |
| `GlobalSettings` | rows of settings, forms, saves and the copies of each process | `MCGlobalSettings` |
| `EmailVerification` | one account's address, its links and requests | `MCEmailVerification` |
| `RefreshTasksProofs`, `DomainEditsProofs`, `AuthSessionsProofs`, `GlobalSettingsProofs`, `EmailVerificationProofs`, `OAuthLoginProofs` | theorems about the module they are named for; those of tasks and sessions also about its refinement | TLAPS |
| `LookupProofs` | theorems about `LookupService` and `EndpointGate` | TLAPS |
| `NotificationProofs` | theorems about `NotificationQueue`, `NotificationOutbox` and its refinement | TLAPS |

### RefreshTasks

An action is one transaction. `task` is the table in insertion order, so that
"oldest first" is the smallest index. A claim with `SkipLocked = TRUE` may take
any claimable row, because `SKIP LOCKED` passes over rows that another
transaction has locked; with `FALSE` it takes the oldest. The worker's run loop
is `Claim`, then `CompleteIfFresh` or `StartLookup`, then `LookupReturns` (the
completion time is read *here*, before the transaction of the write back), then
one of `CompleteSuccess`, `DeferRateLimited`, `CompleteFailure` and
`DropResult`. `Heartbeat` runs while the lookup does. Every write back is fenced
by `Holds`, the condition of `_locked_task`. `CrashWorker` and `CrashScheduler`
end a process at any point; starting again spreads the overdue backlog first, as
`api/worker.py` and `api/scheduler.py` both do. `claim` and `complete_if_fresh`
read the clock just before their transaction and are taken to happen at that
instant. What the registry answers is a choice between a success, a cooldown
with a known end, a temporary failure and any other failure. A batch of the
scheduler is one domain; versions are `DomainEdits`'; an idempotency record does
not expire.

A request for a refresh by a person (`Caller`) is two steps, because `enqueue` looks
for a record of the idempotency key before the transaction that creates or merges the
task has locked the domain's row, and again under that lock: `Enqueue` is the first
reading, which answers at once when it finds a record, `AddRequest` the second
reading with what follows it, `AbandonRequest` a request that ends in between. Two
requests with one key can both pass the first reading, and the first one's task may
have finished when the second goes on. `answered` remembers the tasks that each key
was answered with.

`Stalls = FALSE` stands for "renewals are in time": time does not pass the end of
a lease that a live worker holds. `Stalls = TRUE` drops that.

### TaskLifecycle and the refinement

`TaskLifecycle` says what any task may go through: wait, be claimed by an owner
under a lease, be renewed, finished, retried or deferred by that owner, be
postponed by a restart, be abandoned by a dead owner. Times are relative, so no
clock is bounded and liveness can be checked. `RefreshTasksLifecycle` maps each
row of `RefreshTasks` to it: the owner is the one busy worker whose token the row
carries (`OneWriter` makes it unique), the waits are the time left. `max_attempts` is
a column, and the scheduler inserts rows with a limit of its own, so the mapping
counts attempts up to the larger of the two limits (`AttemptLimit`): counted up to the
configured one, a row of the scheduler would take a step that the abstract lifecycle
does not have as soon as `ScheduledMaxAttempts` is the larger.

### DomainEdits

`page[c]` is the row as browser tab `c` last showed it, and its version is what
`If-Match` carries. `UpdateDomain` is the read of `DomainService.update`,
`UpdateLocal` the conditional write; `update_domain_as_admin` writes first and
reads for the answer. `DeleteDomainAsAdmin` and `CommitDeleteAsAdmin` are the
read and the write by key of `delete_domain_as_admin`, which nothing connects:
after a write that overwrote a change, `overtaken` is set and nothing is promised.

### EndpointGate

The row of one endpoint and the concurrent calls of `EndpointRequestGate.run`.
Acquiring is one conditional `UPDATE`; a refused call reads the state in a second
transaction and ends with the cooldown or polls again. `Renew` asks for the
token only, so it revives a lease that ran out but was not taken. `ReleaseGate` and
`Block` are the three ways a finished request is written back; without the token
they do nothing. `stalled` remembers that a live caller missed its renewal.
`MemoryLookupStore` makes the same tests and assignments without a database.

### LookupReplies and LookupService

`LookupReplies` translates the classification of replies: which RDAP status and
body, or which markers in a WHOIS text, count as limited, released, registered or
unparsable; what the two sources of discovery offer together; and the expiration
status. `LookupService` is `DomainLookupService.lookup` step by step: the cache of
each protocol, the endpoint (before and under the lock of the suffix), discovery,
query, save, and the registrar's document. Each step may fail where its call may,
and the lookup may be cancelled at any step. Which failures are suppressed and
which end the lookup follows the `except` clauses: a store that fails while the
endpoint or the registrar's response is saved raises, although an answer is there.
The gate that each query passes is `EndpointGate`; here it is a query that fails.

### NotificationQueue and NotificationOutbox

`NotificationQueue` is what `complete_success` and `complete_failure` do to the
outbox: which rules match, when a warning is due, when a status has changed, and
the deduplication key, whose uniqueness silently drops a second row.
`NotificationOutbox` is the delivery of rows that exist: `Select` and
`WriteSelected` are the two statements of the claim, under one row lock;
`DeliverWebhook` and `DeliverEmail` choose the outcome; `Complete` and `Fail` write
it back through the fence `Holds`. The database is PostgreSQL.

`MessageLifecycle` says what any message may go through, whoever delivers it: it is
claimed while its rule is on and its wait or lease is over, its owner learns one
answer, and that answer alone sends, skips, retries or buries it; an owner may also
vanish. `NotificationOutboxLifecycle` maps each row to it: the owner is the one
notifier that presents the row's token (`Presents`, `OwnerOf`), the answer what it has
learned (`AnswerOf`). A notifier that lost its row is nobody's owner, so that nothing
it does may show: its late answer maps to a stutter, or the refinement fails. That a
final message stays final and that a message is only given up for a reason
(`FinalIsFinal`, `GivesUpLate`) follow, and are theorems of their own.

### AuthSessions

A request reads without locks (`Begin...`), locks the rows its statements name one
after the other (`Lock`, in the order of `Plan`), and commits (`Commit`) or rolls
back (`Crash`, `AbortDeadlock`). A presented token that turns out to be consumed
rolls back first and revokes in a second transaction (`DetectReplay`,
`RevokeReplayed`), as `rotate_refresh_token` does. A password is its version.
`presented` counts the answered presentations of each token.

`SessionLifecycle` says what any session may go through, as one object: a login gives
it a current token, a rotation exchanges the current token for one it never had, if the
session is alive and its user active; revocations and bans end it and it never has a
current token again; an expired session is forgotten. `AuthSessionsLifecycle` maps each
row to it. The current token is the one that is neither consumed nor revoked
(`CurrentOf`), the spent ones are those that were consumed (`SpentOf`). Locks, reads and
requests in progress are not in the abstract state: each commit must be one abstract
operation or nothing, on what the rows hold at that moment, and everything else must be
nothing. A login may create a session for a user banned since (`LogIn` leaves `active`
open), as the code does; such a session exchanges nothing until the ban is lifted.

### OAuthLogin

A callback consumes its attempt, exchanges the code, reads the identity without a
lock and finishes under the lock of the user: `FinishLink`, `FinishLogin` or
`FinishSignup`, whose loss of the race for the unique identity is tried again
once. `Unlink` and `SetPassword` validate again under the lock what the request was
authenticated with. What the other components do meanwhile is one action each.

A session may end in two ways. Those that revoke it under the lock of its user (a
logout, a replayed token, a password change, an unlinking, a ban) are serialised with
the end of a link, which reads the revocation under that lock (`Revoked`). Expiry,
an administrator's revocation and the cleanup take no such lock (`Ended`): `_finish`
compares the expiry with the clock it read before it waited for the lock
(`ReadIdentity`), so a session that expires meanwhile still links, and a link may or
may not see a withdrawal of the other two kinds. `LinksEndWithTheirSession` therefore
speaks of the first kind.

### GlobalSettings

A save is checked in two reads, which another save may come between: the versions and
then the combination for several keys (`CompareVersions`, `ThenCheckCombination`), the
other way round for one (`CheckCombination`, `ThenCompareVersion`); the older form
compares neither (`CheckRefreshPolicy`). It is committed without a condition (`Commit`, or
`CommitFails` when a row to insert is there by now); then the API process reads
the rows and replaces its policies in two steps. Loops reload at their own times.
`overlapped` remembers that a save was committed while another was in progress, from
its first read on.

### EmailVerification

One account. Settings and account are read in transactions before the one that
writes, so `Register` and `FinishRegistration`, `UpdateMe` and `WriteAddress` or
`Begin`, `Open` and `Confirm` are separate. The switch is `bool()` of the stored
text, which is true for `"false"` too, as in the code. The links of an older
release, marked as consumed when they were replaced, are an initial state.

## 3. What TLC checks

Twelve runs, all passing. Every run has one question; the type invariants are
checked on the same instances and are part of the proofs where there are any.

| Run | Question and properties | Bounds |
|---|---|---|
| `workers` | Can a worker that lost its task disturb it, can a success go back in time, does every row go through the lifecycle? `OneActiveTask`, `OneWriter`, `OnlyOwnerSettles`, `SuccessNeverRegresses`, `ImplementsLifecycle` | 1 domain, 2 workers, 1 scheduler, 2 tasks, 2 attempts, 1 crash, stalls, leases and interval of 1, time to 2 |
| `requests` | What do requests of users, administrators and the scheduler do to work that is queued? `KeyNamesOneTask`, with two requests of one key in progress; `AutomaticChecksKeepPhase`, `RequestsKeepCooldown`; and `OneExecutor`, because renewals are in time here | 1 domain, 2 workers, 1 scheduler, 2 requests, 1 key, 2 tasks, no crash, lease and interval of 2, time to 3 |
| `task_settles` | Does every task end? `EventuallySettled` | 3 workers, 4 attempts, lease 3; no bound on time |
| `gate` | `TimelyRequests` until a renewal is missed; `CooldownRunsOut` and `RetryDelayIsCapped` also after; `GateReopens` | 2 callers, 3 tokens, 2 crashes, stalls; no bound on time |
| `queue` | Is every date in a window warned about, and once? `OneWarningPerDate`, `WindowIsWarned` | 2 domains, 1 rule, 2 checks, 3 days |
| `outbox` | Can a notifier that lost its message disturb it, and does every message end? `OneSender` while deliveries are in time, `ImplementsDelivery`, `EventuallyFinished` | 2 notifiers, 1 message, 3 attempts, 2 crashes, 2 switches of the rule; no bound on time |
| `sessions` | What does rotation guarantee in every interleaving? `OneLiveToken`, `RevokedIsDead`, `NoTokenOutlivesSession`, `SecondUseEndsSession`, `UserLockOrdersRequests`; is every session one object? `ImplementsSession` | 1 user, 2 sessions, 3 tokens, 2 requests, 1 password change |
| `oauth` | Who can log in to what, after which races? `LoginMethodRemains`, `UnlinkingEndsSessions`, `LinksEndWithTheirSession` | 2 users, 2 sessions, 1 attempt at a time, 2 requests, 2 providers with 1 account each |
| `lookup` | What is answered, cached, asked? `AnswersAreCurrent`, `DiscoversOnce`, `LocksAreReleased`, `CacheNeverGoesBack` | 2 processes, 2 lookups at a time, time to 1 with lifetimes of 1 and 2 |
| `settings` | Do checks before an unconditional write suffice while saves do not overlap? `SettingsStayValid`, `NoBlindOverwrite` | 2 administrators, 3 keys, 3 values (one out of range), 2 saves |
| `email` | What does a link prove? `LinksWorkOnce`, `VerifiedIsProven`, `MailWaitsForProof` | 2 addresses, 2 requests, 3 links |
| `domain_edits` | Do versions carry what they promise? `EditsBuildOnTheirPage`, `RefreshFollowsSwitch` | 2 owner tabs, 1 administrator, 4 versions |

Why the bounds are enough. Operations of `RefreshTasks` touch one domain's rows, and
what several domains share (tokens and tasks never mix) is in the invariant proved
for any number. Two workers are enough for a stale and a current holder of one task,
three tokens for them and the next claim; two tasks for one that ends and one that
follows; two attempts for one that is retried and one that is the last. Two requests
are one that overtakes another; three refresh tokens are a token, its replacement
and the one after. Outbox rows are independent of each other, so one message, with
two notifiers, shows what can happen to any; the strong fairness of its claim is
stated for each. Lifetimes of 1 and 2 and one step of the clock separate a record
that ran out from one that did not. Two saves are one that makes another's form
stale. The clocks of `RefreshTasks` and `LookupService`, `MaxChecks`, `MaxVersion`,
`MaxSaves` and `MaxLinks` end the behaviours of their modules; runs of
`RefreshTasks`, `NotificationQueue`, `AuthSessions`, `OAuthLogin` and `DomainEdits`
therefore do not check deadlock. `domain_edits` stops (by a constraint) after a
deletion that overwrote a change: the properties promise nothing from there on.
Symmetry is only used for constants that are interchangeable, and never with a
liveness property.

### Fairness

- `TaskLifecycle`: time passes; some worker claims what is claimable (the run loop
  polls); a lookup that is under way ends and is written back (every request has a
  timeout). Cooldowns, restarts, crashes and takeovers of a live worker's task may
  go on for ever in the code; the property assumes that they stop.
- `EndpointGate`: time passes, callers poll, requests end. No fairness between
  callers is assumed or promised: the gate makes progress, a particular caller may
  lose every race.
- `NotificationOutbox`: time passes, notifiers proceed (deliveries have a timeout),
  and a row that is claimable again and again is claimed: strong fairness, because
  rows are taken in the order of `available_at` and one that has waited goes first.
  The property further assumes that deliveries end within their lease and that the
  rule stays enabled from some time on.

The other modules state no liveness: nothing in the code promises that a request
that was refused or lost a race is repeated.

## 4. Where the code and the documents disagree

Each of these is in a module as the code has it, with a property that states what
the document says and a configuration in which TLC finds it violated. None of them
is needed by a property of section 3. To reproduce one, run
`tlc -config <cfg> <module>`:

| Configuration, module, property | The code | The statement |
|---|---|---|
| `RefreshTasks_first_failure.cfg`, `MCRefreshTasks`, `FailedFirstCheckIsRepeated` | `persistence/tasks.py:486`: a first refresh that fails for good leaves `next_check_at` NULL, and the monitored domain is never due again | `docs/development-plan.md:256`: domains are checked on schedule |
| `NotificationQueue_shared_date.cfg`, `MCNotificationQueue`, `DomainIsWarned` | `persistence/tasks.py:616`: the key of a warning leaves out the domain; of two domains with one expiry date only the first is warned about | `docs/database-design.md:340`: the key is built from domain, event, date and days |
| `AuthSessions_ban.cfg`, `MCAuthSessions`, `BanEndsSessions` | `application/services.py:171`: a login that read the user before a ban creates its session after it | `docs/api/README.md:42`: a ban revokes all sessions of the user |
| `DomainEdits_deletion.cfg`, `MCDomainEdits`, `VersionsOnlyGrow` | `api/api/admin.py:1429`: an administrator's deletion writes a version counted from an unlocked read | `docs/development-plan.md:174`: optimistic concurrency by version |
| `GlobalSettings_lost_update.cfg`, `MCGlobalSettings`, `NoLostUpdate` | `api/api/admin.py:501`: versions are compared before an unconditional write | `docs/global-configuration-management.md:72`: two administrators who change one key lose no update |
| `EmailVerification_registration.cfg`, `MCEmailVerification`, `RegistrationIsProven` | `application/services.py:133`: the account is stored with a verified address before the settings are read | `api/api/auth.py:183`: the address is pending until the link is confirmed |

Others are visible in one step and have no configuration: an administrator's PATCH
switches monitoring on without a first refresh (`UpdateDomainAsAdmin`); automatic
tasks always get five attempts, whatever is configured (`ScheduledMaxAttempts`); a
429 that reaches a caller without the lease is dropped (`Block`); a forced lookup
takes a cached registrar document (`ReadRegistrar`); the switch of email
verification, stored as `"false"`, counts as on (`Enabled`). On SQLite, which ignores
`FOR UPDATE`, `claim_outbox` (`persistence/notifications.py:88`) is not fenced: two
notifiers would both send a row, where `claim` of the task queue adds a conditional
write for that case. The module takes PostgreSQL, where the lock is real; the mutant
of `OneSender` is this defect.

## 5. What is proved

For every value of the constants (any number of workers, domains, tokens, callers,
rules or users, any lease and any limit), from the named assumptions of the modules,
which TLC evaluates in the runs:

| Module | Theorems |
|---|---|
| `RefreshTasksProofs` | `Safety`, `TypeCorrect`, `OneActiveTaskHolds`, `LeaseFencesTaskHolds`, `OneWriterHolds`, `TerminalIsFinalHolds`, `OnlyOwnerSettlesHolds`; `ClockSafety`, `SuccessNeverRegressesHolds`, `AutomaticChecksKeepPhaseHolds`; `RequestsKeepCooldownHolds`, `KeyNamesOneTaskHolds`, `OneExecutorHolds`; `LifecycleImplemented` |
| `LookupProofs` | `Safety`, `DiscoversOnceHolds`, `LocksAreReleasedHolds`, `CacheNeverGoesBackHolds`, `AnswersAreCurrentHolds`, `StatusOnlyAdvances`; `GateSafety`, `CooldownRunsOutHolds`, `TimelyRequestsHolds`, `RetryDelayDoublesUpToMaximum`, `RetryDelayIsCappedHolds` |
| `NotificationProofs` | `Safety`, `TypeCorrect`, `OneWarningPerDateHolds`, `WindowIsWarnedHolds`; `OutboxSafety`, `OneSenderHolds`, `FinalIsFinalHolds`, `GivesUpLateHolds`, `DeliveryImplemented` |
| `AuthSessionsProofs` | `Safety`, `TypeCorrect`, `OneLiveTokenHolds`, `RevokedIsDeadHolds`, `NoTokenOutlivesSessionHolds`, `SecondUseEndsSessionHolds`, `UserLockOrdersRequestsHolds`; `SessionImplemented`, `NothingComesBackHolds` |
| `DomainEditsProofs` | `Safety`, `EditsBuildOnTheirPageHolds`, `RefreshFollowsSwitchHolds` |
| `GlobalSettingsProofs` | `Safety`, `SettingsStayValidHolds`, `NoBlindOverwriteHolds` |
| `EmailVerificationProofs` | `Safety`, `LinksWorkOnceHolds`, `VerifiedIsProvenHolds`, `MailWaitsForProofHolds` |
| `OAuthLoginProofs` | `Safety`, `LoginMethodRemainsHolds`, `UnlinkingEndsSessionsHolds`, `LinksEndWithTheirSessionHolds` |

`Safety` is in each module that the inductive invariant `IInv` always holds: it
holds initially, and one lemma per action shows that the action keeps it.
`ClockSafety`, `GateSafety` and `OutboxSafety` say the same of `ClockInv`, `GateInv`
and `OutboxInv`.

- *Queue.* `OneWriter` is not inductive, because nothing in it says that the token
  of a fresh claim is new to *processes*. `IInv` adds that a row is running exactly
  while it carries a token, that no token is on two rows (`LeaseFencesTask`), and
  that no two processes remember one token (`OneProcessPerToken`); a write back
  clears the token, a claim takes one that is on no row and with no process. Two
  busy workers that both pass the fence for one task would remember the same token.
  `TerminalIsFinal` follows because every action that changes a row asks that it is
  queued or running; `OnlyOwnerSettles` because a running row changes its token only
  by a write back through the fence, or when its lease is out.
- *Clock and claims.* What a result may do to the schedule depends on when it was
  read. `ClockInv` adds that no success and no completion time lies ahead of the clock
  (`NothingAhead`), and that a worker which still holds its task remembers the row's
  count of attempts and brings a result no older than the domain's last success
  (`ClaimsAgree`): the domain has one unfinished task, so nobody else stored a success
  since the claim. `SuccessNeverRegresses` and `AutomaticChecksKeepPhase` follow.
  `RequestsKeepCooldown` needs `IInv` only: a merge brings a row forward only if it has
  neither an attempt nor an error, and a restart moves the task of a domain whose
  `next_check_at` it leaves alone only where that task could be claimed already, because
  it is the domain's only one. `KeyNamesOneTask` rests on one more invariant
  (`KeysNameTasks`): as long as a key has no record nobody has been answered for it, and
  once it has one the record names a task of the domain and every answer given, to
  whichever of the callers in progress, is that task. It is kept because a record is
  written only by a caller that finds none under the domain's lock (`KeySteps`).
- *One executor.* `OneExecutorHolds` has the hypothesis `~Stalls` of the run: where
  renewals are in time, a busy worker holds its task under a lease that has not run
  out (`LeasesLive`), so that two who look one task up would hold it both.
- *Refinement.* `LifecycleImplemented` is the simulation step by step: the owner that
  the mapping chooses is the one worker that presents the row's token
  (`OwnerIsHolder`), and each action, seen from one row, is one step of
  `TaskLifecycle` or none. `RowLimits` keeps the attempts within `AttemptLimit`, and
  `ClaimsAgree` makes the retry of the worker the retry that the row's count allows.
- *Gate.* As for the queue, with one row; for `TimelyRequests` the invariant adds that,
  until a renewal is missed, a caller in a request holds a lease with time left and
  that no cooldown runs meanwhile.
- *Backoff.* `EndpointRetryDelay` is the loop of `endpoint_retry_delay`, with its
  saturation, as a recursive function. `RetryDelayDoublesUpToMaximum` says what it comes
  to, for every base, maximum and number of failures: the base doubled once per earlier
  failure, and never more than the maximum. The library's rule of induction takes an
  operator as a parameter and cannot be used, so `LookupProofs` proves one for sets
  (`InductionOnSets`), from the least element that a set of numbers has
  (`LeastElement`), and that a function defined by iteration satisfies its equations
  (`Iteration`). `RetryDelayIsCapped` is the theorem for the failures that a row counts.
- *Warnings.* The invariant is the unique constraint together with the fact that a
  warning's key names no check. `WindowIsWarned` does not depend on what was queued
  before: whatever set of rows `_add_outbox` is given, each of their keys is in the
  outbox afterwards, with the new row or with an older one.
- *Outbox.* Two notifiers never know one token (`TokensDiffer`), and a row that is selected
  stays claimable until its notifier writes it (`SelectionsHold`): write backs, switches
  of the rule and time leave it alone or wait for its lock. Until a delivery outlasts
  its lease, every notifier that delivers holds its row under a live one
  (`LeasesLive`), which is `OneSender`; on SQLite there is no lock, and
  `SelectionsHold` is what fails. `FinalIsFinal` and `GivesUpLate` follow from the
  fence and from what claims take. `DeliveryImplemented` is the simulation step by step:
  `TokensDiffer` makes the owner unique (`OwnerIsHolder`), the two statements of a claim
  are one abstract claim because the row stays claimable in between and its count stays
  what was selected (`AnswersFollow`), and a write back is a step for the message whose
  owner makes it and a stutter for any other (`WriteBackMaps`).
- *Lookups.* `LocksAreReleased` says that the holder of a lock is a lookup in its
  critical steps; the invariant adds the converse (`HoldersHold`), so that the lookup
  that saves an endpoint is the only one of its process. For `DiscoversOnce` the
  current endpoint is no older than the last one any process saved (`NoOlder`), and
  is fresh as long as `EndpointTTL` says (`FreshAsLong`): a lookup that reads under
  the lock and finds nothing fresh knows that the last discovery of its process ran
  out. `CacheNeverGoesBack` is a fact about `Publish`, given that what is saved
  exists (`InHand`). `AnswersAreCurrent` is about answers, and is carried from the
  reads that made them by `PartsAreCurrent`: whatever part of an answer a lookup has
  in hand was fresh when the lookup began, and fetched since if it was forced.
- *Sessions.* Three layers. The rows (`RowsInv`): a token belongs to a session that is
  there and outlasts it, a revoked session has only revoked tokens, a token presented
  twice has ended its session, and one token of a session is usable. The requests
  (`RequestsInv`): what a request read of its token and session without a lock, whose
  they are, stays true until it locks them, since a row passes to someone else only
  when no request refers to it. The locks (`LocksAreOwn`): a transaction that locks a
  user locks rows of that user only, and the user first. Of
  requests that all lock their user, one that waits for another waits for the holder of
  that same user's lock; in a circle the holder would have to wait for itself, so every
  circle goes through one of the two requests that do not lock the user
  (`UserLockOrdersRequests`). `SessionImplemented` needs the first two layers only: one
  token of a session is usable, so the current one is well defined (`CurrentIsUsable`);
  a refresh that commits presents that token, because what it read of it still holds; a
  revocation of what was revoked finds its tokens dead and changes nothing
  (`RevokeMaps`); and a row that is given to a new session had no token left
  (`CreateMaps`). `NothingComesBackHolds` draws the consequence from the abstract
  actions alone: a session that has ended stays so, and no exchanged token is current
  again.
- *Edits.* While no deletion has overwritten a change, a page is never ahead of the
  row, and one of the same version *is* the row (`Pages`); an update whose version
  still matches has read the row it writes (`Reads`). Every change counts the
  version up, so a page or a read that falls behind stays behind. Both properties
  follow: the condition on the version ties the write to the page and to the read.
- *Settings.* While no two saves overlap, what either read of a save has found is what
  is stored (`Reads`, `Forms`), so that the combination it checked is the one it stores (`Policies`),
  under versions no form has seen (`Pages`). The form that checks nothing
  rests on the assumption `RefreshKeyIsFree`: no constraint names its key.
- *Email.* A link a request has locked is not used, and no two requests lock one
  (`LinksAreLocked`); a link that has worked is marked, and none has worked since an
  address became pending (`WinnersAreMarked`); verification is on where an address
  is pending or about to be, and was off where one is about to be written without it
  (`PendingIsAsked`).
- *OAuth.* `LoginMethodRemains` is inductive with the types, once a request in a step
  that uses an identity or a session has one (`Whole`). For the other two, every step
  has one of four effects on sessions and identities (`Effect`): it starts a session
  or ends some, signs up, links through a session that is not revoked, or unlinks.

Only model-checked: the liveness properties `EventuallySettled`, `GateReopens` and
`EventuallyFinished`, since fairness is out of the prover's reach. Every other property
that a run checks is a theorem.

## 6. How to run

`tlc -workers 2 -config <run>.cfg <module>` with the pairs of `PROJECT.json`, and
`tlapm <module>Proofs.tla`. The longest runs (`workers`, `oauth`, `lookup`) take two to
four minutes on two cores.

## 7. Not modelled, and why

- `bootstrap_first_admin`, display preferences, the choice of the first username after
  an OAuth signup: they change nothing the properties speak of. The last was tried;
  it doubles the state space of `OAuthLogin` for no new behaviour.
- Access tokens: signed and not stored, only their password version matters.
- `try_acquire_lease` and `release_lease` of the lookup store have no caller;
  `mark_unusable` is only called for responses that were never saved.
- Two concurrent edits of one notification rule: each edit is one step, although the
  code reads and writes the rule in two transactions. No document says what two edits
  should do. The two modules of notifications are not composed, so that a suppressed
  warning keeps its key is not in a property.
- Limits that only bound a query (batch sizes, page sizes), lists and dashboards: a
  list counts and reads in two statements, so that its total may be off by what
  happened between; nothing is decided on it.
- Extraction of fields from RDAP and WHOIS texts, the WHOIS profiles and the legacy
  parsers (`modules/`): text in, text out, within reach of unit tests.
- The rate limiter: one dictionary in one process, without suspension points; its
  policies share one clearing of old windows (`api/rate_limit.py:51`), a sequential
  matter. The anti-bot check is a request to an external service.
- Cleanup, but for sessions and tokens. It also deletes idempotency records that have
  expired, whose keys may then be used again; finished tasks, with the records that
  name them; finished outbox rows,
  whose deduplication keys the unique constraint still refuses until then, so that the
  same warning could be queued once more; and audit events and leases of lookups, which
  no operation reads. What is promised of keys and warnings (`KeyNamesOneTask`,
  `OneWarningPerDate`) is promised until the rows are removed.
- The shared fate of the loops of `domainsmanager-server`: one more cause for the
  crashes the modules have.
- Tools, migrations, frontend, documentation site: no part in the protocols.

What could follow: the composition of `NotificationQueue` with `NotificationOutbox`, and
of `LookupService` with `EndpointGate`.
