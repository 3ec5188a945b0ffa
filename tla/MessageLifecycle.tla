---------------------------- MODULE MessageLifecycle ----------------------------
(***************************************************************************)
(* What the outbox promises about ONE message, whoever delivers it: the     *)
(* abstract specification that NotificationOutbox implements for each of    *)
(* its rows (module NotificationOutboxLifecycle).  A message has one owner   *)
(* at a time, the owner learns one answer, and that answer alone decides    *)
(* what becomes of the message.  wait and lease are the time left.          *)
(***************************************************************************)
EXTENDS Integers

CONSTANTS
    Notifier, NoNotifier,   \* notifier processes; no live process holds the message
    Lease,                  \* lease_duration
    MaxAttempts,            \* max_attempts
    RetryMax                \* retry_max_delay

VARIABLES
    status,     \* pending, running, sent, skipped or dead_letter
    enabled,    \* the rule is enabled and the recipient verified
    wait,       \* time until a pending message may be claimed
    lease,      \* time left of a running message's lease
    owner,      \* the live notifier that presents the message's token
    answer,     \* what the owner learned, "none" before
    attempts    \* deliveries begun, counted up to MaxAttempts

vars == <<status, enabled, wait, lease, owner, answer, attempts>>

Init ==
    /\ status = "pending" /\ enabled = TRUE /\ wait = 0 /\ lease = 0
    /\ owner = NoNotifier /\ answer = "none" /\ attempts = 0

Claim(n) ==
    /\ enabled
    /\ (status = "pending" /\ wait = 0) \/ (status = "running" /\ lease = 0)
    /\ status' = "running" /\ lease' = Lease /\ owner' = n /\ answer' = "none"
    /\ attempts' = IF attempts < MaxAttempts THEN attempts + 1 ELSE MaxAttempts
    /\ UNCHANGED <<enabled, wait>>

\* The delivery ends, with the outcome that its channel reports.
Deliver ==
    /\ owner # NoNotifier /\ answer = "none"
    /\ answer' \in {"success", "retryable", "permanent", "suppressed"}
    /\ UNCHANGED <<status, enabled, wait, lease, owner, attempts>>

\* The owner gives the message up, for later or for good.
WriteBack(to, delay) ==
    /\ status' = to /\ wait' = delay /\ lease' = 0
    /\ owner' = NoNotifier /\ answer' = "none"
    /\ UNCHANGED <<enabled, attempts>>

Complete == answer = "success" /\ WriteBack("sent", 0)

Suppress == answer = "suppressed" /\ WriteBack("skipped", 0)

GiveUp ==
    /\ answer = "permanent" \/ (answer = "retryable" /\ attempts = MaxAttempts)
    /\ WriteBack("dead_letter", 0)

Retry ==
    /\ answer = "retryable" /\ attempts < MaxAttempts
    /\ \E delay \in 0..RetryMax : WriteBack("pending", delay)

\* The process that held the message is gone; its lease is not.
Abandon ==
    /\ owner # NoNotifier
    /\ owner' = NoNotifier /\ answer' = "none"
    /\ UNCHANGED <<status, enabled, wait, lease, attempts>>

Toggle ==
    /\ enabled' = ~enabled
    /\ UNCHANGED <<status, wait, lease, owner, answer, attempts>>

CountDown(timer) == IF timer > 0 THEN timer - 1 ELSE timer

Tick ==
    /\ wait' = CountDown(wait) /\ lease' = CountDown(lease)
    /\ UNCHANGED <<status, enabled, owner, answer, attempts>>

Next ==
    \/ \E n \in Notifier : Claim(n)
    \/ Deliver \/ Complete \/ Suppress \/ GiveUp \/ Retry
    \/ Abandon \/ Toggle \/ Tick

Spec == Init /\ [][Next]_vars
=============================================================================
