---------------------------- MODULE EndpointGate ----------------------------
(***************************************************************************)
(* EndpointRequestGate: the lease that serialises the requests of all       *)
(* processes to one RDAP or WHOIS endpoint, and the cooldown the endpoint's *)
(* rate limit leaves in the endpoint_request_gate row.                      *)
(*                                                                         *)
(* A caller holds one gate at a time (redirects are followed hop by hop), so *)
(* one endpoint's row is the whole shared state.  Times are kept as the time *)
(* LEFT until them: the code only compares them with the current time, and a *)
(* NULL is treated like a time that has passed.  MemoryLookupStore keeps the *)
(* same row in one process, with the same tests and assignments.            *)
(***************************************************************************)
EXTENDS Integers, FiniteSets

CONSTANTS
    Caller,         \* the concurrent calls of EndpointRequestGate.run
    Token, NoToken, \* lease tokens (uuid4 values), NULL
    Lease,          \* lease_duration
    RetryBase,      \* retry_base
    RetryMax,       \* retry_max
    MaxRetryAfter,  \* bound: longest Retry-After a response names
    MaxFailures,    \* bound: failures are counted up to here
    MaxCrashes      \* bound on crashes

ASSUME GateAssumption ==
    /\ Lease \in Nat \ {0} /\ RetryBase \in Nat /\ RetryMax \in Nat
    /\ MaxRetryAfter \in Nat /\ MaxFailures \in Nat \ {0}
    /\ MaxCrashes \in Nat
    /\ NoToken \notin Token

VARIABLES
    gate,    \* the row: [cooldown, lease: time left, token, failures]
    caller,  \* local state of each run() call
    crashes,
    stalled  \* history: a live caller missed its lease renewal

gateVars == <<gate, caller, crashes, stalled>>

GateRow == [cooldown : Nat, lease : Nat, token : Token \cup {NoToken},
            failures : 0..MaxFailures]

\* "done" is any end of the call: the caller may call again.
\* retryAfter: time left to the limited response's Retry-After, NoDelay without.
NoDelay == -1
CallerState ==
    [pc : {"done", "trying", "refused", "requesting", "answered"},
     token : Token \cup {NoToken},
     answer : {"none", "ok", "limited", "error"}, retryAfter : Nat \cup {NoDelay}]

Done == [pc |-> "done", token |-> NoToken, answer |-> "none", retryAfter |-> NoDelay]

-----------------------------------------------------------------------------
(* Helpers *)

Lesser(a, b) == IF a <= b THEN a ELSE b

\* Mutant: the saturation test compares with the maximum itself.
EndpointRetryDelay_Overshoots(failures, base, max) ==
    LET delay[n \in Nat] == IF n <= 1 THEN Lesser(base, max)
                            ELSE IF delay[n - 1] >= max THEN max
                            ELSE delay[n - 1] + delay[n - 1]
    IN  delay[failures]

\* endpoint_retry_delay: double the delay for each failure after the first and
\* saturate before the doubling would exceed the maximum.
EndpointRetryDelay(failures, base, max) ==
    LET delay[n \in Nat] == IF n <= 1 THEN Lesser(base, max)
                            ELSE IF delay[n - 1] >= max - delay[n - 1] THEN max
                            ELSE delay[n - 1] + delay[n - 1]
    IN  IF Lesser(base, max) <= 0 THEN 0 ELSE delay[failures]

\* Mutant: any caller that had a lease passes for the holder.
Holds_Unfenced(c) == caller[c].token # NoToken

\* The row's lease_token is this call's.
Holds(c) == gate.token # NoToken /\ gate.token = caller[c].token

InFlight(c) == caller[c].pc = "requesting"

\* uuid4(): a token neither the row nor a call has.
Unused(k) == gate.token # k /\ \A c \in Caller : caller[c].token # k

Unleased == [gate EXCEPT !.lease = 0, !.token = NoToken]

-----------------------------------------------------------------------------

Call(c) ==
    /\ caller[c].pc = "done"
    /\ caller' = [caller EXCEPT ![c].pc = "trying"]
    /\ UNCHANGED <<gate, crashes, stalled>>

\* Mutant: the lease is not looked at.
Free_IgnoresLease == gate.cooldown = 0

\* Mutant: a lease that ran out is not taken over.
Free_Unleased == gate.cooldown = 0 /\ gate.token = NoToken

\* The condition of the acquiring UPDATE.
Free == gate.cooldown = 0 /\ gate.lease = 0

Acquire(c) ==
    /\ caller[c].pc = "trying" /\ Free
    /\ \E k \in Token :
        /\ Unused(k)
        /\ gate' = [gate EXCEPT !.lease = Lease, !.token = k]
        /\ caller' = [caller EXCEPT ![c].pc = "requesting", ![c].token = k]
    /\ UNCHANGED <<crashes, stalled>>

Refuse(c) ==
    /\ caller[c].pc = "trying" /\ ~Free
    /\ caller' = [caller EXCEPT ![c].pc = "refused"]
    /\ UNCHANGED <<gate, crashes, stalled>>

\* The state is read in a transaction of its own: a cooldown ends the call, and
\* a gate that is only busy is polled again.
ReadState(c) ==
    /\ caller[c].pc = "refused"
    /\ caller' = [caller EXCEPT ![c] =
                    IF gate.cooldown > 0 THEN Done ELSE [Done EXCEPT !.pc = "trying"]]
    /\ UNCHANGED <<gate, crashes, stalled>>

\* A renewal asks for the token only, so it revives a lease that ran out but
\* was not taken.  The renewing task lives until the write back is done.
Renew(c) ==
    /\ caller[c].pc \in {"requesting", "answered"} /\ Holds(c)
    /\ gate' = [gate EXCEPT !.lease = Lease]
    /\ UNCHANGED <<caller, crashes, stalled>>

\* A refused renewal, or a cancelled caller, cancels the request; the release
\* keeps cooldown and failures, and does nothing to another call's lease.
Abort(c) ==
    /\ InFlight(c)
    /\ gate' = IF Holds(c) THEN Unleased ELSE gate
    /\ caller' = [caller EXCEPT ![c] = Done]
    /\ UNCHANGED <<crashes, stalled>>

Answer(c) ==
    /\ InFlight(c)
    /\ \E answer \in {"ok", "limited", "error"},
          after \in {NoDelay} \cup 0..MaxRetryAfter :
        /\ answer # "limited" => after = NoDelay
        /\ caller' = [caller EXCEPT ![c].pc = "answered", ![c].answer = answer,
                                    ![c].retryAfter = after]
    /\ UNCHANGED <<gate, crashes, stalled>>

\* release_endpoint_gate: only a success clears the failures.
ReleaseGate(c) ==
    /\ caller[c].pc = "answered" /\ caller[c].answer \in {"ok", "error"}
    /\ gate' = IF ~Holds(c) THEN gate
               ELSE IF caller[c].answer = "ok"
                    THEN [Unleased EXCEPT !.cooldown = 0, !.failures = 0]
                    ELSE Unleased
    /\ caller' = [caller EXCEPT ![c] = Done]
    /\ UNCHANGED <<crashes, stalled>>

\* The row cools down for what is left to the response's Retry-After, or else for
\* the backoff.
Blocked(retryAfter) ==
    LET failures == Lesser(gate.failures + 1, MaxFailures)
    IN  [Unleased EXCEPT !.failures = failures,
                         !.cooldown = IF retryAfter # NoDelay THEN retryAfter
                                      ELSE EndpointRetryDelay(failures, RetryBase, RetryMax)]

\* block_endpoint_gate
Block(c) ==
    /\ caller[c].pc = "answered" /\ caller[c].answer = "limited"
    /\ gate' = IF Holds(c) THEN Blocked(caller[c].retryAfter) ELSE gate
    /\ caller' = [caller EXCEPT ![c] = Done]
    /\ UNCHANGED <<crashes, stalled>>

\* The process ends, or the call is cancelled during its write back; the row
\* keeps its lease.
Crash(c) ==
    /\ caller[c].pc # "done" /\ crashes < MaxCrashes
    /\ caller' = [caller EXCEPT ![c] = Done]
    /\ crashes' = crashes + 1
    /\ UNCHANGED <<gate, stalled>>

CountDown(timer) == IF timer > 0 THEN timer - 1 ELSE timer

\* Renewal, every third of the lease, is in time unless its process stalls.
GateTick ==
    /\ stalled' = (stalled \/ \E c \in Caller :
                    caller[c].pc \in {"requesting", "answered"} /\ Holds(c) /\ gate.lease <= 1)
    /\ gate' = [gate EXCEPT !.cooldown = CountDown(@), !.lease = CountDown(@)]
    /\ caller' = [c \in Caller |->
                    [caller[c] EXCEPT !.retryAfter = CountDown(@)]]
    /\ UNCHANGED crashes

-----------------------------------------------------------------------------

GateInit ==
    /\ gate = [cooldown |-> 0, lease |-> 0, token |-> NoToken, failures |-> 0]
    /\ caller = [c \in Caller |-> Done]
    /\ crashes = 0 /\ stalled = FALSE

\* The steps of a call that its own code takes as soon as it can.
Proceed(c) ==
    Acquire(c) \/ Refuse(c) \/ ReadState(c) \/ ReleaseGate(c) \/ Block(c)

GateNext ==
    \/ \E c \in Caller :
        \/ Call(c) \/ Proceed(c) \/ Renew(c) \/ Answer(c) \/ Abort(c) \/ Crash(c)
    \/ GateTick

\* Time passes, callers are scheduled, and requests end (they have timeouts).
Fairness ==
    /\ WF_gateVars(GateTick)
    /\ \A c \in Caller : WF_gateVars(Proceed(c)) /\ WF_gateVars(Answer(c) \/ Abort(c))

GateSpec == GateInit /\ [][GateNext]_gateVars /\ Fairness

-----------------------------------------------------------------------------
(* Properties *)

\* Every variable keeps its type.
GateTypeOK ==
    /\ gate \in GateRow
    /\ caller \in [Caller -> CallerState]
    /\ crashes \in Nat /\ stalled \in BOOLEAN

\* Requests to the endpoint are serialised, and none runs while the endpoint
\* cools down: as long as nobody stalled, no two callers are in a request at once
\* and whoever was told to wait, all wait, whatever crashed calls left behind.
TimelyRequests ==
    ~stalled => /\ \A b, c \in Caller : InFlight(b) /\ InFlight(c) => b = c
                /\ gate.cooldown > 0 => \A c \in Caller : ~InFlight(c)

\* A cooldown that has begun is never cut short: not by a late success, nor by
\* a late response that names a shorter one, nor by a caller that lost its lease.
CooldownRunsOut ==
    [][gate.cooldown > 0 => gate'.cooldown >= gate.cooldown - 1]_gateVars

\* The sequence the backoff is measured by.
PowerOfTwo[n \in Nat] == IF n = 0 THEN 1 ELSE 2 * PowerOfTwo[n - 1]

\* The backoff loop of endpoint_retry_delay, which saturates before it would
\* overflow, gives the next failure of the row the doubling sequence cut off at
\* the maximum, whatever the configured base and maximum are.
RetryDelayIsCapped ==
    \A base \in 0..3, max \in 0..9 :
        EndpointRetryDelay(gate.failures + 1, base, max)
            = Lesser(base * PowerOfTwo[gate.failures], max)

\* The gate never stays shut: while a caller waits, it ends (with the cooldown
\* error) or some caller gets a request through, although the one before it may
\* have died with the lease.
GateReopens ==
    \A c \in Caller :
        caller[c].pc = "trying"
        ~> caller[c].pc = "done" \/ \E b \in Caller : InFlight(b)

=============================================================================
