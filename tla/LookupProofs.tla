---------------------------- MODULE LookupProofs ----------------------------
(***************************************************************************)
(* Proofs about the two machines of a lookup.  LookupService: answers are    *)
(* made of current responses, the store never goes back in time, locks are   *)
(* released, endpoints are discovered once.  EndpointGate: requests to an    *)
(* endpoint do not overlap, and a cooldown runs out.  Any number of lookups,  *)
(* processes, callers and crashes, any durations.                           *)
(***************************************************************************)
EXTENDS LookupService, EndpointGate, TLAPS, WellFoundedInduction

\* The steps between taking the lock and releasing it.
Critical == {"recheck", "discovering", "save_endpoint"}

\* Where a lookup still knows its process.
Homed == Critical \cup {"cache", "endpoint", "waiting"}

\* A lookup in the critical steps holds its process's lock.
HoldersHold ==
    \A l \in Lookup :
        /\ lookup[l].pc \in Homed => Home(l) \in Process
        /\ lookup[l].pc \in Critical => lock[Home(l)] = l

\* Endpoints are fresh for as long as EndpointTTL says, the one a lookup is about
\* to save included.
FreshAsLong ==
    /\ endpoint # None => endpoint.fresh = endpoint.observed + EndpointTTL
    /\ \A l \in Lookup : At(l, "save_endpoint") =>
         /\ lookup[l].found # None
         /\ lookup[l].found.fresh = lookup[l].found.observed + EndpointTTL

\* The current endpoint is no older than the last one any process saved.
NoOlder == \A p \in Process : discovered[p] <= Observed(endpoint)

\* What is about to be saved is there.
InHand ==
    \A l \in Lookup : /\ At(l, "save") => lookup[l].response # None
                      /\ At(l, "save_registrar") => lookup[l].registrar # None

IInv ==
    /\ TypeOK
    /\ InHand
    /\ LocksAreReleased
    /\ HoldersHold
    /\ FreshAsLong
    /\ NoOlder
    /\ DiscoversOnce

-----------------------------------------------------------------------------
(* The expiration status and the store *)

\* For fixed dates the expiration status of a registered domain only moves on as
\* time passes: active, then the grace period, then expired, and never back
\* (determine_expiration_status).
THEOREM StatusOnlyAdvances ==
    ASSUME NEW registry \in Nat \cup {Missing}, NEW registrar \in Nat \cup {Missing},
           NEW now \in Nat, NEW later \in Nat, now <= later
    PROVE  Stage(DetermineExpirationStatus(TRUE, registry, registrar, now))
             <= Stage(DetermineExpirationStatus(TRUE, registry, registrar, later))
  BY DEF Stage, DetermineExpirationStatus, Missing

\* Publishing never replaces a head by an older record.
LEMMA PublishAdvances ==
    ASSUME NEW Record, \A record \in Record : record.observed \in Nat,
           None \notin Record,
           NEW head \in Record \cup {None}, NEW record \in Record,
           NEW new \in Publish(head, record)
    PROVE  /\ new \in Record
           /\ Observed(new) >= Observed(head)
           /\ Observed(new) >= Observed(record)
  BY DEF Publish, Observed

-----------------------------------------------------------------------------
(* Steps of one lookup *)

LEMMA IdleIsLocal == Idle \in Local /\ Idle.pc = "idle"
  BY LookupAssumption DEF Idle, Local, Time, Protocol

\* A lookup that goes on neither takes nor leaves its process's lock.
LEMMA GoesOn ==
    ASSUME IInv, NEW l \in Lookup, NEW local \in Local, Become(l, local),
           UNCHANGED <<clock, endpoint, lock, discovered>>,
           cache' \in [Role -> Response \cup {None}],
           local.pc \in Homed => local.process \in Process,
           local.pc \in Critical => local.process = Home(l),
           (local.pc \in Critical) <=> (lookup[l].pc \in Critical),
           local.pc = "save_endpoint" =>
             /\ local.found # None
             /\ local.found.fresh = local.found.observed + EndpointTTL,
           local.pc = "discovering" /\ ~local.refresh /\ ~local.blind
             /\ discovered[Home(l)] # -1
             => discovered[Home(l)] + EndpointTTL <= local.since,
           local.pc = "save" => local.response # None,
           local.pc = "save_registrar" => local.registrar # None
    PROVE  IInv'
<1> USE DEF IInv
<1>1. /\ lookup' \in [Lookup -> Local] /\ lookup'[l] = local
      /\ \A m \in Lookup \ {l} : lookup'[m] = lookup[m]
  BY DEF TypeOK, Become
<1>2. TypeOK'
  BY <1>1 DEF TypeOK
<1>3. LocksAreReleased'
  BY <1>1, LookupAssumption DEF TypeOK, LocksAreReleased, Home, Critical, Homed
<1>4. HoldersHold'
  BY <1>1 DEF HoldersHold, Home, Critical, Homed
<1>5. FreshAsLong'
  BY <1>1 DEF FreshAsLong, At
<1>6. NoOlder'
  BY DEF NoOlder, Observed
<1>7. DiscoversOnce'
  BY <1>1 DEF DiscoversOnce, At, Home, Homed, Critical
<1>8. InHand'
  BY <1>1 DEF InHand, At
<1> QED
  BY <1>2, <1>3, <1>4, <1>5, <1>6, <1>7, <1>8

\* A lookup that holds no lock any more, whether it had one or not.
LEMMA LetsGo ==
    ASSUME IInv, NEW l \in Lookup, NEW local \in Local, Become(l, local),
           Release(l), UNCHANGED clock,
           cache' \in [Role -> Response \cup {None}],
           endpoint' \in Endpoint \cup {None},
           endpoint' # None => endpoint'.fresh = endpoint'.observed + EndpointTTL,
           discovered' \in [Process -> Time \cup {-1}],
           \A p \in Process : /\ discovered'[p] <= Observed(endpoint')
                              /\ lock[p] # l => discovered'[p] = discovered[p],
           local.pc \notin Homed \cup {"save", "save_registrar"}
    PROVE  IInv'
<1> USE DEF IInv
<1>1. /\ lookup' \in [Lookup -> Local] /\ lookup'[l] = local
      /\ \A m \in Lookup \ {l} : lookup'[m] = lookup[m]
  BY DEF TypeOK, Become
<1>2. /\ lock' \in [Process -> Lookup \cup {None}]
      /\ \A p \in Process : lock'[p] = IF lock[p] = l THEN None ELSE lock[p]
  BY DEF TypeOK, Release
<1>3. TypeOK'
  BY <1>1, <1>2 DEF TypeOK
<1>4. LocksAreReleased'
  BY <1>1, <1>2 DEF TypeOK, LocksAreReleased, Home
<1>5. HoldersHold'
  BY <1>1, <1>2 DEF HoldersHold, Home, Critical, Homed
<1>6. FreshAsLong'
  BY <1>1 DEF FreshAsLong, At, Homed, Critical
<1>7. NoOlder'
  BY DEF NoOlder, Observed
<1>8. DiscoversOnce'
  <2> SUFFICES ASSUME NEW m \in Lookup, At(m, "discovering")', ~lookup'[m].refresh,
                      ~lookup'[m].blind, discovered'[Home(m)'] # -1
               PROVE  discovered'[Home(m)'] + EndpointTTL <= lookup'[m].since
    BY DEF DiscoversOnce, Home
  <2>1. m # l /\ lookup'[m] = lookup[m]
    BY <1>1 DEF At, Homed, Critical
  <2>2. lock[Home(m)] = m /\ Home(m) \in Process
    BY <2>1 DEF At, HoldersHold, Homed, Critical
  <2>3. discovered'[Home(m)] = discovered[Home(m)]
    BY <2>1, <2>2
  <2> QED
    BY <2>1, <2>3 DEF DiscoversOnce, At, Home
<1>9. InHand'
  BY <1>1 DEF InHand, At
<1> QED
  BY <1>3, <1>4, <1>5, <1>6, <1>7, <1>8, <1>9

\* The endpoint does not move when a lookup ends early.
LEMMA GivesUp ==
    ASSUME IInv, NEW l \in Lookup, Become(l, Idle), Release(l),
           UNCHANGED <<clock, cache, endpoint, discovered>>
    PROVE  IInv'
  BY LetsGo, IdleIsLocal DEF IInv, TypeOK, FreshAsLong, NoOlder, Observed, Homed, Critical

\* What a read of the endpoint under the lock leads to, when it is not fresh.
LEMMA StaleIsOld ==
    ASSUME IInv, NEW p \in Process, ~Fresh(endpoint), discovered[p] # -1
    PROVE  discovered[p] + EndpointTTL <= clock
  BY LookupAssumption DEF IInv, TypeOK, NoOlder, FreshAsLong, Fresh, Observed, Endpoint, Time

-----------------------------------------------------------------------------
(* Every step preserves the invariant *)

LEMMA FinalizedIsLocal ==
    ASSUME NEW local \in Local, NEW response \in Response
    PROVE  /\ Finalized(local, response) \in Local
           /\ Finalized(local, response).pc \in {"registrar", "answered"}
<1> DEFINE pc == IF local.protocol = "rdap" /\ response.kind = "registered"
                 THEN "registrar" ELSE "answered"
<1>1. pc \in {"registrar", "answered"}
  OBVIOUS
<1> HIDE DEF pc
<1>2. [local EXCEPT !.response = response, !.process = None, !.refresh = FALSE,
                    !.offers = {}, !.pc = pc] \in Local
  BY <1>1 DEF Local
<1>3. Finalized(local, response)
        = [local EXCEPT !.response = response, !.process = None, !.refresh = FALSE,
                        !.offers = {}, !.pc = pc]
  BY DEF Finalized, pc
<1> QED
  BY <1>1, <1>2, <1>3 DEF Local

LEMMA ServedIsLocal ==
    ASSUME NEW local \in Local, NEW found \in Endpoint
    PROVE  Served(local, found) \in Local /\ Served(local, found).pc = "query"
  BY DEF Served, Local, Endpoint

LEMMA CompletedIsLocal ==
    ASSUME NEW local \in Local, NEW registrar \in Response \cup {None}
    PROVE  /\ Completed(local, registrar) \in Local
           /\ Completed(local, registrar).pc = "answered"
  BY DEF Completed, Local

LEMMA StartKeepsIInv ==
    ASSUME IInv, NEW l \in Lookup, NEW p \in Process, NEW force \in BOOLEAN,
           NEW refresh \in BOOLEAN, Start(l, p, force, refresh)
    PROVE  IInv'
<1> DEFINE local == [Idle EXCEPT !.pc = FirstStep(force), !.process = p,
                       !.force = force, !.refresh = refresh, !.began = clock]
<1>1. local \in Local
  BY IdleIsLocal DEF IInv, TypeOK, Local, FirstStep
<1>2. local.pc \in {"cache", "endpoint"} /\ local.process = p
  BY IdleIsLocal DEF Local, FirstStep
<1> HIDE DEF local
<1>3. Become(l, local)
  BY DEF Start, local
<1> QED
  BY <1>1, <1>2, <1>3, GoesOn DEF Start, IInv, TypeOK, Running, At, Homed, Critical

LEMMA ReadCacheKeepsIInv ==
    ASSUME IInv, NEW l \in Lookup, ReadCache(l)
    PROVE  IInv'
<1> USE DEF IInv, TypeOK
<1>1. lookup[l] \in Local /\ lookup[l].protocol \in Role /\ Home(l) \in Process
  BY DEF ReadCache, At, HoldersHold, Homed, Local, Protocol, Role
<1>2. CASE /\ Fresh(cache[lookup[l].protocol])
           /\ Become(l, Finalized(lookup[l], cache[lookup[l].protocol]))
  <2>1. cache[lookup[l].protocol] \in Response
    BY <1>1, <1>2 DEF Fresh
  <2> QED
    BY <1>1, <1>2, <2>1, FinalizedIsLocal, GoesOn DEF ReadCache, At, Homed, Critical
<1>3. CASE Become(l, IF lookup[l].protocol = "rdap"
                     THEN [lookup[l] EXCEPT !.protocol = "whois"]
                     ELSE [lookup[l] EXCEPT !.protocol = "rdap", !.pc = "endpoint"])
  <2> DEFINE local == IF lookup[l].protocol = "rdap"
                      THEN [lookup[l] EXCEPT !.protocol = "whois"]
                      ELSE [lookup[l] EXCEPT !.protocol = "rdap", !.pc = "endpoint"]
  <2>1. /\ local \in Local /\ local.pc \in {"cache", "endpoint"}
        /\ local.process = Home(l)
    BY <1>1 DEF ReadCache, At, Local, Protocol, Home
  <2> HIDE DEF local
  <2> QED
    BY <1>1, <1>3, <2>1, GoesOn DEF ReadCache, At, Homed, Critical, local
<1> QED
  BY <1>2, <1>3 DEF ReadCache

LEMMA ReadEndpointKeepsIInv ==
    ASSUME IInv, NEW l \in Lookup, ReadEndpoint(l)
    PROVE  IInv'
<1> USE DEF IInv, TypeOK
<1> DEFINE waiting == [lookup[l] EXCEPT !.pc = "waiting"]
<1>1. lookup[l] \in Local /\ Home(l) \in Process
  BY DEF ReadEndpoint, At, HoldersHold, Homed
<1>2. CASE Fresh(endpoint) /\ Become(l, Served(lookup[l], endpoint))
  <2>1. endpoint \in Endpoint
    BY <1>2 DEF Fresh
  <2> QED
    BY <1>1, <1>2, <2>1, ServedIsLocal, GoesOn DEF ReadEndpoint, At, Homed, Critical
<1>3. CASE Become(l, waiting)
  <2>1. waiting \in Local /\ waiting.pc = "waiting" /\ waiting.process = Home(l)
    BY <1>1 DEF Local, Home
  <2> HIDE DEF waiting
  <2> QED
    BY <1>1, <1>3, <2>1, GoesOn DEF ReadEndpoint, At, Homed, Critical
<1> QED
  BY <1>2, <1>3 DEF ReadEndpoint

LEMMA TakeLockKeepsIInv ==
    ASSUME IInv, NEW l \in Lookup, TakeLock(l)
    PROVE  IInv'
<1> USE DEF IInv
<1> DEFINE p == Home(l)
<1>1. /\ lookup[l] \in Local /\ p \in Process /\ lock[p] = None
      /\ lookup[l].pc = "waiting"
  BY DEF TypeOK, TakeLock, At, HoldersHold, Homed
<1>2. /\ lookup' \in [Lookup -> Local] /\ lookup'[l].pc = "recheck"
      /\ lookup'[l].process = p
      /\ \A m \in Lookup \ {l} : lookup'[m] = lookup[m]
  BY <1>1 DEF TypeOK, TakeLock, Become, Local, Home
<1>3. /\ lock' \in [Process -> Lookup \cup {None}] /\ lock'[p] = l
      /\ \A q \in Process \ {p} : lock'[q] = lock[q]
  BY <1>1 DEF TypeOK, TakeLock
<1>4. UNCHANGED <<clock, cache, endpoint, discovered>>
  BY DEF TakeLock
<1>5. TypeOK'
  BY <1>2, <1>3, <1>4 DEF TypeOK
<1>6. \A q \in Process : lock[q] # l
  BY <1>1, LookupAssumption DEF LocksAreReleased
<1>7. LocksAreReleased'
  BY <1>2, <1>3, <1>6 DEF TypeOK, LocksAreReleased, Home
<1>8. HoldersHold'
  BY <1>1, <1>2, <1>3, LookupAssumption DEF HoldersHold, Home, Critical, Homed
<1>9. FreshAsLong' /\ NoOlder' /\ InHand'
  BY <1>2, <1>4 DEF FreshAsLong, NoOlder, InHand, At, Observed
<1>10. DiscoversOnce'
  BY <1>2, <1>4 DEF DiscoversOnce, At, Home
<1> QED
  BY <1>5, <1>7, <1>8, <1>9, <1>10

LEMMA RecheckKeepsIInv ==
    ASSUME IInv, NEW l \in Lookup, Recheck(l)
    PROVE  IInv'
<1> USE DEF IInv
<1> DEFINE discover == [lookup[l] EXCEPT !.pc = "discovering", !.since = clock]
           blind == [discover EXCEPT !.blind = TRUE]
<1>1. /\ lookup[l] \in Local /\ Home(l) \in Process /\ lookup[l].pc = "recheck"
      /\ clock \in Time
  BY DEF TypeOK, Recheck, At, HoldersHold, Homed, Critical
<1>2. CASE /\ FreshUnderLock(lookup[l])
           /\ Become(l, Served(lookup[l], endpoint)) /\ Release(l)
  <2>1. endpoint \in Endpoint
    BY <1>2 DEF FreshUnderLock, Fresh, TypeOK
  <2>2. /\ Served(lookup[l], endpoint) \in Local
        /\ Served(lookup[l], endpoint).pc = "query"
    BY <1>1, <2>1, ServedIsLocal
  <2> QED
    BY <1>2, <2>2, LetsGo DEF Recheck, TypeOK, Homed, Critical, FreshAsLong, NoOlder,
       Observed
<1>3. CASE ~FreshUnderLock(lookup[l]) /\ Become(l, discover) /\ UNCHANGED lock
  <2>1. /\ discover \in Local /\ discover.pc = "discovering" /\ discover.since = clock
        /\ discover.process = Home(l) /\ discover.refresh = lookup[l].refresh
    BY <1>1 DEF Local, Home
  <2>2. ~discover.refresh /\ discovered[Home(l)] # -1
        => discovered[Home(l)] + EndpointTTL <= discover.since
    BY <1>1, <1>3, <2>1, StaleIsOld DEF FreshUnderLock
  <2> HIDE DEF discover
  <2> QED
    BY <1>1, <1>3, <2>1, <2>2, GoesOn DEF Recheck, TypeOK, Homed, Critical
<1>4. CASE Become(l, blind) /\ UNCHANGED lock
  <2>1. /\ blind \in Local /\ blind.pc = "discovering" /\ blind.blind
        /\ blind.process = Home(l)
    BY <1>1 DEF Local, Home
  <2> HIDE DEF blind
  <2> QED
    BY <1>1, <1>4, <2>1, GoesOn DEF Recheck, TypeOK, Homed, Critical
<1> QED
  BY <1>2, <1>3, <1>4 DEF Recheck

LEMMA DiscoverKeepsIInv ==
    ASSUME IInv, NEW l \in Lookup, NEW referral \in Referral,
           NEW bootstrap \in Bootstrap, Discover(l, referral, bootstrap)
    PROVE  IInv'
<1> USE DEF IInv
<1> DEFINE found == [observed |-> clock, fresh |-> clock + EndpointTTL,
                     offers |-> Discovered(referral, bootstrap)]
           local == [lookup[l] EXCEPT !.pc = "save_endpoint", !.since = 0,
                       !.blind = FALSE, !.found = found]
<1>1. /\ lookup[l] \in Local /\ Home(l) \in Process /\ lookup[l].pc = "discovering"
      /\ clock \in Time
  BY DEF TypeOK, Discover, At, HoldersHold, Homed, Critical
<1>2. found \in Endpoint
  BY <1>1, LookupAssumption DEF Endpoint, Discovered, Protocol, Time
<1>3. found # None /\ found.fresh = found.observed + EndpointTTL
  BY <1>2, NoneIsNoRecord
<1>4. Become(l, local)
  BY DEF Discover
<1>5. 0 \in Time
  BY LookupAssumption DEF Time
<1> HIDE DEF found
<1>6. /\ local \in Local /\ local.pc = "save_endpoint" /\ local.process = Home(l)
      /\ local.found = found
  BY <1>1, <1>2, <1>5 DEF Local, Home
<1> HIDE DEF local
<1> QED
  BY <1>1, <1>3, <1>4, <1>6, GoesOn DEF Discover, TypeOK, Homed, Critical

LEMMA SaveEndpointKeepsIInv ==
    ASSUME IInv, NEW l \in Lookup, SaveEndpoint(l)
    PROVE  IInv'
<1> USE DEF IInv
<1> DEFINE found == lookup[l].found
<1>1. /\ lookup[l] \in Local /\ Home(l) \in Process /\ lookup[l].pc = "save_endpoint"
      /\ lock[Home(l)] = l
  BY DEF TypeOK, SaveEndpoint, At, HoldersHold, Homed, Critical
<1>2. found \in Endpoint /\ found.fresh = found.observed + EndpointTTL
  BY <1>1 DEF FreshAsLong, At, Local
<1>3. Served(lookup[l], found) \in Local /\ Served(lookup[l], found).pc = "query"
  BY <1>1, <1>2, ServedIsLocal
<1>4. CASE /\ endpoint' \in Publish(endpoint, found)
           /\ discovered' = [discovered EXCEPT ![Home(l)] = found.observed]
           /\ Become(l, Served(lookup[l], found))
  <2>1. /\ endpoint' \in Endpoint /\ Observed(endpoint') >= Observed(endpoint)
        /\ Observed(endpoint') >= Observed(found)
    <3>1. \A record \in Endpoint : record.observed \in Nat
      BY LookupAssumption DEF Endpoint, Time
    <3> QED
      BY <1>2, <1>4, <3>1, PublishAdvances, NoneIsNoRecord DEF TypeOK
  <2>2. endpoint'.fresh = endpoint'.observed + EndpointTTL
    BY <1>2, <1>4, NoneIsNoRecord DEF Publish, FreshAsLong, TypeOK
  <2>3. Observed(endpoint) \in Int /\ Observed(endpoint') \in Int
        /\ Observed(found) = found.observed /\ found.observed \in Time
    BY <1>2, <2>1, NoneIsNoRecord, LookupAssumption DEF Observed, TypeOK, Endpoint, Time
  <2>4. /\ discovered' \in [Process -> Time \cup {-1}]
        /\ \A p \in Process : /\ discovered'[p] <= Observed(endpoint')
                              /\ lock[p] # l => discovered'[p] = discovered[p]
    BY <1>1, <1>4, <2>1, <2>3, LookupAssumption DEF TypeOK, NoOlder, Time
  <2> QED
    BY <1>3, <1>4, <2>1, <2>2, <2>4, LetsGo DEF SaveEndpoint, TypeOK, Homed, Critical
<1>5. CASE Become(l, Idle) /\ UNCHANGED <<endpoint, discovered>>
  BY <1>5, GivesUp DEF SaveEndpoint
<1> QED
  BY <1>4, <1>5 DEF SaveEndpoint

LEMMA SaveIsLocal ==
    ASSUME NEW local \in Local, NEW new \in Response
    PROVE  [local EXCEPT !.pc = "save", !.response = new] \in Local
  BY DEF Local

LEMMA QueryKeepsIInv ==
    ASSUME IInv, NEW l \in Lookup, Query(l)
    PROVE  IInv'
<1> USE DEF IInv, TypeOK
<1> DEFINE ttl(kind) == IF kind = "released" THEN NotFoundTTL ELSE CacheTTL
           response(kind) == [observed |-> clock, fresh |-> clock + ttl(kind),
                              kind |-> kind]
           local(kind) == [lookup[l] EXCEPT !.pc = "save", !.response = response(kind)]
<1>1. PICK kind \in Answers(lookup[l].protocol) : Become(l, local(kind))
  BY DEF Query
<1>2. kind \in {"released", "registered"}
  BY DEF Answers, RegistryKind, WhoisKinds, WhoisKind
<1>3. response(kind) \in Response
  BY <1>2, LookupAssumption DEF Response, Time
<1> HIDE DEF response
<1>4. response(kind) # None
  BY <1>3, NoneIsNoRecord
<1>5. /\ local(kind) \in Local /\ local(kind).pc = "save"
      /\ local(kind).response # None
  <2> DEFINE new == response(kind)
  <2> HIDE DEF new
  <2>1. new \in Response /\ new # None
    BY <1>3, <1>4 DEF new
  <2>2. [lookup[l] EXCEPT !.pc = "save", !.response = new] \in Local
    BY <2>1, SaveIsLocal
  <2> QED
    BY <2>1, <2>2 DEF Local, new
<1> HIDE DEF local
<1> QED
  BY <1>1, <1>5, GoesOn DEF Query, At, Homed, Critical

LEMMA QueryFailsKeepsIInv ==
    ASSUME IInv, NEW l \in Lookup, QueryFails(l)
    PROVE  IInv'
<1>1. /\ NextProtocol(lookup[l]) \in Local
      /\ NextProtocol(lookup[l]).pc \in {"query", "idle"}
  BY IdleIsLocal DEF IInv, TypeOK, QueryFails, At, NextProtocol, Local, Protocol
<1> QED
  BY <1>1, GoesOn DEF IInv, TypeOK, QueryFails, At, Homed, Critical

\* What Publish leaves of a response is a response.
LEMMA PublishedIsResponse ==
    ASSUME TypeOK, NEW k \in Role, NEW response \in Response,
           NEW head \in Publish(cache[k], response)
    PROVE  /\ head \in Response
           /\ Observed(head) >= Observed(cache[k])
<1>1. \A record \in Response : record.observed \in Nat
  BY LookupAssumption DEF Response, Time
<1> QED
  BY <1>1, PublishAdvances, NoneIsNoRecord DEF TypeOK

LEMMA SaveResponseKeepsIInv ==
    ASSUME IInv, NEW l \in Lookup, SaveResponse(l)
    PROVE  IInv'
<1> DEFINE k == lookup[l].protocol
<1>1. lookup[l] \in Local /\ lookup[l].response \in Response /\ k \in Role
  BY DEF IInv, TypeOK, InHand, SaveResponse, At, Local, Protocol, Role
<1>2. cache' \in [Role -> Response \cup {None}]
  BY <1>1, PublishedIsResponse DEF IInv, TypeOK, SaveResponse
<1>3. /\ Finalized(lookup[l], lookup[l].response) \in Local
      /\ Finalized(lookup[l], lookup[l].response).pc \in {"registrar", "answered"}
  BY <1>1, FinalizedIsLocal
<1> QED
  BY <1>2, <1>3, GoesOn DEF IInv, SaveResponse, At, Homed, Critical

LEMMA ReadRegistrarKeepsIInv ==
    ASSUME IInv, NEW l \in Lookup, ReadRegistrar(l)
    PROVE  IInv'
<1> USE DEF IInv, TypeOK
<1> DEFINE asking == [lookup[l] EXCEPT !.pc = "query_registrar"]
<1>1. CASE Become(l, asking)
  <2>1. asking \in Local /\ asking.pc = "query_registrar"
    BY DEF Local
  <2> HIDE DEF asking
  <2> QED
    BY <1>1, <2>1, GoesOn DEF ReadRegistrar, At, Homed, Critical
<1>2. ASSUME NEW registrar \in Response \cup {None},
             Become(l, Completed(lookup[l], registrar))
      PROVE  IInv'
  BY <1>2, CompletedIsLocal, GoesOn DEF ReadRegistrar, At, Homed, Critical
<1> QED
  BY <1>1, <1>2 DEF ReadRegistrar, Role

LEMMA QueryRegistrarKeepsIInv ==
    ASSUME IInv, NEW l \in Lookup, QueryRegistrar(l)
    PROVE  IInv'
<1> DEFINE registrar(kind) == [observed |-> clock, fresh |-> clock + CacheTTL,
                               kind |-> kind]
           local(kind) == [lookup[l] EXCEPT !.pc = "save_registrar",
                                            !.registrar = registrar(kind)]
<1>1. clock \in Time /\ lookup[l] \in Local
  BY DEF IInv, TypeOK
<1>2. /\ UNCHANGED <<clock, endpoint, lock, discovered>>
      /\ cache' \in [Role -> Response \cup {None}]
      /\ lookup[l].pc \notin Critical
  BY DEF QueryRegistrar, IInv, TypeOK, At, Critical
<1>3. CASE Become(l, Completed(lookup[l], None))
  BY <1>1, <1>2, <1>3, CompletedIsLocal, GoesOn DEF Homed, Critical
<1>4. ASSUME NEW kind \in {"registered", "unparsable"}, Become(l, local(kind))
      PROVE  IInv'
  <2>1. registrar(kind) \in Response
    BY <1>1, LookupAssumption DEF Response, Time
  <2> HIDE DEF registrar
  <2>2. /\ local(kind) \in Local /\ local(kind).pc = "save_registrar"
        /\ local(kind).registrar # None
    BY <1>1, <2>1, NoneIsNoRecord DEF Local
  <2>3. local(kind).pc \notin Homed /\ local(kind).pc \notin Critical
    BY <2>2 DEF Homed, Critical
  <2> HIDE DEF local
  <2> QED
    BY <1>2, <1>4, <2>2, <2>3, GoesOn
<1> QED
  BY <1>3, <1>4 DEF QueryRegistrar, RegistrarKind

LEMMA SaveRegistrarKeepsIInv ==
    ASSUME IInv, NEW l \in Lookup, SaveRegistrar(l)
    PROVE  IInv'
<1>1. lookup[l] \in Local /\ lookup[l].registrar \in Response /\ "registrar" \in Role
  BY DEF IInv, TypeOK, InHand, SaveRegistrar, At, Local, Role
<1>2. cache' \in [Role -> Response \cup {None}]
  BY <1>1, PublishedIsResponse DEF IInv, TypeOK, SaveRegistrar
<1>3. CASE Become(l, Completed(lookup[l], lookup[l].registrar))
  BY <1>1, <1>2, <1>3, CompletedIsLocal, GoesOn
     DEF IInv, SaveRegistrar, At, Homed, Critical
<1>4. CASE Become(l, Idle)
  BY <1>2, <1>4, IdleIsLocal, GoesOn DEF IInv, SaveRegistrar, At, Homed, Critical
<1> QED
  BY <1>3, <1>4 DEF SaveRegistrar

LEMMA TickKeepsIInv == IInv /\ Tick => IInv'
<1> SUFFICES ASSUME IInv, Tick PROVE IInv'
  OBVIOUS
<1>1. TypeOK'
  BY LookupAssumption DEF IInv, TypeOK, Tick, Time
<1> QED
  BY <1>1 DEF IInv, Tick, InHand, LocksAreReleased, HoldersHold, FreshAsLong, NoOlder,
     DiscoversOnce, At, Home, Observed

-----------------------------------------------------------------------------
(* The invariant *)

LEMMA InitEstablishesIInv == Init => IInv
<1> SUFFICES ASSUME Init PROVE IInv
  OBVIOUS
<1>1. TypeOK
  BY IdleIsLocal, LookupAssumption DEF Init, TypeOK, Time
<1> QED
  BY <1>1, IdleIsLocal DEF Init, IInv, InHand, LocksAreReleased, HoldersHold,
     FreshAsLong, NoOlder, DiscoversOnce, At, Home, Homed, Critical, Observed

LEMMA NextKeepsIInv == IInv /\ [Next]_vars => IInv'
<1> SUFFICES ASSUME IInv, [Next]_vars PROVE IInv'
  OBVIOUS
<1>1. ASSUME NEW l \in Lookup, DiscoverFails(l) \/ Cancel(l)
      PROVE  IInv'
  BY <1>1, GivesUp DEF DiscoverFails, FailDiscovery, Cancel
<1>2. CASE UNCHANGED vars
  BY <1>2 DEF vars, IInv, TypeOK, InHand, LocksAreReleased, HoldersHold, FreshAsLong,
     NoOlder, DiscoversOnce, At, Home, Observed
<1> QED
  BY <1>1, <1>2, StartKeepsIInv, ReadCacheKeepsIInv, ReadEndpointKeepsIInv,
     TakeLockKeepsIInv, RecheckKeepsIInv, DiscoverKeepsIInv, SaveEndpointKeepsIInv,
     QueryKeepsIInv, QueryFailsKeepsIInv, SaveResponseKeepsIInv,
     ReadRegistrarKeepsIInv, QueryRegistrarKeepsIInv, SaveRegistrarKeepsIInv,
     TickKeepsIInv DEF Next

\* Every reachable state satisfies the inductive invariant.
THEOREM Safety == Spec => []IInv
  BY InitEstablishesIInv, NextKeepsIInv, PTL DEF Spec

\* One process discovers an endpoint once for as long as it is fresh
\* (DomainLookupService._get_endpoint).
THEOREM DiscoversOnceHolds == Spec => []DiscoversOnce
<1>1. IInv => DiscoversOnce
  BY DEF IInv
<1> QED
  BY <1>1, Safety, PTL

\* No lookup leaves its process's lock behind (async with lock).
THEOREM LocksAreReleasedHolds == Spec => []LocksAreReleased
<1>1. IInv => LocksAreReleased
  BY DEF IInv
<1> QED
  BY <1>1, Safety, PTL

\* What is cached never goes back in time (LookupStore.publish).
THEOREM CacheNeverGoesBackHolds == Spec => CacheNeverGoesBack
<1>1. ASSUME IInv, [Next]_vars
      PROVE  [/\ \A k \in Role : Observed(cache'[k]) >= Observed(cache[k])
              /\ Observed(endpoint') >= Observed(endpoint)]_vars
  <2> SUFFICES ASSUME Next PROVE /\ \A k \in Role : Observed(cache'[k]) >= Observed(cache[k])
                                 /\ Observed(endpoint') >= Observed(endpoint)
    BY <1>1
  <2> USE DEF IInv
  <2>1. /\ \A k \in Role : Observed(cache[k]) \in Int
        /\ Observed(endpoint) \in Int
    BY <1>1, LookupAssumption DEF TypeOK, Observed, Response, Endpoint, Time
  <2>2. ASSUME NEW l \in Lookup, SaveEndpoint(l)
        PROVE  Observed(endpoint') >= Observed(endpoint) /\ UNCHANGED cache
    <3>1. lookup[l].found \in Endpoint
      BY <1>1, <2>2 DEF SaveEndpoint, At, FreshAsLong, TypeOK, Local
    <3>2. \A record \in Endpoint : record.observed \in Nat
      BY LookupAssumption DEF Endpoint, Time
    <3> QED
      BY <1>1, <2>1, <2>2, <3>1, <3>2, PublishAdvances, NoneIsNoRecord
         DEF SaveEndpoint, TypeOK
  <2>3. ASSUME NEW l \in Lookup, SaveResponse(l) \/ SaveRegistrar(l)
        PROVE  /\ \A k \in Role : Observed(cache'[k]) >= Observed(cache[k])
               /\ UNCHANGED endpoint
    <3>1. CASE SaveResponse(l)
      <4> DEFINE k == lookup[l].protocol
      <4>1. lookup[l].response \in Response /\ k \in Role
        BY <1>1, <3>1 DEF TypeOK, InHand, SaveResponse, At, Local, Protocol, Role
      <4> QED
        BY <1>1, <2>1, <3>1, <4>1, PublishedIsResponse DEF SaveResponse, TypeOK
    <3>2. CASE SaveRegistrar(l)
      <4>1. lookup[l].registrar \in Response /\ "registrar" \in Role
        BY <1>1, <3>2 DEF TypeOK, InHand, SaveRegistrar, At, Local, Role
      <4> QED
        BY <1>1, <2>1, <3>2, <4>1, PublishedIsResponse DEF SaveRegistrar, TypeOK
    <3> QED
      BY <2>3, <3>1, <3>2
  <2>4. CASE UNCHANGED <<cache, endpoint>>
    BY <1>1, <2>1, <2>4
  <2>5. ASSUME NEW l \in Lookup,
               \/ \E p \in Process, force, refresh \in BOOLEAN :
                     Start(l, p, force, refresh)
               \/ ReadCache(l) \/ ReadEndpoint(l) \/ TakeLock(l) \/ Recheck(l)
               \/ \E referral \in Referral, bootstrap \in Bootstrap :
                     Discover(l, referral, bootstrap)
               \/ DiscoverFails(l) \/ Query(l) \/ QueryFails(l)
               \/ ReadRegistrar(l) \/ QueryRegistrar(l) \/ Cancel(l)
        PROVE  UNCHANGED <<cache, endpoint>>
    BY <2>5 DEF Start, ReadCache, ReadEndpoint, TakeLock, Recheck, Discover,
       DiscoverFails, Query, QueryFails, ReadRegistrar, QueryRegistrar, Cancel
  <2>6. CASE Tick
    BY <2>4, <2>6 DEF Tick
  <2>7. CASE \E l \in Lookup : SaveEndpoint(l) \/ SaveResponse(l) \/ SaveRegistrar(l)
    BY <2>1, <2>2, <2>3, <2>7
  <2> QED
    BY <2>4, <2>5, <2>6, <2>7 DEF Next
<1> QED
  BY <1>1, Safety, PTL DEF Spec, CacheNeverGoesBack

-----------------------------------------------------------------------------
(* What answers are made of *)

\* Where a lookup has the registry's response.
Found == {"save", "registrar", "query_registrar", "save_registrar", "answered"}

\* What a lookup has in hand was fresh when it began, and a forced lookup fetched
\* its registry response since.
Current(local, time) ==
    /\ local.began <= time
    /\ local.pc = "cache" => local.force = FALSE
    /\ local.pc \in Found => local.response # None
    /\ local.response # None => /\ local.response.fresh > local.began
                                /\ local.force = FALSE
                                   \/ local.response.observed >= local.began
    /\ local.registrar # None => local.registrar.fresh > local.began

PartsAreCurrent == \A l \in Lookup : Current(lookup[l], clock)

\* A step of one lookup that leaves it current leaves all of them current.
LEMMA StaysCurrent ==
    ASSUME IInv, PartsAreCurrent, NEW l \in Lookup, NEW local,
           Become(l, local), UNCHANGED clock, Current(local, clock)
    PROVE  PartsAreCurrent'
<1>1. lookup'[l] = local /\ \A m \in Lookup \ {l} : lookup'[m] = lookup[m]
  BY DEF IInv, TypeOK, Become
<1>2. ASSUME NEW m \in Lookup
      PROVE  Current(lookup[m], clock)
  BY DEF PartsAreCurrent, Current, At
<1>3. ASSUME NEW m \in Lookup
      PROVE  Current(lookup'[m], clock')
  BY <1>1, <1>2
<1> QED
  BY <1>3 DEF PartsAreCurrent, Current, At

\* A lookup that is idle has nothing in hand.
LEMMA IdleIsCurrent == TypeOK => Current(Idle, clock)
  BY LookupAssumption DEF TypeOK, Time, Current, Idle, Found

LEMMA FinalizedIsCurrent ==
    ASSUME NEW local \in Local, NEW response \in Response, NEW time,
           Current(local, time), response.fresh > local.began,
           local.force = FALSE \/ response.observed >= local.began
    PROVE  Current(Finalized(local, response), time)
<1>1. /\ Finalized(local, response).began = local.began
      /\ Finalized(local, response).force = local.force
      /\ Finalized(local, response).response = response
      /\ Finalized(local, response).registrar = local.registrar
      /\ Finalized(local, response).pc # "cache"
  BY FinalizedIsLocal DEF Finalized, Local
<1> QED
  BY <1>1, NoneIsNoRecord DEF Current

LEMMA CompletedIsCurrent ==
    ASSUME NEW local \in Local, NEW registrar \in Response \cup {None}, NEW time,
           Current(local, time), local.response # None,
           registrar # None => registrar.fresh > local.began
    PROVE  Current(Completed(local, registrar), time)
<1>1. /\ Completed(local, registrar).began = local.began
      /\ Completed(local, registrar).force = local.force
      /\ Completed(local, registrar).response = local.response
      /\ Completed(local, registrar).registrar \in {registrar, None}
      /\ Completed(local, registrar).pc = "answered"
  BY DEF Completed, Local
<1> QED
  BY <1>1 DEF Current

\* A lookup that only moves on, with what it has in hand.
LEMMA MovesOnCurrent ==
    ASSUME NEW local, NEW next, NEW time, Current(local, time),
           next.began = local.began, next.force = local.force,
           next.response = local.response, next.registrar = local.registrar,
           next.pc = "cache" => local.pc = "cache",
           next.pc \in Found => local.pc \in Found
    PROVE  Current(next, time)
  BY DEF Current

LEMMA QueryKeepsCurrent ==
    ASSUME IInv, PartsAreCurrent, NEW l \in Lookup, Query(l)
    PROVE  PartsAreCurrent'
<1> USE DEF IInv, TypeOK
<1> DEFINE ttl(kind) == IF kind = "released" THEN NotFoundTTL ELSE CacheTTL
           response(kind) == [observed |-> clock, fresh |-> clock + ttl(kind),
                              kind |-> kind]
           local(kind) == [lookup[l] EXCEPT !.pc = "save", !.response = response(kind)]
<1>1. PICK kind \in Answers(lookup[l].protocol) : Become(l, local(kind))
  BY DEF Query
<1>2. kind \in {"released", "registered"}
  BY DEF Answers, RegistryKind, WhoisKinds, WhoisKind
<1>3. /\ response(kind) \in Response /\ response(kind).observed = clock
      /\ response(kind).fresh > clock
  BY <1>2, LookupAssumption DEF Response, Time
<1> HIDE DEF response
<1>4. Current(lookup[l], clock) /\ lookup[l] \in Local
  BY DEF PartsAreCurrent, Current, At
<1>5. /\ local(kind).pc = "save" /\ local(kind).response = response(kind)
      /\ local(kind).began = lookup[l].began
      /\ local(kind).registrar = lookup[l].registrar
  BY <1>4 DEF Local
<1> HIDE DEF local
<1>6. lookup[l].began \in Time /\ clock \in Time
  BY <1>4 DEF Local
<1>7. response(kind).fresh \in Nat
  BY <1>3 DEF Response
<1>8. Current(local(kind), clock)
  BY <1>3, <1>4, <1>5, <1>6, <1>7, NoneIsNoRecord, LookupAssumption DEF Current, Time
<1> QED
  BY <1>1, <1>8, StaysCurrent DEF Query

LEMMA QueryRegistrarKeepsCurrent ==
    ASSUME IInv, PartsAreCurrent, NEW l \in Lookup, QueryRegistrar(l)
    PROVE  PartsAreCurrent'
<1> USE DEF IInv, TypeOK
<1> DEFINE registrar(kind) == [observed |-> clock, fresh |-> clock + CacheTTL,
                               kind |-> kind]
           local(kind) == [lookup[l] EXCEPT !.pc = "save_registrar",
                                            !.registrar = registrar(kind)]
<1>1. /\ Current(lookup[l], clock) /\ lookup[l] \in Local
      /\ lookup[l].response # None
  BY DEF PartsAreCurrent, Current, At, QueryRegistrar, Found
<1>2. CASE Become(l, Completed(lookup[l], None))
  BY <1>1, <1>2, CompletedIsCurrent, StaysCurrent DEF QueryRegistrar
<1>3. ASSUME NEW kind \in {"registered", "unparsable"}, Become(l, local(kind))
      PROVE  PartsAreCurrent'
  <2>1. /\ registrar(kind).fresh > clock /\ registrar(kind).fresh \in Nat
    BY LookupAssumption DEF Time
  <2> HIDE DEF registrar
  <2>2. /\ local(kind).pc = "save_registrar" /\ local(kind).registrar = registrar(kind)
        /\ local(kind).response = lookup[l].response
        /\ local(kind).began = lookup[l].began /\ local(kind).force = lookup[l].force
    BY <1>1 DEF Local
  <2> HIDE DEF local
  <2>3. lookup[l].began \in Time /\ clock \in Time
    BY <1>1 DEF Local
  <2>4. Current(local(kind), clock)
    BY <1>1, <2>1, <2>2, <2>3, LookupAssumption DEF Current, Time
  <2> QED
    BY <1>3, <2>4, StaysCurrent DEF QueryRegistrar
<1> QED
  BY <1>2, <1>3 DEF QueryRegistrar, RegistrarKind

\* What is read from the cache is fresh now, and so was when the lookup began.
LEMMA ReadsKeepCurrent ==
    ASSUME IInv, PartsAreCurrent, NEW l \in Lookup, ReadCache(l) \/ ReadRegistrar(l)
    PROVE  PartsAreCurrent'
<1> USE DEF IInv, TypeOK
<1>1. /\ Current(lookup[l], clock) /\ lookup[l] \in Local
      /\ lookup[l].protocol \in Role /\ lookup[l].began <= clock
      /\ lookup[l].began \in Time /\ clock \in Time /\ "registrar" \in Role
  BY DEF PartsAreCurrent, Current, At, Local, Protocol, Role
<1>2. ASSUME NEW k \in Role, Fresh(cache[k])
      PROVE  cache[k] \in Response /\ cache[k].fresh > lookup[l].began
  <2>1. cache[k] \in Response /\ cache[k].fresh > clock
    BY <1>2 DEF Fresh
  <2> QED
    BY <1>1, <2>1, LookupAssumption DEF Response, Time
<1>3. CASE ReadCache(l)
  <2>1. lookup[l].pc = "cache" /\ lookup[l].force = FALSE
    BY <1>1, <1>3 DEF ReadCache, At, Current
  <2>2. CASE /\ Fresh(cache[lookup[l].protocol])
             /\ Become(l, Finalized(lookup[l], cache[lookup[l].protocol]))
    BY <1>1, <1>2, <1>3, <2>1, <2>2, FinalizedIsCurrent, StaysCurrent DEF ReadCache
  <2> DEFINE local == IF lookup[l].protocol = "rdap"
                      THEN [lookup[l] EXCEPT !.protocol = "whois"]
                      ELSE [lookup[l] EXCEPT !.protocol = "rdap", !.pc = "endpoint"]
  <2>3. CASE Become(l, local)
    <3>1. /\ local.began = lookup[l].began /\ local.force = lookup[l].force
          /\ local.response = lookup[l].response /\ local.registrar = lookup[l].registrar
          /\ local.pc \in {"cache", "endpoint"}
      BY <1>1, <2>1 DEF Local
    <3> HIDE DEF local
    <3>2. Current(local, clock)
      BY <1>1, <2>1, <3>1, MovesOnCurrent DEF Found
    <3> QED
      BY <1>3, <2>3, <3>2, StaysCurrent DEF ReadCache
  <2> QED
    BY <1>3, <2>2, <2>3 DEF ReadCache
<1>4. CASE ReadRegistrar(l)
  <2>1. lookup[l].pc = "registrar" /\ lookup[l].response # None
    BY <1>1, <1>4 DEF ReadRegistrar, At, Current, Found
  <2>2. ASSUME NEW registrar \in Response \cup {None},
               registrar # None => registrar.fresh > lookup[l].began,
               Become(l, Completed(lookup[l], registrar))
        PROVE  PartsAreCurrent'
    BY <1>1, <1>4, <2>1, <2>2, CompletedIsCurrent, StaysCurrent DEF ReadRegistrar
  <2>3. CASE Become(l, Completed(lookup[l], None))
    BY <2>2, <2>3
  <2>4. CASE /\ Fresh(cache["registrar"])
             /\ Become(l, Completed(lookup[l], cache["registrar"]))
    BY <1>1, <1>2, <2>2, <2>4
  <2> DEFINE local == [lookup[l] EXCEPT !.pc = "query_registrar"]
  <2>5. CASE Become(l, local)
    <3>1. /\ local.began = lookup[l].began /\ local.force = lookup[l].force
          /\ local.response = lookup[l].response /\ local.registrar = lookup[l].registrar
          /\ local.pc = "query_registrar"
      BY <1>1 DEF Local
    <3> HIDE DEF local
    <3>2. Current(local, clock)
      BY <1>1, <2>1, <3>1, MovesOnCurrent DEF Found
    <3> QED
      BY <1>4, <2>5, <3>2, StaysCurrent DEF ReadRegistrar
  <2> QED
    BY <1>4, <2>3, <2>4, <2>5 DEF ReadRegistrar
<1> QED
  BY <1>3, <1>4

LEMMA SavesKeepCurrent ==
    ASSUME IInv, PartsAreCurrent, NEW l \in Lookup, SaveResponse(l) \/ SaveRegistrar(l)
    PROVE  PartsAreCurrent'
<1> USE DEF IInv, TypeOK
<1>1. Current(lookup[l], clock) /\ lookup[l] \in Local
  BY DEF PartsAreCurrent, Current, At
<1>2. CASE SaveResponse(l)
  <2>1. lookup[l].response \in Response
    BY <1>1, <1>2 DEF SaveResponse, At, InHand, Local
  <2>2. Current(Finalized(lookup[l], lookup[l].response), clock)
    BY <1>1, <2>1, FinalizedIsCurrent, NoneIsNoRecord DEF Current
  <2> QED
    BY <1>2, <2>2, StaysCurrent DEF SaveResponse
<1>3. CASE SaveRegistrar(l)
  <2>1. lookup[l].registrar \in Response /\ lookup[l].response # None
    BY <1>1, <1>3 DEF SaveRegistrar, At, InHand, Local, Current, Found
  <2>2. Current(Completed(lookup[l], lookup[l].registrar), clock)
    BY <1>1, <2>1, CompletedIsCurrent, NoneIsNoRecord DEF Current
  <2> QED
    BY <1>3, <2>2, IdleIsCurrent, StaysCurrent DEF SaveRegistrar
<1> QED
  BY <1>2, <1>3

\* The steps that only move a lookup on, or end it.
LEMMA MovesKeepCurrent ==
    ASSUME IInv, PartsAreCurrent, NEW l \in Lookup,
           \/ ReadEndpoint(l) \/ TakeLock(l) \/ Recheck(l) \/ SaveEndpoint(l)
           \/ \E referral \in Referral, bootstrap \in Bootstrap :
                Discover(l, referral, bootstrap)
           \/ DiscoverFails(l) \/ QueryFails(l) \/ Cancel(l)
    PROVE  PartsAreCurrent'
<1> DEFINE local == lookup[l]
<1>1. /\ Current(local, clock) /\ local \in Local /\ lookup' \in [Lookup -> Local]
      /\ UNCHANGED clock
  BY NextKeepsIInv DEF IInv, TypeOK, PartsAreCurrent, Current, At, ReadEndpoint, TakeLock,
     Recheck, SaveEndpoint, Discover, DiscoverFails, QueryFails, Cancel, Next
<1>2. Become(l, lookup'[l])
  BY DEF IInv, TypeOK, Become, ReadEndpoint, TakeLock, Recheck, SaveEndpoint, Discover,
     DiscoverFails, FailDiscovery, QueryFails, Cancel
<1>3. CASE lookup'[l] = Idle
  BY <1>1, <1>2, <1>3, IdleIsCurrent, StaysCurrent DEF IInv
<1>4. CASE lookup'[l] # Idle
  <2> DEFINE on(next) == /\ next.began = local.began /\ next.force = local.force
                         /\ next.response = local.response
                         /\ next.registrar = local.registrar
                         /\ next.pc \notin Found \cup {"cache"}
  <2>1. \A found \in Endpoint : on(Served(local, found))
    BY <1>1 DEF Served, Local, Found
  <2>2. ASSUME ReadEndpoint(l) PROVE on(lookup'[l])
    <3>1. on([local EXCEPT !.pc = "waiting"])
      BY <1>1 DEF Local, Found
    <3> HIDE DEF on
    <3> QED
      BY <1>1, <1>2, <2>1, <2>2, <3>1
         DEF ReadEndpoint, Become, Fresh, IInv, TypeOK
  <2>3. ASSUME TakeLock(l) PROVE on(lookup'[l])
    BY <1>1, <2>3 DEF TakeLock, Become, IInv, TypeOK, Local, Found
  <2>4. ASSUME Recheck(l) PROVE on(lookup'[l])
    <3> DEFINE discover == [local EXCEPT !.pc = "discovering", !.since = clock]
    <3>1. on(discover) /\ on([discover EXCEPT !.blind = TRUE])
      BY <1>1 DEF Local, Found
    <3> HIDE DEF on
    <3> QED
      BY <1>1, <1>2, <2>1, <2>4, <3>1
         DEF Recheck, Become, FreshUnderLock, Fresh, IInv, TypeOK
  <2>5. ASSUME SaveEndpoint(l) PROVE on(lookup'[l])
    <3>1. local.found \in Endpoint
      BY <1>1, <2>5 DEF SaveEndpoint, At, IInv, FreshAsLong, Local
    <3> HIDE DEF on
    <3> QED
      BY <1>1, <1>4, <2>1, <2>5, <3>1 DEF SaveEndpoint, Become, IInv, TypeOK
  <2>6. ASSUME NEW referral \in Referral, NEW bootstrap \in Bootstrap,
               Discover(l, referral, bootstrap)
        PROVE  on(lookup'[l])
    BY <1>1, <2>6 DEF Discover, Become, IInv, TypeOK, Local, Found
  <2>7. ASSUME DiscoverFails(l) \/ Cancel(l) PROVE on(lookup'[l])
    BY <1>4, <2>7 DEF DiscoverFails, FailDiscovery, Cancel, Become, IInv, TypeOK
  <2>8. ASSUME QueryFails(l) PROVE on(lookup'[l])
    <3>1. local.pc = "query" /\ lookup'[l] = [local EXCEPT !.protocol = "whois"]
      BY <1>4, <2>8 DEF QueryFails, NextProtocol, Become, IInv, TypeOK, At
    <3> QED
      BY <1>1, <3>1 DEF Local, Found
  <2>9. on(lookup'[l])
    <3> HIDE DEF on
    <3> QED
      BY <2>2, <2>3, <2>4, <2>5, <2>6, <2>7, <2>8
  <2>10. Current(lookup'[l], clock)
    BY <1>1, <2>9, MovesOnCurrent
  <2> QED
    BY <1>1, <1>2, <2>10, StaysCurrent
<1> QED
  BY <1>3, <1>4

\* A lookup that starts has nothing in hand, and a forced one does not read the cache.
LEMMA StartKeepsCurrent ==
    ASSUME IInv, PartsAreCurrent, NEW l \in Lookup, NEW p \in Process,
           NEW force \in BOOLEAN, NEW refresh \in BOOLEAN, Start(l, p, force, refresh)
    PROVE  PartsAreCurrent'
<1> DEFINE local == [Idle EXCEPT !.pc = FirstStep(force), !.process = p,
                       !.force = force, !.refresh = refresh, !.began = clock]
<1>1. /\ local.pc = FirstStep(force) /\ local.force = force /\ local.began = clock
      /\ local.response = None /\ local.registrar = None
  BY DEF Idle
<1>2. Become(l, local) /\ UNCHANGED clock
  BY DEF Start
<1> HIDE DEF local
<1>3. Current(local, clock)
  BY <1>1, LookupAssumption DEF Current, FirstStep, Found, IInv, TypeOK, Time
<1> QED
  BY <1>2, <1>3, StaysCurrent

LEMMA NextKeepsCurrent == IInv /\ PartsAreCurrent /\ [Next]_vars => PartsAreCurrent'
<1> SUFFICES ASSUME IInv, PartsAreCurrent, [Next]_vars PROVE PartsAreCurrent'
  OBVIOUS
<1>1. CASE Tick
  BY <1>1, LookupAssumption DEF Tick, PartsAreCurrent, Current, IInv, TypeOK, Local, Time
<1>2. CASE UNCHANGED vars
  BY <1>2 DEF vars, PartsAreCurrent
<1> QED
  BY <1>1, <1>2, StartKeepsCurrent, ReadsKeepCurrent, QueryKeepsCurrent,
     QueryRegistrarKeepsCurrent, SavesKeepCurrent, MovesKeepCurrent DEF Next

\* Every part of an answer was fresh when the lookup began, and a forced lookup asked
\* the registry after it began (DomainLookup.lookup, force_refresh).
THEOREM AnswersAreCurrentHolds == Spec => []AnswersAreCurrent
<1>1. Init => PartsAreCurrent
  BY LookupAssumption DEF Init, PartsAreCurrent, Current, Idle, Found
<1>2. PartsAreCurrent => AnswersAreCurrent
  BY DEF PartsAreCurrent, Current, AnswersAreCurrent, Answered, At, Part, Found
<1> QED
  BY <1>1, <1>2, Safety, NextKeepsCurrent, PTL DEF Spec

-----------------------------------------------------------------------------
(* Induction over the naturals: WellFoundedInduction states it for the least *)
(* element of a set, and that form needs no predicate as a parameter         *)

\* A set of naturals has a least element.
LEMMA LeastElement ==
    ASSUME NEW S, S \subseteq Nat, S # {}
    PROVE  \E n \in S : \A m \in S : n <= m
<1> DEFINE R == {p \in Nat \X Nat : p[1] < p[2]}
<1>1. IsWellFoundedOn(R, Nat)
  BY NatLessThanWellFounded DEF OpToRel
<1>2. PICK n \in S : \A m \in S : ~ (<<m, n>> \in R)
  <2> HIDE DEF R
  <2> QED
    BY <1>1, WFMin
<1>3. ASSUME NEW m \in S PROVE n <= m
  <2>1. m \in Nat /\ n \in Nat
    OBVIOUS
  <2>2. ~ (<<m, n>> \in R)
    BY <1>2
  <2> QED
    BY <2>1, <2>2
<1> QED
  BY <1>3

\* A set of naturals that has 0 and with every number the next one has them all.
LEMMA InductionOnSets ==
    ASSUME NEW S, 0 \in S, \A n \in Nat : n \in S => n + 1 \in S
    PROVE  Nat \subseteq S
<1> DEFINE Rest == Nat \ S
<1>1. SUFFICES ASSUME Rest # {} PROVE FALSE
  OBVIOUS
<1>2. PICK n \in Rest : \A m \in Rest : n <= m
  BY <1>1, LeastElement
<1>3. n \in Nat /\ n # 0
  BY <1>2
<1>4. n - 1 \in Nat /\ n - 1 \notin Rest
  BY <1>2, <1>3
<1>5. (n - 1) + 1 \in S
  BY <1>4
<1> QED
  BY <1>3, <1>5

\* A step iterated from a start gives a sequence of values.
LEMMA Iteration ==
    ASSUME NEW V, NEW start \in V, NEW step \in [V -> V]
    PROVE  \E f \in [Nat -> V] : f[0] = start /\ \A n \in Nat : f[n + 1] = step[f[n]]
<1> DEFINE Prefix(n) == {g \in [0..n -> V] :
                           g[0] = start /\ \A i \in 0..(n - 1) : g[i + 1] = step[g[i]]}
           Reached == {n \in Nat : Prefix(n) # {}}
<1>1. 0 \in Reached
  <2>1. [i \in 0..0 |-> start] \in Prefix(0)
    OBVIOUS
  <2> QED
    BY <2>1
<1>2. ASSUME NEW n \in Nat, n \in Reached PROVE n + 1 \in Reached
  <2>1. PICK g : g \in Prefix(n)
    BY <1>2
  <2> DEFINE h == [i \in 0..(n + 1) |-> IF i = n + 1 THEN step[g[n]] ELSE g[i]]
  <2>2. g \in [0..n -> V] /\ g[0] = start
        /\ \A i \in 0..(n - 1) : g[i + 1] = step[g[i]]
    BY <2>1
  <2>3. h \in [0..(n + 1) -> V] /\ h[0] = start
    BY <2>2
  <2>4. ASSUME NEW i \in 0..n PROVE h[i + 1] = step[h[i]]
    <3>1. CASE i = n
      BY <3>1
    <3>2. CASE i # n
      BY <2>2, <3>2
    <3> QED
      BY <3>1, <3>2
  <2>5. (n + 1) - 1 = n
    OBVIOUS
  <2>6. h \in Prefix(n + 1)
    BY <2>3, <2>4, <2>5
  <2> HIDE DEF Prefix, h
  <2> QED
    BY <2>6
<1>3. \A n \in Nat : Prefix(n) # {}
  <2>1. Nat \subseteq Reached
    <3> HIDE DEF Reached
    <3> QED
      BY <1>1, <1>2, InductionOnSets
  <2> QED
    BY <2>1
<1> DEFINE P(n) == CHOOSE g : g \in Prefix(n)
           f == [n \in Nat |-> P(n)[n]]
<1>4. ASSUME NEW n \in Nat
      PROVE  /\ P(n) \in [0..n -> V] /\ P(n)[0] = start
             /\ \A i \in 0..(n - 1) : P(n)[i + 1] = step[P(n)[i]]
  <2>1. P(n) \in Prefix(n)
    <3> HIDE DEF Prefix
    <3> QED
      BY <1>3
  <2> HIDE DEF P
  <2> QED
    BY <2>1
<1> HIDE DEF P
<1>5. ASSUME NEW n \in Nat PROVE P(n + 1)[n] = P(n)[n]
  <2> DEFINE Agreed == {i \in Nat : i <= n => P(n + 1)[i] = P(n)[i]}
  <2>1. 0 \in Agreed
    <3>1. P(n + 1)[0] = start /\ P(n)[0] = start
      BY <1>4, n + 1 \in Nat
    <3> QED
      BY <3>1
  <2>2. ASSUME NEW i \in Nat, i \in Agreed PROVE i + 1 \in Agreed
    <3>1. CASE i + 1 <= n
      <4>1. i \in 0..(n - 1) /\ i \in 0..((n + 1) - 1)
        BY <3>1
      <4>2. P(n)[i + 1] = step[P(n)[i]]
        BY <1>4, <4>1
      <4>3. P(n + 1)[i + 1] = step[P(n + 1)[i]]
        BY <1>4, <4>1, n + 1 \in Nat
      <4> QED
        BY <2>2, <3>1, <4>2, <4>3
    <3>2. CASE ~ (i + 1 <= n)
      BY <3>2
    <3> QED
      BY <3>1, <3>2
  <2>3. Nat \subseteq Agreed
    <3> HIDE DEF Agreed
    <3> QED
      BY <2>1, <2>2, InductionOnSets
  <2> QED
    BY <2>3
<1>6. ASSUME NEW n \in Nat PROVE f[n + 1] = step[f[n]]
  <2>1. n \in 0..((n + 1) - 1)
    OBVIOUS
  <2>2. P(n + 1)[n + 1] = step[P(n + 1)[n]]
    BY <1>4, <2>1, n + 1 \in Nat
  <2> QED
    BY <1>5, <2>2
<1>7. f \in [Nat -> V] /\ f[0] = start
  BY <1>4
<1> HIDE DEF f
<1> QED
  BY <1>6, <1>7

-----------------------------------------------------------------------------
(* The backoff of the gate: what the loop of endpoint_retry_delay computes *)

\* The recursive definition of the powers of two has the value it names.
LEMMA PowersOfTwo ==
    /\ PowerOfTwo \in [Nat -> Nat \ {0}] /\ PowerOfTwo[0] = 1
    /\ \A n \in Nat : PowerOfTwo[n + 1] = 2 * PowerOfTwo[n]
<1> DEFINE V == Nat \ {0}
           one == 1
           step == [v \in V |-> 2 * v]
<1>1. PICK f \in [Nat -> V] : f[0] = one /\ \A n \in Nat : f[n + 1] = step[f[n]]
  <2>1. step \in [V -> V] /\ one \in V
    OBVIOUS
  <2> HIDE DEF V, step, one
  <2>2. \E f \in [Nat -> V] : f[0] = one /\ \A n \in Nat : f[n + 1] = step[f[n]]
    BY <2>1, Iteration
  <2> QED
    BY <2>2
<1> DEFINE Powers(g) == g = [n \in Nat |-> IF n = 0 THEN 1 ELSE 2 * g[n - 1]]
<1>2. \A n \in Nat \ {0} : f[n] = 2 * f[n - 1]
  <2> TAKE n \in Nat \ {0}
  <2>1. n - 1 \in Nat /\ (n - 1) + 1 = n
    OBVIOUS
  <2> QED
    BY <1>1, <2>1
<1>3. Powers(f)
  BY <1>1, <1>2
<1>4. Powers(PowerOfTwo)
  <2>1. PowerOfTwo = CHOOSE g : Powers(g)
    BY DEF PowerOfTwo
  <2> HIDE DEF Powers
  <2> QED
    BY <1>3, <2>1
<1>5. /\ PowerOfTwo[0] = 1
      /\ \A n \in Nat : PowerOfTwo[n + 1] = 2 * PowerOfTwo[n]
  BY <1>4
<1>6. PowerOfTwo \in [Nat -> V]
  <2> DEFINE Typed == {n \in Nat : PowerOfTwo[n] \in V}
  <2>1. 0 \in Typed
    BY <1>5
  <2>2. \A n \in Nat : n \in Typed => n + 1 \in Typed
    BY <1>5
  <2>3. Nat \subseteq Typed
    <3> HIDE DEF Typed
    <3> QED
      BY <2>1, <2>2, InductionOnSets
  <2> QED
    BY <1>4, <2>3
<1> QED
  BY <1>5, <1>6

\* f holds the loop's delay after each number of failures.
BackoffLoop(base, max, f) ==
    f = [n \in Nat |-> IF n <= 1 THEN Lesser(base, max)
                       ELSE IF f[n - 1] >= max - f[n - 1] THEN max
                       ELSE f[n - 1] + f[n - 1]]

\* The delay is the last one of a sequence that the loop allows.
LEMMA DelayOfLoop ==
    ASSUME NEW base \in Nat, NEW max \in Nat, NEW failures \in Nat
    PROVE  EndpointRetryDelay(failures, base, max) =
             IF Lesser(base, max) <= 0 THEN 0
             ELSE (CHOOSE f : BackoffLoop(base, max, f))[failures]
<1> DEFINE D == CHOOSE delay : BackoffLoop(base, max, delay)
<1>1. EndpointRetryDelay(failures, base, max) =
             IF Lesser(base, max) <= 0 THEN 0 ELSE D[failures]
  BY Zenon DEF EndpointRetryDelay, BackoffLoop
<1> QED
  BY <1>1

\* The delay after n + 1 failures in closed form.
LEMMA DelayInClosedForm ==
    ASSUME NEW base \in Nat, NEW max \in Nat
    PROVE  \A n \in Nat : EndpointRetryDelay(n + 1, base, max) =
                            Lesser(base * PowerOfTwo[n], max)
<1> DEFINE power(n) == IF n <= 1 THEN 1 ELSE PowerOfTwo[n - 1]
           closed == [n \in Nat |-> Lesser(base * power(n), max)]
<1>1. ASSUME NEW n \in Nat PROVE power(n) \in Nat \ {0}
  BY n <= 1 \/ n - 1 \in Nat, PowersOfTwo
<1>2. ASSUME NEW n \in Nat, ~ (n <= 1) PROVE power(n) = 2 * power(n - 1)
  <2>1. n - 1 \in Nat /\ n - 2 \in Nat /\ (n - 2) + 1 = n - 1
    BY <1>2
  <2>2. PowerOfTwo[n - 1] = 2 * PowerOfTwo[n - 2]
    BY <2>1, PowersOfTwo
  <2>3. CASE n - 1 <= 1
    BY <1>2, <2>1, <2>2, <2>3, PowersOfTwo
  <2>4. CASE ~ (n - 1 <= 1)
    BY <1>2, <2>1, <2>2, <2>4
  <2> QED
    BY <2>3, <2>4
<1> HIDE DEF power
<1>3. \A n \in Nat : n <= 1 => power(n) = 1
  BY DEF power
<1>4. BackoffLoop(base, max, closed)
  <2>1. ASSUME NEW n \in Nat, n <= 1
        PROVE  closed[n] = Lesser(base, max)
    <3>1. base * 1 = base
      OBVIOUS
    <3> QED
      BY <1>3, <2>1, <3>1
  <2>2. ASSUME NEW n \in Nat, ~ (n <= 1)
        PROVE  closed[n] = IF closed[n - 1] >= max - closed[n - 1] THEN max
                           ELSE closed[n - 1] + closed[n - 1]
    <3> DEFINE x == base * power(n - 1)
    <3>1. n - 1 \in Nat
      BY <2>2
    <3>2. power(n - 1) \in Nat /\ power(n) = 2 * power(n - 1)
      BY <1>1, <1>2, <2>2, <3>1
    <3>3. x \in Nat /\ base * power(n) = x + x
      <4>1. \A a, b \in Nat : a * b \in Nat /\ a * (2 * b) = (a * b) + (a * b)
        OBVIOUS
      <4> QED
        BY <3>2, <4>1
    <3> HIDE DEF x
    <3>4. closed[n] = Lesser(x + x, max) /\ closed[n - 1] = Lesser(x, max)
      BY <3>1, <3>3 DEF x
    <3> HIDE DEF closed
    <3> QED
      BY <3>3, <3>4 DEF Lesser
  <2> QED
    <3> HIDE DEF closed
    <3>1. closed = [n \in Nat |-> closed[n]]
      BY DEF closed
    <3> QED
      BY <2>1, <2>2, <3>1 DEF BackoffLoop
<1> DEFINE delay == CHOOSE f : BackoffLoop(base, max, f)
<1>5. BackoffLoop(base, max, delay)
  <2> HIDE DEF closed
  <2> QED
    BY <1>4
<1> HIDE DEF closed, delay
<1>6. \A n \in Nat : delay[n] = closed[n]
  <2> DEFINE Agreed == {n \in Nat : delay[n] = closed[n]}
  <2>1. 0 \in Agreed
    BY <1>4, <1>5 DEF BackoffLoop
  <2>2. ASSUME NEW n \in Nat, n \in Agreed PROVE n + 1 \in Agreed
    <3>1. (n + 1) - 1 = n /\ delay[n] = closed[n]
      BY <2>2
    <3> QED
      BY <1>4, <1>5, <3>1 DEF BackoffLoop
  <2>3. Nat \subseteq Agreed
    <3> HIDE DEF Agreed
    <3> QED
      BY <2>1, <2>2, InductionOnSets
  <2> QED
    BY <2>3
<1>7. ASSUME NEW n \in Nat
      PROVE  delay[n + 1] = Lesser(base * PowerOfTwo[n], max)
  <2>1. (n + 1) - 1 = n /\ (n + 1 <= 1 => n = 0)
    OBVIOUS
  <2>2. power(n + 1) = PowerOfTwo[n]
    BY <2>1, PowersOfTwo DEF power
  <2> QED
    BY <1>6, <2>2 DEF closed
<1>8. ASSUME NEW n \in Nat
      PROVE  Lesser(base * PowerOfTwo[n], max) =
               IF Lesser(base, max) <= 0 THEN 0 ELSE Lesser(base * PowerOfTwo[n], max)
  <2> DEFINE y == base * PowerOfTwo[n]
  <2>1. PowerOfTwo[n] \in Nat \ {0}
    BY PowersOfTwo
  <2>2. y \in Nat /\ (base = 0 => y = 0)
    BY <2>1
  <2> HIDE DEF y
  <2>3. Lesser(y, max) = IF Lesser(base, max) <= 0 THEN 0 ELSE Lesser(y, max)
    BY <2>2 DEF Lesser
  <2> QED
    BY <2>3 DEF y
<1>9. ASSUME NEW n \in Nat
      PROVE  EndpointRetryDelay(n + 1, base, max) =
               IF Lesser(base, max) <= 0 THEN 0 ELSE delay[n + 1]
  <2> DEFINE m == n + 1
  <2>1. m \in Nat
    OBVIOUS
  <2> HIDE DEF m
  <2>2. EndpointRetryDelay(m, base, max) =
               IF Lesser(base, max) <= 0 THEN 0 ELSE delay[m]
    BY <2>1, DelayOfLoop DEF delay
  <2> QED
    BY <2>2 DEF m
<1> QED
  BY <1>7, <1>8, <1>9

\* The delay never exceeds the maximum.
LEMMA RetryDelayBounded ==
    ASSUME NEW base \in Nat, NEW max \in Nat, NEW failures \in Nat \ {0}
    PROVE  EndpointRetryDelay(failures, base, max) \in 0..max
<1> DEFINE y == base * PowerOfTwo[failures - 1]
<1>1. failures - 1 \in Nat /\ (failures - 1) + 1 = failures
  OBVIOUS
<1>2. EndpointRetryDelay(failures, base, max) = Lesser(y, max)
  BY <1>1, DelayInClosedForm
<1>3. y \in Nat
  BY <1>1, PowersOfTwo
<1> HIDE DEF y
<1> QED
  BY <1>2, <1>3 DEF Lesser

\* For every base, every maximum and every number of failures: the loop of
\* endpoint_retry_delay, which saturates before it would exceed the maximum, computes
\* the doubling sequence cut off at the maximum.
THEOREM RetryDelayDoublesUpToMaximum ==
    \A base, max, n \in Nat :
        EndpointRetryDelay(n + 1, base, max) = Lesser(base * PowerOfTwo[n], max)
BY DelayInClosedForm

-----------------------------------------------------------------------------
(* The gate: the inductive invariant of EndpointGate *)

\* No two calls remember the same token, and a row that cools down is leased to
\* nobody: the holder gave the lease up as it set the cooldown.
TokensDiffer ==
    \A b, c \in Caller : b # c /\ caller[b].token = caller[c].token
                         => caller[b].token = NoToken

CoolingUnleased == gate.cooldown > 0 => gate.token = NoToken

GateInv == GateTypeOK /\ TokensDiffer /\ CoolingUnleased

-----------------------------------------------------------------------------

LEMMA DoneType == Done \in CallerState /\ Done.token = NoToken
BY DEF Done, CallerState, NoDelay

LEMMA UnleasedType ==
    ASSUME gate \in GateRow
    PROVE  /\ Unleased \in GateRow
           /\ Unleased.token = NoToken /\ Unleased.cooldown = gate.cooldown
BY DEF Unleased, GateRow

LEMMA CountDownType ==
    ASSUME NEW timer \in Nat
    PROVE  CountDown(timer) \in Nat /\ CountDown(timer) <= timer
           /\ CountDown(timer) >= timer - 1
BY DEF CountDown

\* A call that keeps its token or drops it shares none.
LEMMA CallerKeepsTokens ==
    ASSUME GateTypeOK, TokensDiffer, NEW c \in Caller, NEW local \in CallerState,
           local.token \in {caller[c].token, NoToken},
           caller' = [caller EXCEPT ![c] = local]
    PROVE  caller' \in [Caller -> CallerState] /\ TokensDiffer'
<1>1. /\ caller' \in [Caller -> CallerState] /\ caller'[c] = local
      /\ \A b \in Caller \ {c} : caller'[b] = caller[b]
  BY DEF GateTypeOK
<1> QED
  BY <1>1 DEF TokensDiffer

\* Acquiring takes a token nobody has, and only when nothing cools down.
LEMMA AcquireKeepsGateInv ==
    ASSUME GateInv, NEW c \in Caller, Acquire(c)
    PROVE  GateInv'
<1> USE DEF GateInv
<1>1. PICK k \in Token :
        /\ Unused(k)
        /\ gate' = [gate EXCEPT !.lease = Lease, !.token = k]
        /\ caller' = [caller EXCEPT ![c].pc = "requesting", ![c].token = k]
  BY DEF Acquire
<1> DEFINE local == [caller[c] EXCEPT !.pc = "requesting", !.token = k]
<1>2. gate' \in GateRow /\ gate'.cooldown = 0
  BY <1>1, GateAssumption DEF GateTypeOK, GateRow, Acquire, Free
<1>3. local \in CallerState /\ local.token = k
  BY DEF GateTypeOK, CallerState
<1>4. caller' = [caller EXCEPT ![c] = local]
  BY <1>1
<1>5. /\ caller' \in [Caller -> CallerState] /\ caller'[c].token = k
      /\ \A b \in Caller \ {c} : caller'[b] = caller[b]
  <2> HIDE DEF local
  <2> QED
    BY <1>3, <1>4 DEF GateTypeOK
<1>6. TokensDiffer'
  BY <1>1, <1>5 DEF TokensDiffer, Unused
<1> QED
  BY <1>2, <1>5, <1>6 DEF Acquire, GateTypeOK, CoolingUnleased

\* The steps that leave the row alone.
LEMMA LocalStepKeepsGateInv ==
    ASSUME GateInv, NEW c \in Caller,
           Call(c) \/ Refuse(c) \/ ReadState(c) \/ Answer(c) \/ Crash(c)
    PROVE  GateInv'
<1> USE DEF GateInv
<1>1. caller[c] \in CallerState
  BY DEF GateTypeOK
<1>2. PICK local \in CallerState :
        /\ local.token \in {caller[c].token, NoToken}
        /\ caller' = [caller EXCEPT ![c] = local]
  <2>1. ASSUME NEW pc \in {"trying", "refused"}, caller' = [caller EXCEPT ![c].pc = pc]
        PROVE  \E local \in CallerState :
                  /\ local.token \in {caller[c].token, NoToken}
                  /\ caller' = [caller EXCEPT ![c] = local]
    <3> DEFINE local == [caller[c] EXCEPT !.pc = pc]
    <3>1. local \in CallerState /\ local.token = caller[c].token
      BY <1>1 DEF CallerState
    <3>2. caller' = [caller EXCEPT ![c] = local]
      BY <2>1
    <3> QED
      BY <3>1, <3>2
  <2>2. CASE ReadState(c)
    <3>1. /\ [Done EXCEPT !.pc = "trying"] \in CallerState
          /\ [Done EXCEPT !.pc = "trying"].token = NoToken
      BY DoneType DEF CallerState
    <3> QED
      BY <2>2, <3>1, DoneType DEF ReadState
  <2>3. CASE Answer(c)
    <3>1. PICK answer \in {"ok", "limited", "error"},
               after \in {NoDelay} \cup 0..MaxRetryAfter :
            caller' = [caller EXCEPT ![c].pc = "answered", ![c].answer = answer,
                                     ![c].retryAfter = after]
      BY <2>3 DEF Answer
    <3> DEFINE local == [caller[c] EXCEPT !.pc = "answered", !.answer = answer,
                                          !.retryAfter = after]
    <3>2. after \in Nat \cup {NoDelay}
      BY GateAssumption
    <3>3. local \in CallerState /\ local.token = caller[c].token
      BY <1>1, <3>2 DEF CallerState
    <3>4. caller' = [caller EXCEPT ![c] = local]
      BY <3>1
    <3> QED
      BY <3>3, <3>4
  <2>4. CASE Crash(c)
    BY <2>4, DoneType DEF Crash
  <2> QED
    BY <2>1, <2>2, <2>3, <2>4 DEF Call, Refuse
<1>3. caller' \in [Caller -> CallerState] /\ TokensDiffer'
  BY <1>2, CallerKeepsTokens
<1>4. gate' = gate /\ crashes' \in {crashes, crashes + 1} /\ UNCHANGED stalled
  BY DEF Call, Refuse, ReadState, Answer, Crash
<1>5. crashes' \in Nat /\ stalled' \in BOOLEAN
  BY <1>4 DEF GateTypeOK
<1> QED
  BY <1>3, <1>4, <1>5 DEF GateTypeOK, CoolingUnleased

\* The end of a call: nothing is written, or the lease is given up.
LEMMA EndKeepsGateInv ==
    ASSUME GateInv, NEW c \in Caller, Abort(c) \/ ReleaseGate(c) \/ Block(c)
    PROVE  GateInv'
<1> USE DEF GateInv
<1>1. caller' = [caller EXCEPT ![c] = Done] /\ UNCHANGED <<crashes, stalled>>
  BY DEF Abort, ReleaseGate, Block
<1>2. caller' \in [Caller -> CallerState] /\ TokensDiffer'
  BY <1>1, DoneType, CallerKeepsTokens
<1>3. gate' = gate \/ (gate' \in GateRow /\ gate'.token = NoToken)
  <2>1. Unleased \in GateRow /\ Unleased.token = NoToken
    BY UnleasedType DEF GateTypeOK
  <2>2. CASE Abort(c)
    BY <2>1, <2>2 DEF Abort
  <2>3. CASE ReleaseGate(c)
    <3>1. /\ [Unleased EXCEPT !.cooldown = 0, !.failures = 0] \in GateRow
          /\ [Unleased EXCEPT !.cooldown = 0, !.failures = 0].token = NoToken
      <4>1. 0 \in 0..MaxFailures
        BY GateAssumption
      <4> QED
        BY <2>1, <4>1 DEF GateRow
    <3> QED
      BY <2>1, <2>3, <3>1 DEF ReleaseGate
  <2>4. CASE Block(c)
    <3> DEFINE failures == Lesser(gate.failures + 1, MaxFailures)
               cooldown == IF caller[c].retryAfter # NoDelay
                           THEN caller[c].retryAfter
                           ELSE EndpointRetryDelay(failures, RetryBase, RetryMax)
    <3>1. failures \in 0..MaxFailures /\ failures # 0
      BY GateAssumption DEF Lesser, GateTypeOK, GateRow
    <3>2. EndpointRetryDelay(failures, RetryBase, RetryMax) \in Nat
      <4> HIDE DEF failures
      <4> QED
        BY <3>1, RetryDelayBounded, GateAssumption
    <3>3. cooldown \in Nat
      BY <3>2 DEF GateTypeOK, CallerState
    <3>4. gate' = gate
          \/ gate' = [Unleased EXCEPT !.failures = failures, !.cooldown = cooldown]
      BY <2>4 DEF Block, Blocked
    <3> HIDE DEF failures, cooldown
    <3> QED
      BY <2>1, <3>1, <3>3, <3>4 DEF GateRow
  <2> QED
    BY <2>2, <2>3, <2>4
<1> QED
  BY <1>1, <1>2, <1>3 DEF GateTypeOK, CoolingUnleased

LEMMA RenewKeepsGateInv ==
    ASSUME GateInv, NEW c \in Caller, Renew(c)
    PROVE  GateInv'
BY GateAssumption DEF GateInv, Renew, GateTypeOK, GateRow, TokensDiffer, CoolingUnleased

LEMMA TickKeepsGateInv ==
    ASSUME GateInv, GateTick
    PROVE  GateInv'
<1> USE DEF GateInv
<1>1. /\ CountDown(gate.cooldown) \in Nat /\ CountDown(gate.lease) \in Nat
      /\ CountDown(gate.cooldown) <= gate.cooldown
  BY CountDownType DEF GateTypeOK, GateRow
<1>2. gate' = [gate EXCEPT !.cooldown = CountDown(gate.cooldown),
                           !.lease = CountDown(gate.lease)]
  BY DEF GateTick
<1>3. /\ gate' \in GateRow /\ gate'.token = gate.token
      /\ gate'.cooldown <= gate.cooldown
  BY <1>1, <1>2 DEF GateTypeOK, GateRow
<1>4. ASSUME NEW c \in Caller
      PROVE  /\ caller'[c] \in CallerState /\ caller'[c].token = caller[c].token
  <2>1. caller[c] \in CallerState
    BY DEF GateTypeOK
  <2>2. CountDown(caller[c].retryAfter) \in Nat \cup {NoDelay}
    BY <2>1 DEF CountDown, CallerState, NoDelay
  <2>3. caller'[c] = [caller[c] EXCEPT !.retryAfter = CountDown(caller[c].retryAfter)]
    BY DEF GateTick
  <2> QED
    BY <2>1, <2>2, <2>3 DEF CallerState
<1>5. caller' \in [Caller -> CallerState]
  BY <1>4 DEF GateTick
<1>6. TokensDiffer'
  BY <1>4 DEF TokensDiffer
<1>7. CoolingUnleased'
  BY <1>3 DEF CoolingUnleased, GateTypeOK, GateRow
<1>8. stalled' \in BOOLEAN
  BY DEF GateTick
<1> QED
  BY <1>3, <1>5, <1>6, <1>7, <1>8 DEF GateTick, GateTypeOK

-----------------------------------------------------------------------------

LEMMA GateNextKeepsInv == GateInv /\ [GateNext]_gateVars => GateInv'
<1>1. CASE UNCHANGED gateVars
  BY <1>1 DEF gateVars, GateInv, GateTypeOK, TokensDiffer, CoolingUnleased
<1> QED
  BY <1>1, AcquireKeepsGateInv, LocalStepKeepsGateInv, EndKeepsGateInv, RenewKeepsGateInv,
     TickKeepsGateInv DEF GateNext, Proceed

\* The row is well formed, no token is in two hands and a cooling endpoint is
\* leased to nobody.
THEOREM GateSafety == GateSpec => []GateInv
<1>1. ASSUME GateInit
      PROVE  GateInv
  <2>1. gate \in GateRow /\ gate.token = NoToken
    BY <1>1, GateAssumption DEF GateInit, GateRow
  <2>2. \A c \in Caller : caller[c].token = NoToken
    BY <1>1, DoneType DEF GateInit
  <2>3. caller \in [Caller -> CallerState] /\ crashes \in Nat /\ stalled \in BOOLEAN
    BY <1>1, DoneType DEF GateInit
  <2> QED
    BY <2>1, <2>2, <2>3 DEF GateInv, GateTypeOK, TokensDiffer, CoolingUnleased
<1> QED
  BY <1>1, GateNextKeepsInv, PTL DEF GateSpec

\* The delay the next limited answer writes to the row is the doubling sequence cut
\* off at the maximum (endpoint_retry_delay), whatever is configured.
THEOREM RetryDelayIsCappedHolds == GateSpec => []RetryDelayIsCapped
<1>1. GateInv => RetryDelayIsCapped
  <2> SUFFICES ASSUME gate.failures \in Nat
               PROVE  RetryDelayIsCapped
    BY DEF GateInv, GateTypeOK, GateRow
  <2>1. 0..3 \subseteq Nat /\ 0..9 \subseteq Nat
    OBVIOUS
  <2> QED
    BY <2>1, RetryDelayDoublesUpToMaximum DEF RetryDelayIsCapped
<1> QED
  BY <1>1, GateSafety, PTL

\* A cooldown is never cut short: nobody holds the lease while it lasts, so no
\* write back is admitted, and time takes one unit at a time.
THEOREM CooldownRunsOutHolds == GateSpec => CooldownRunsOut
<1>1. ASSUME GateInv, [GateNext]_gateVars, gate.cooldown > 0
      PROVE  gate'.cooldown >= gate.cooldown - 1
  <2>1. gate.token = NoToken /\ gate.cooldown \in Nat
    BY <1>1 DEF GateInv, CoolingUnleased, GateTypeOK, GateRow
  <2>2. CASE GateTick
    <3>1. gate'.cooldown = CountDown(gate.cooldown)
      BY <1>1, <2>2 DEF GateTick, GateInv, GateTypeOK, GateRow
    <3> QED
      BY <2>1, <3>1, CountDownType
  <2>3. ASSUME NEW c \in Caller,
               \/ Call(c) \/ Proceed(c) \/ Renew(c) \/ Answer(c) \/ Abort(c) \/ Crash(c)
        PROVE  gate' = gate
    <3>1. ~Holds(c) /\ ~Free
      BY <1>1, <2>1 DEF Holds, Free
    <3>2. CASE \/ Call(c) \/ Refuse(c) \/ ReadState(c) \/ Answer(c) \/ Crash(c)
               \/ Acquire(c) \/ Renew(c)
      BY <3>1, <3>2 DEF Call, Refuse, ReadState, Answer, Crash, Acquire, Renew
    <3>3. CASE Abort(c) \/ ReleaseGate(c) \/ Block(c)
      BY <3>1, <3>3 DEF Abort, ReleaseGate, Block
    <3> QED
      BY <2>3, <3>2, <3>3 DEF Proceed
  <2> QED
    BY <1>1, <2>1, <2>2, <2>3 DEF GateNext, gateVars
<1>2. GateInv /\ [GateNext]_gateVars => [gate.cooldown > 0 => gate'.cooldown >= gate.cooldown - 1]_gateVars
  BY <1>1
<1> QED
  BY <1>2, GateSafety, PTL DEF GateSpec, CooldownRunsOut

-----------------------------------------------------------------------------
(* Timely renewal *)

\* A caller with a request out, or its answer in hand, has a live lease.
Busy(c) == caller[c].pc \in {"requesting", "answered"}

TInv == ~stalled => \A c \in Caller : Busy(c) => Holds(c) /\ gate.lease > 0

\* With timely renewal a lease never runs out under its holder: to acquire needs
\* a lease that has run out, so nobody is busy then.
LEMMA NextKeepsTInv ==
    ASSUME GateInv, TInv, [GateNext]_gateVars
    PROVE  TInv'
<1> SUFFICES ASSUME ~stalled, ~stalled'
             PROVE  TInv'
  <2>1. stalled => stalled'
    BY DEF GateNext, gateVars, Call, Proceed, Acquire, Refuse, ReadState, ReleaseGate, Block, Renew,
           Answer, Abort, Crash, GateTick
  <2> QED
    BY <2>1 DEF TInv
<1> USE DEF GateInv
<1>1. GateTypeOK /\ gate \in GateRow
  BY DEF GateTypeOK
<1>3. ASSUME NEW b \in Caller, NEW c \in Caller, b # c, Busy(b)
      PROVE  ~Busy(c)
  BY <1>3 DEF TInv, Holds, TokensDiffer
<1>4. ASSUME NEW c \in Caller, Acquire(c)
      PROVE  TInv'
  <2>1. \A b \in Caller : ~Busy(b)
    BY <1>4 DEF TInv, Acquire, Free
  <2>2. PICK k \in Token :
          /\ gate' = [gate EXCEPT !.lease = Lease, !.token = k]
          /\ caller' = [caller EXCEPT ![c].pc = "requesting", ![c].token = k]
    BY <1>4 DEF Acquire
  <2>3. /\ gate'.lease = Lease /\ gate'.token = k /\ k # NoToken /\ Lease > 0
        /\ caller'[c].token = k /\ \A b \in Caller \ {c} : caller'[b] = caller[b]
    BY <1>1, <2>2, GateAssumption DEF GateTypeOK, GateRow, CallerState
  <2> QED
    BY <2>1, <2>3 DEF TInv, Busy, Holds
<1>5. ASSUME NEW c \in Caller,
             \/ Call(c) \/ Refuse(c) \/ ReadState(c) \/ Answer(c) \/ Crash(c)
      PROVE  TInv'
  <2>1. gate' = gate /\ \A b \in Caller \ {c} : caller'[b] = caller[b]
    BY <1>1, <1>5 DEF Call, Refuse, ReadState, Answer, Crash, GateTypeOK
  <2>2. Busy(c)' => Busy(c) /\ caller'[c].token = caller[c].token
    BY <1>1, <1>5 DEF Call, Refuse, ReadState, Answer, Crash, GateTypeOK, CallerState,
                      Busy, InFlight, Done
  <2> QED
    BY <2>1, <2>2 DEF TInv, Busy, Holds
<1>6. ASSUME NEW c \in Caller, Abort(c) \/ ReleaseGate(c) \/ Block(c)
      PROVE  TInv'
  <2>1. Busy(c) /\ caller' = [caller EXCEPT ![c] = Done]
    BY <1>6 DEF Abort, ReleaseGate, Block, Busy, InFlight
  <2>2. caller'[c].pc = "done" /\ \A b \in Caller \ {c} : caller'[b] = caller[b]
    BY <1>1, <2>1 DEF GateTypeOK, Done
  <2>3. \A b \in Caller \ {c} : ~Busy(b)
    BY <1>3, <2>1
  <2>4. \A b \in Caller : ~Busy(b)'
    BY <2>2, <2>3 DEF Busy
  <2> QED
    BY <2>4 DEF TInv
<1>7. ASSUME NEW c \in Caller, Renew(c)
      PROVE  TInv'
  <2>1. /\ caller' = caller /\ gate'.token = gate.token /\ gate'.lease = Lease
        /\ Lease > 0
    BY <1>1, <1>7, GateAssumption DEF Renew, GateRow
  <2> QED
    BY <2>1 DEF TInv, Busy, Holds
<1>8. CASE GateTick
  <2>1. gate'.token = gate.token /\ gate'.lease = CountDown(gate.lease)
    BY <1>1, <1>8 DEF GateTick, GateRow
  <2>2. ASSUME NEW c \in Caller, Busy(c)'
        PROVE  Holds(c)' /\ gate'.lease > 0
    <3>1. Busy(c) /\ caller'[c].token = caller[c].token
      BY <1>1, <1>8, <2>2 DEF GateTick, Busy, GateTypeOK, CallerState
    <3>2. Holds(c) /\ gate.lease \in Nat
      BY <1>1, <3>1 DEF TInv, GateRow
    <3>3. gate.lease > 1
      <4>1. ~(Busy(c) /\ Holds(c) /\ gate.lease <= 1)
        BY <1>8, Zenon DEF GateTick, Busy
      <4> QED
        BY <3>1, <3>2, <4>1
    <3> QED
      BY <2>1, <3>1, <3>2, <3>3 DEF Holds, CountDown
  <2> QED
    BY <2>2 DEF TInv
<1>9. CASE UNCHANGED gateVars
  BY <1>9 DEF gateVars, TInv, Busy, Holds
<1> QED
  BY <1>4, <1>5, <1>6, <1>7, <1>8, <1>9 DEF GateNext, Proceed

\* With timely renewal requests to an endpoint never overlap, and none is out
\* while it cools down, whatever crashed or cancelled callers left in the row.
THEOREM TimelyRequestsHolds == GateSpec => []TimelyRequests
<1>1. GateInit => TInv
  BY DEF GateInit, TInv, Busy, Done
<1>2. GateInv /\ TInv /\ [GateNext]_gateVars => TInv'
  BY NextKeepsTInv
<1>3. GateInv /\ TInv => TimelyRequests
  BY DEF GateInv, TInv, TokensDiffer, CoolingUnleased, TimelyRequests, InFlight, Busy, Holds
<1> QED
  BY <1>1, <1>2, <1>3, GateSafety, PTL DEF GateSpec
=============================================================================
