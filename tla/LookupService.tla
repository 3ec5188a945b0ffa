---------------------------- MODULE LookupService ----------------------------
(***************************************************************************)
(* DomainLookup and DomainLookupService: lookups of one domain by several    *)
(* processes over a shared LookupStore.  A lookup reads the responses cached *)
(* for every protocol, finds the registry's endpoint (from the cache, or by   *)
(* asking IANA under a lock of its process), queries the protocols in order, *)
(* saves what it parsed, and lets the registrar's RDAP document complete the *)
(* registry's.                                                              *)
(*                                                                         *)
(* Responses are told apart by when they were observed, until when they are *)
(* fresh, and what follows from them.  The request gate every query passes   *)
(* is EndpointGate; here it is one more reason to be limited.  Only parsed   *)
(* registry and WHOIS responses are saved, so a cached one parses again, and *)
(* mark_unusable (called for a response that was never saved) finds no row.  *)
(***************************************************************************)
EXTENDS LookupReplies

CONSTANTS
    Process,      \* processes with a DomainLookupService each
    Lookup,       \* lookups in progress at the same time
    None,
    CacheTTL,     \* cache_ttl of both clients
    NotFoundTTL,  \* not_found_cache_ttl
    EndpointTTL,  \* cache_ttl of the IANA client
    Referral,     \* what IANA's WHOIS may answer: "server", "none"
    Bootstrap,    \* what the RDAP bootstrap file may: "urls", "none"
    Horizon       \* bound on the clock

ASSUME LookupAssumption ==
    /\ Horizon \in Nat
    /\ Referral \subseteq {"server", "none"} /\ Bootstrap \subseteq {"urls", "none"}
    /\ CacheTTL \in Nat \ {0} /\ NotFoundTTL \in Nat \ {0}
    /\ EndpointTTL \in Nat \ {0}
    /\ None \notin Lookup \cup Process

VARIABLES
    clock,
    cache,      \* the current response of the domain, per protocol and role
    endpoint,   \* the current registry endpoint of its suffix
    lock,       \* each process's asyncio.Lock of that suffix: its holder
    lookup,     \* local state of each lookup
    discovered  \* history: observed_at of the endpoint a process saved last

vars == <<clock, cache, endpoint, lock, lookup, discovered>>

Protocol == {"rdap", "whois"}
Role == {"rdap", "whois", "registrar"}  \* "rdap" is the registry's
Time == 0..Horizon

Response == [observed : Time, fresh : Nat,
             kind : {"released", "registered", "unparsable"}]
Endpoint == [observed : Time, fresh : Nat, offers : SUBSET Protocol]

ASSUME NoneIsNoRecord == None \notin Response \cup Endpoint

\* since: history, when the discovery began.  blind: history, a read of the endpoint failed.
Local ==
    [pc : {"idle", "answered", "cache", "endpoint", "waiting", "recheck", "discovering",
           "save_endpoint", "query", "save", "registrar", "query_registrar",
           "save_registrar"},
     process : Process \cup {None}, force : BOOLEAN, refresh : BOOLEAN,
     began : Time, protocol : Protocol,
     since : Time, blind : BOOLEAN, found : Endpoint \cup {None},
     offers : SUBSET Protocol, response : Response \cup {None},
     registrar : Response \cup {None}]

Idle == [pc |-> "idle", process |-> None, force |-> FALSE, refresh |-> FALSE,
         began |-> 0, protocol |-> "rdap",
         since |-> 0, blind |-> FALSE, found |-> None, offers |-> {},
         response |-> None, registrar |-> None]

-----------------------------------------------------------------------------
(* The store *)

\* get_fresh: a missing row, and one whose time has come, are misses.
Fresh(record) == record # None /\ record.fresh > clock

\* Mutant: the head follows the last writer.
Publish_LastWriter(head, record) == {record}

\* publish: the heads that may result.  Only a later observation replaces the
\* head; of two at the same time the one with the greater random id stays.
Publish(head, record) ==
    IF head = None \/ record.observed > head.observed THEN {record}
    ELSE IF record.observed = head.observed THEN {record, head}
    ELSE {head}

Observed(record) == IF record = None THEN -1 ELSE record.observed

-----------------------------------------------------------------------------
(* Helpers *)

At(l, pc) == lookup[l].pc = pc
Running(l) == ~At(l, "idle") /\ ~At(l, "answered")
Home(l) == lookup[l].process
Become(l, local) == lookup' = [lookup EXCEPT ![l] = local]
Release(l) == lock' = [p \in Process |-> IF lock[p] = l THEN None ELSE lock[p]]

\* The endpoint a lookup goes on with.
Served(local, found) ==
    [local EXCEPT !.pc = "query", !.process = None, !.refresh = FALSE,
                  !.found = None, !.offers = found.offers]

\* _finalize_lookup: only a registered domain's RDAP document leads to the
\* registrar; everything else is the answer.
Finalized(local, response) ==
    [local EXCEPT
       !.response = response, !.process = None, !.refresh = FALSE, !.offers = {},
       !.pc = IF local.protocol = "rdap" /\ response.kind = "registered"
              THEN "registrar" ELSE "answered"]

\* The protocol after a failure: WHOIS after RDAP; after WHOIS the lookup fails.
NextProtocol(local) ==
    IF local.protocol = "rdap" THEN [local EXCEPT !.protocol = "whois"] ELSE Idle

\* The registrar's document, when it parses as this domain's.
Completed(local, registrar) ==
    [local EXCEPT !.pc = "answered", !.registrar =
       IF registrar # None /\ registrar.kind # "unparsable" THEN registrar ELSE None]

-----------------------------------------------------------------------------
(* A lookup *)

\* Mutant: force_refresh is not passed on.
FirstStep_Cached(force) == "cache"

FirstStep(force) == IF force THEN "endpoint" ELSE "cache"

\* A name of a batch has passed the batch's semaphore.
Start(l, p, force, refresh) ==
    /\ ~Running(l)
    /\ Become(l, [Idle EXCEPT
         !.pc = FirstStep(force), !.process = p, !.force = force,
         !.refresh = refresh, !.began = clock])
    /\ UNCHANGED <<clock, cache, endpoint, lock, discovered>>

\* get_fresh for one protocol after the other, before any request.  A store that
\* fails is a miss.
ReadCache(l) ==
    LET local == lookup[l]
    IN  /\ At(l, "cache")
        /\ \/ /\ Fresh(cache[local.protocol])
              /\ Become(l, Finalized(local, cache[local.protocol]))
           \/ Become(l, IF local.protocol = "rdap"
                        THEN [local EXCEPT !.protocol = "whois"]
                        ELSE [local EXCEPT !.protocol = "rdap", !.pc = "endpoint"])
        /\ UNCHANGED <<clock, cache, endpoint, lock, discovered>>

\* _get_endpoint before the lock; the second disjunct is a store that fails.
ReadEndpoint(l) ==
    LET local == lookup[l]
        fresh == ~local.refresh /\ Fresh(endpoint)
    IN  /\ At(l, "endpoint")
        /\ \/ Become(l, IF fresh THEN Served(local, endpoint)
                        ELSE [local EXCEPT !.pc = "waiting"])
           \/ /\ ~local.refresh
              /\ Become(l, [local EXCEPT !.pc = "waiting"])
        /\ UNCHANGED <<clock, cache, endpoint, lock, discovered>>

\* Acquiring the process's lock.
TakeLock(l) ==
    /\ At(l, "waiting") /\ lock[Home(l)] = None
    /\ lock' = [lock EXCEPT ![Home(l)] = l]
    /\ Become(l, [lookup[l] EXCEPT !.pc = "recheck"])
    /\ UNCHANGED <<clock, cache, endpoint, discovered>>

\* Mutant: the cache is not read again under the lock.
FreshUnderLock_Unread(local) == FALSE

FreshUnderLock(local) == ~local.refresh /\ Fresh(endpoint)

\* _get_endpoint under the lock: read again, or ask IANA.
Recheck(l) ==
    LET local == lookup[l]
        discover == [local EXCEPT !.pc = "discovering", !.since = clock]
    IN  /\ At(l, "recheck")
        /\ \/ /\ FreshUnderLock(local)
              /\ Become(l, Served(local, endpoint))
              /\ Release(l)
           \/ /\ ~FreshUnderLock(local)
              /\ Become(l, discover)
              /\ UNCHANGED lock
           \/ /\ ~local.refresh
              /\ Become(l, [discover EXCEPT !.blind = TRUE])
              /\ UNCHANGED lock
        /\ UNCHANGED <<clock, cache, endpoint, discovered>>

\* IanaClient.discover: what either source found.
Discover(l, referral, bootstrap) ==
    /\ At(l, "discovering") /\ Discovered(referral, bootstrap) # {}
    /\ Become(l, [lookup[l] EXCEPT !.pc = "save_endpoint", !.since = 0, !.blind = FALSE,
         !.found = [observed |-> clock, fresh |-> clock + EndpointTTL,
                    offers |-> Discovered(referral, bootstrap)]])
    /\ UNCHANGED <<clock, cache, endpoint, lock, discovered>>

\* Mutant: the lock is released only after a discovery that succeeded.
FailDiscovery_KeepsLock(l) ==
    /\ Become(l, Idle)
    /\ UNCHANGED lock

\* The failure ends the lookup; the lock is released on the way out.
FailDiscovery(l) ==
    /\ Become(l, Idle)
    /\ Release(l)

DiscoverFails(l) ==
    /\ At(l, "discovering")
    /\ FailDiscovery(l)
    /\ UNCHANGED <<clock, cache, endpoint, discovered>>

\* The endpoint is saved before the lock is released.  A store that fails here
\* raises an error that lookup() does not turn into an outcome.
SaveEndpoint(l) ==
    LET local == lookup[l]
    IN  /\ At(l, "save_endpoint")
        /\ Release(l)
        /\ \/ /\ endpoint' \in Publish(endpoint, local.found)
              /\ discovered' = [discovered EXCEPT ![Home(l)] = local.found.observed]
              /\ Become(l, Served(local, local.found))
           \/ /\ Become(l, Idle)
              /\ UNCHANGED <<endpoint, discovered>>
        /\ UNCHANGED <<clock, cache>>

\* What the queries may come to, when they do not fail.
Answers(protocol) ==
    (IF protocol = "rdap" THEN {RegistryKind(reply) : reply \in FetchedReply}
     ELSE WhoisKinds) \ {"unparsable"}

\* The registry's answer, parsed before it is saved.  RDAP 404 objects are cached
\* for a shorter time.
Query(l) ==
    LET local == lookup[l]
        ttl(kind) == IF kind = "released" THEN NotFoundTTL ELSE CacheTTL
    IN  /\ At(l, "query") /\ local.protocol \in local.offers
        /\ \E kind \in Answers(local.protocol) :
             Become(l, [local EXCEPT !.pc = "save", !.response =
               [observed |-> clock, fresh |-> clock + ttl(kind), kind |-> kind]])
        /\ UNCHANGED <<clock, cache, endpoint, lock, discovered>>

\* The protocol is not offered, or the query failed, was limited or did
\* not parse.  _classify_error names the last failure to the caller.
QueryFails(l) ==
    LET local == lookup[l]
    IN  /\ At(l, "query")
        /\ Become(l, NextProtocol(local))
        /\ UNCHANGED <<clock, cache, endpoint, lock, discovered>>

\* A failure to save the response is suppressed.
SaveResponse(l) ==
    LET local == lookup[l]
        k == local.protocol
    IN  /\ At(l, "save")
        /\ \/ \E head \in Publish(cache[k], local.response) :
                cache' = [cache EXCEPT ![k] = head]
           \/ UNCHANGED cache
        /\ Become(l, Finalized(local, local.response))
        /\ UNCHANGED <<clock, endpoint, lock, discovered>>

\* _enrich_rdap: without a link to the registrar's document the registry's is the
\* answer; a fresh document of the registrar is used, by forced lookups too.
ReadRegistrar(l) ==
    LET local == lookup[l]
    IN  /\ At(l, "registrar")
        /\ \/ Become(l, Completed(local, None))
           \/ /\ Fresh(cache["registrar"])
              /\ Become(l, Completed(local, cache["registrar"]))
           \/ Become(l, [local EXCEPT !.pc = "query_registrar"])
        /\ UNCHANGED <<clock, cache, endpoint, lock, discovered>>

\* query_related; without a document the registry's is the answer.  The
\* registrar's is saved before it is parsed, its errors included.
QueryRegistrar(l) ==
    LET local == lookup[l]
    IN  /\ At(l, "query_registrar")
        /\ \/ \E kind \in {RegistrarKind(reply) : reply \in FetchedReply} :
                Become(l, [local EXCEPT !.pc = "save_registrar", !.registrar =
                  [observed |-> clock, fresh |-> clock + CacheTTL, kind |-> kind]])
           \/ Become(l, Completed(local, None))
        /\ UNCHANGED <<clock, cache, endpoint, lock, discovered>>

\* A store that fails here raises, although the registry has answered.
SaveRegistrar(l) ==
    LET local == lookup[l]
    IN  /\ At(l, "save_registrar")
        /\ \/ /\ \E head \in Publish(cache["registrar"], local.registrar) :
                   cache' = [cache EXCEPT !["registrar"] = head]
              /\ Become(l, Completed(local, local.registrar))
           \/ /\ Become(l, Idle)
              /\ UNCHANGED cache
        /\ UNCHANGED <<clock, endpoint, lock, discovered>>

\* The caller gives up (a task that lost its lease cancels its lookup).
Cancel(l) ==
    /\ Running(l)
    /\ Become(l, Idle)
    /\ Release(l)
    /\ UNCHANGED <<clock, cache, endpoint, discovered>>

Tick ==
    /\ clock < Horizon
    /\ clock' = clock + 1
    /\ UNCHANGED <<cache, endpoint, lock, lookup, discovered>>

-----------------------------------------------------------------------------
Init ==
    /\ clock = 0
    /\ cache = [k \in Role |-> None]
    /\ endpoint = None
    /\ lock = [p \in Process |-> None]
    /\ lookup = [l \in Lookup |-> Idle]
    /\ discovered = [p \in Process |-> -1]

Next ==
    \/ \E l \in Lookup :
         \/ \E p \in Process, force, refresh \in BOOLEAN : Start(l, p, force, refresh)
         \/ ReadCache(l) \/ ReadEndpoint(l) \/ TakeLock(l) \/ Recheck(l)
         \/ \E referral \in Referral, bootstrap \in Bootstrap :
              Discover(l, referral, bootstrap)
         \/ DiscoverFails(l) \/ SaveEndpoint(l)
         \/ Query(l) \/ QueryFails(l) \/ SaveResponse(l)
         \/ ReadRegistrar(l) \/ QueryRegistrar(l) \/ SaveRegistrar(l)
         \/ Cancel(l)
    \/ Tick

Spec == Init /\ [][Next]_vars

-----------------------------------------------------------------------------
(* Properties *)

\* Every variable keeps its type.
TypeOK ==
    /\ clock \in Time
    /\ cache \in [Role -> Response \cup {None}]
    /\ endpoint \in Endpoint \cup {None}
    /\ lock \in [Process -> Lookup \cup {None}]
    /\ lookup \in [Lookup -> Local]
    /\ discovered \in [Process -> Time \cup {-1}]

Answered(l) == At(l, "answered")

\* The responses an answer was made of, by role.
Part(l, role) ==
    IF role = "registrar" THEN lookup[l].registrar
    ELSE IF lookup[l].protocol = role THEN lookup[l].response ELSE None

\* What is cached never goes back in time, however late a lookup saves what it
\* fetched: neither a response, of either role, nor the endpoint.
CacheNeverGoesBack ==
    [][/\ \A k \in Role : Observed(cache'[k]) >= Observed(cache[k])
       /\ Observed(endpoint') >= Observed(endpoint)]_vars

\* Every part of an answer was still fresh when the lookup began, and the
\* registry's part of a forced lookup's answer was fetched after that.
AnswersAreCurrent ==
    \A l \in Lookup : Answered(l) =>
        /\ \A role \in Role :
             Part(l, role) # None => Part(l, role).fresh > lookup[l].began
        /\ lookup[l].force => lookup[l].response.observed >= lookup[l].began

\* The lookups of one process ask IANA once for as long as the endpoint they
\* saved is fresh, unless one was told to refresh it or could not read the store.
DiscoversOnce ==
    \A l \in Lookup :
        At(l, "discovering") /\ ~lookup[l].refresh /\ ~lookup[l].blind
        /\ discovered[Home(l)] # -1
          => discovered[Home(l)] + EndpointTTL <= lookup[l].since

\* A lock is held only by a lookup of its process that is on its way to release
\* it: no failure, error or cancellation leaves the others waiting for ever.
LocksAreReleased ==
    \A p \in Process : lock[p] # None =>
        /\ Home(lock[p]) = p
        /\ lookup[lock[p]].pc \in {"recheck", "discovering", "save_endpoint"}
=============================================================================
