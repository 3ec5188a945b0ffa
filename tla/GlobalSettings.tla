---------------------------- MODULE GlobalSettings ----------------------------
(***************************************************************************)
(* The settings that administrators keep in the database, one row per key,  *)
(* and the copies that the processes work with.  A save checks the version  *)
(* of the form it comes from and the combination of all settings in reads   *)
(* of their own, writes, commits and reloads the policies of the API        *)
(* process; the background loops reload before each round.  From its first  *)
(* read to its commit a save holds no lock.                                 *)
(*                                                                         *)
(* A key with version 0 has no row and counts with the default of the       *)
(* environment.  The constraints between settings are a set of policies.    *)
(***************************************************************************)
EXTENDS Integers

CONSTANTS
    Admin,        \* administrators, each with one form and one request
    Loop,         \* background processes: workers, scheduler, notifier
    Api,          \* the API process
    Key, Value,   \* settings and the values that requests name
    Allowed,      \* the values in the range of each setting
    Batch,        \* the sets of keys that one request saves
    RefreshKey,   \* successful_refresh_ttl_seconds
    Default,      \* values of the environment
    ValidPolicy,  \* the combinations that Settings accepts
    MaxSaves      \* bound on committed saves; no save begins after as many

ASSUME SettingsAssumption ==
    /\ Api \notin Loop
    /\ RefreshKey \in Key
    /\ Batch \subseteq SUBSET Key
    /\ Allowed \in [Key -> SUBSET Value]
    /\ ValidPolicy \subseteq [Key -> Value]
    /\ Default \in ValidPolicy
    /\ MaxSaves \in Nat

\* No constraint mentions the key that the older form writes without a check.
ASSUME RefreshKeyIsFree ==
    \A p \in ValidPolicy : \A v \in Allowed[RefreshKey] : [p EXCEPT ![RefreshKey] = v] \in ValidPolicy

VARIABLES
    row,        \* global_setting
    page,       \* what the form of each administrator shows
    request,    \* the request of each administrator
    policy,     \* the settings each process works with
    overlapped, \* history: a save was committed while another one was in progress
    saves       \* bound only: saves committed

vars == <<row, page, request, policy, overlapped, saves>>

Process == Loop \cup {Api}
Row == [value : Value, version : Nat]
Items == UNION {[K -> Value] : K \in SUBSET Key}

\* "versions", "combination": what the first of the two reads of a save has checked;
\* "save", "policy" (the older form): about to write; "reload" and "apply" follow a
\* commit.  read: the versions that were read.
RequestState == [op : {"idle", "versions", "combination", "save", "policy",
                       "reload", "apply"},
                 items : Items, read : [Key -> Nat], loaded : [Key -> Value]]
Idle == [op |-> "idle", items |-> [k \in {} |-> 0], read |-> [k \in Key |-> 0],
         loaded |-> Default]

Stored == [k \in Key |-> row[k].value]
Versions == [k \in Key |-> row[k].version]
Writing(a) == request[a].op \in {"save", "policy"}
InProgress(a) == Writing(a) \/ request[a].op \in {"versions", "combination"}

-----------------------------------------------------------------------------
(* Saving *)

\* listGlobalSettings: the form is loaded, unless it is being saved.
Load(a) ==
    /\ ~InProgress(a)
    /\ page' = [page EXCEPT ![a] = row]
    /\ UNCHANGED <<row, request, policy, overlapped, saves>>

\* Mutant: the version of the form is not compared.
Current_Always(a, items) == TRUE

\* If-Match, or the version of each item of a batch.
Current(a, items) == \A k \in DOMAIN items : page[a][k].version = row[k].version

\* valid_setting_value: kind and range of each value.
ValidValues(items) == \A k \in DOMAIN items : items[k] \in Allowed[k]

\* Mutant: the new values are checked against the environment alone.
Combined_Environment(items) ==
    [k \in Key |-> IF k \in DOMAIN items THEN items[k] ELSE Default[k]]

\* The settings as they would be after the save.
Combined(items) == [k \in Key |-> IF k \in DOMAIN items THEN items[k] ELSE row[k].value]

Goes(a, op, items, read) ==
    /\ request' = [request EXCEPT ![a] =
         [op |-> op, items |-> items, read |-> read, loaded |-> Default]]
    /\ UNCHANGED <<row, page, policy, overlapped, saves>>

Refused(a) ==
    /\ request' = [request EXCEPT ![a] = Idle]
    /\ UNCHANGED <<row, page, policy, overlapped, saves>>

\* updateGlobalSettings (several keys): the rows to write are read first and their
\* versions compared, ...
CompareVersions(a, items) ==
    /\ request[a].op = "idle" /\ saves < MaxSaves
    /\ ValidValues(items) /\ Current(a, items)
    /\ Goes(a, "versions", items, Versions)

\* ... and then all rows, for the combination.
ThenCheckCombination(a) ==
    LET items == request[a].items
    IN  /\ request[a].op = "versions"
        /\ IF Combined(items) \in ValidPolicy
           THEN Goes(a, "save", items, request[a].read)
           ELSE Refused(a)

\* updateGlobalSetting (one key): all rows first, for the combination, ...
CheckCombination(a, items) ==
    /\ request[a].op = "idle" /\ saves < MaxSaves
    /\ ValidValues(items) /\ Combined(items) \in ValidPolicy
    /\ Goes(a, "combination", items, Idle.read)

\* ... and then the row to write, for its version.
ThenCompareVersion(a) ==
    LET items == request[a].items
    IN  /\ request[a].op = "combination"
        /\ IF Current(a, items)
           THEN Goes(a, "save", items, Versions)
           ELSE Refused(a)

\* updateRefreshPolicy: the range, but no version and no combination.
CheckRefreshPolicy(a, value) ==
    /\ request[a].op = "idle" /\ saves < MaxSaves
    /\ value \in Allowed[RefreshKey]
    /\ Goes(a, "policy", [k \in {RefreshKey} |-> value], Versions)

\* A row that was missing is inserted, which fails when it exists by now.
Collides(a) ==
    \E k \in DOMAIN request[a].items : request[a].read[k] = 0 /\ row[k].version # 0

\* The write is unconditional; the new version counts on from the version read.
Commit(a) ==
    LET items == request[a].items
    IN  /\ Writing(a)
        /\ ~Collides(a)
        /\ row' = [k \in Key |->
                     IF k \in DOMAIN items
                     THEN [value |-> items[k], version |-> request[a].read[k] + 1]
                     ELSE row[k]]
        /\ request' = [request EXCEPT ![a] =
             IF request[a].op = "save" THEN [Idle EXCEPT !.op = "reload"] ELSE Idle]
        /\ overlapped' = (overlapped \/ \E b \in Admin \ {a} : InProgress(b))
        /\ saves' = saves + 1
        /\ UNCHANGED <<page, policy>>

\* The insert violates the primary key: nothing is written.
CommitFails(a) ==
    /\ Writing(a)
    /\ Collides(a)
    /\ Refused(a)

-----------------------------------------------------------------------------
(* Reloading *)

\* reload_global_policies after a save: the rows are read, then the database
\* session is closed, then the policies of the process are replaced.
ReadPolicies(a) ==
    /\ request[a].op = "reload"
    /\ request' = [request EXCEPT ![a] = [Idle EXCEPT !.op = "apply", !.loaded = Stored]]
    /\ UNCHANGED <<row, page, policy, overlapped, saves>>

ApplyPolicies(a) ==
    /\ request[a].op = "apply"
    /\ policy' = [policy EXCEPT ![Api] = request[a].loaded]
    /\ request' = [request EXCEPT ![a] = Idle]
    /\ UNCHANGED <<row, page, overlapped, saves>>

\* A loop reloads before its next round; nothing else happens in that process.
Reload(p) ==
    /\ policy' = [policy EXCEPT ![p] = Stored]
    /\ UNCHANGED <<row, page, request, overlapped, saves>>

\* The API process dies with its requests and starts with the stored settings.
RestartApi ==
    /\ request' = [a \in Admin |-> Idle]
    /\ policy' = [policy EXCEPT ![Api] = Stored]
    /\ UNCHANGED <<row, page, overlapped, saves>>

-----------------------------------------------------------------------------
Init ==
    /\ \E version \in {0, 1} :
           row = [k \in Key |-> [value |-> Default[k], version |-> version]]
    /\ page = [a \in Admin |-> row]
    /\ request = [a \in Admin |-> Idle]
    /\ policy = [p \in Process |-> Stored]
    /\ overlapped = FALSE
    /\ saves = 0

SaveAll(a) == \E K \in Batch : \E items \in [K -> Value] : CompareVersions(a, items)
SaveOne(a) == \E k \in Key : \E items \in [{k} -> Value] : CheckCombination(a, items)
SaveRefreshPolicy(a) == \E v \in Value : CheckRefreshPolicy(a, v)

Next ==
    \/ \E a \in Admin :
        \/ Load(a) \/ SaveAll(a) \/ ThenCheckCombination(a)
        \/ SaveOne(a) \/ ThenCompareVersion(a) \/ SaveRefreshPolicy(a)
        \/ Commit(a) \/ CommitFails(a) \/ ReadPolicies(a) \/ ApplyPolicies(a)
    \/ \E p \in Loop : Reload(p)
    \/ RestartApi

Spec == Init /\ [][Next]_vars

-----------------------------------------------------------------------------
\* Every variable keeps its type.
TypeOK ==
    /\ row \in [Key -> Row]
    /\ page \in [Admin -> [Key -> Row]]
    /\ request \in [Admin -> RequestState]
    /\ policy \in [Process -> [Key -> Value]]
    /\ overlapped \in BOOLEAN
    /\ saves \in Nat

\* As long as no two saves overlap, whoever edits which setting in which order,
\* neither the stored settings nor those any process works with break a
\* constraint between settings (valid_runtime_setting_combination: a retry
\* maximum below its base, say, saved in two steps).
SettingsStayValid ==
    ~overlapped => /\ Stored \in ValidPolicy
                   /\ \A p \in Process : policy[p] \in ValidPolicy

\* A save that has passed its checks, and will not fail, replaces the values its
\* form shows.
SeesWhatItReplaces(a) ==
    request[a].op = "save" /\ ~Collides(a) =>
        \A k \in DOMAIN request[a].items : page[a][k].value = row[k].value

\* As long as no two saves overlap, an administrator never overwrites a change
\* that the form did not show, even when it was made through the older form.
NoBlindOverwrite == ~overlapped => \A a \in Admin : SeesWhatItReplaces(a)

\* "Two administrators that change the same key at the same time lose no
\* update": the same without the condition.
NoLostUpdate == \A a \in Admin : SeesWhatItReplaces(a)
=============================================================================
