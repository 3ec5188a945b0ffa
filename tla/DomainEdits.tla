----------------------------- MODULE DomainEdits -----------------------------
(***************************************************************************)
(* Concurrent edits of one managed domain.  Its owner and the administrators *)
(* work on what their browsers last showed; workers store the results of     *)
(* refreshes meanwhile.  Every change counts `version' up, and an edit names *)
(* the version it was made for (If-Match), so it only applies to the row the *)
(* client has seen.  A transaction that reads before it writes is two steps, *)
(* unless it holds the row's lock in between; the database is PostgreSQL at   *)
(* READ COMMITTED.                                                           *)
(***************************************************************************)
EXTENDS Integers

CONSTANTS
    Owners,      \* browser tabs of the domain's owner
    Admins,      \* browser tabs of administrators
    Notes,       \* the texts a note may have
    NoNote,      \* notes of a new domain
    MaxVersion   \* bound on the changes of a behaviour

ASSUME ClientsAreDistinct == Owners \cap Admins = {}
ASSUME NoteIsMissing == NoNote \notin Notes
ASSUME VersionsAreBounded == MaxVersion \in Nat \ {0}

VARIABLES
    row,        \* the row of managed_domain, if there is one
    page,       \* page[c]: the row as client c was last shown it
    request,    \* request[c]: the request of client c that is under way
    refreshes,  \* how many initial refreshes were queued
    overtaken   \* an administrator's deletion overwrote a change it had not read

vars == <<row, page, request, refreshes, overtaken>>

Clients == Owners \cup Admins

\* The columns users edit: monitor_enabled, and notes (renewal_mode is like it).
Local == [monitor : {"on", "off"}, notes : Notes \cup {NoNote}]

Row == [version : 1..MaxVersion, live : BOOLEAN, local : Local]
NoRow == [version |-> 0]

\* The fields of a PATCH and their values; at least one is supplied.
Edit == [monitor : {"on", "off"}] \cup [notes : Notes]
          \cup [monitor : {"on", "off"}, notes : Notes]

Idle == [step |-> "idle"]

Request ==
    {Idle, [step |-> "deleting"], [step |-> "answering"]}
      \cup [step : {"inserting"}, monitor : {"on", "off"}]
      \cup [step : {"updating"}, edit : Edit, monitored : {"on", "off"}]
      \cup [step : {"deleting_as_admin"}, version : 1..MaxVersion]

\* What an owner's queries find: get without include_deleted.
Visible == row # NoRow /\ row.live

-----------------------------------------------------------------------------
(* Queries *)

\* list: the domain is on the page unless it is deleted or filtered out.
Listed(wanted) == Visible /\ row.local.monitor \in wanted

Shown(c) == request[c] = Idle /\ page' = [page EXCEPT ![c] = row]
                              /\ UNCHANGED <<row, request, refreshes, overtaken>>

GetDomain(c) == Visible /\ Shown(c)

ListDomains(c) ==
    \E wanted \in SUBSET {"on", "off"} : Listed(wanted) /\ Shown(c)

\* Administrators see deleted domains as well.
GetDomainAsAdmin(c) == row # NoRow /\ Shown(c)

ListDomainsAsAdmin(c) ==
    \E live \in SUBSET BOOLEAN : row # NoRow /\ row.live \in live /\ Shown(c)

-----------------------------------------------------------------------------
(* Changes *)

Become(c, state) == request' = [request EXCEPT ![c] = state]

\* The answer shows the changed row, unless it gets lost on its way.
Answered(c) == page' \in {page, [page EXCEPT ![c] = row']}

Queue(wanted) == refreshes' = refreshes + IF wanted THEN 1 ELSE 0

\* Every write counts the version up.
Write(r) == row.version < MaxVersion /\ row' = [r EXCEPT !.version = row.version + 1]

\* create, from get_by_name: a live row is refused, a deleted one is locked and
\* restored, and without a row the insert follows.
CreateDomain(c) ==
    /\ request[c] = Idle
    /\ \E monitor \in {"on", "off"} :
         IF row = NoRow
         THEN /\ Become(c, [step |-> "inserting", monitor |-> monitor])
              /\ UNCHANGED <<row, page, refreshes>>
         ELSE /\ ~row.live
              /\ Write([row EXCEPT !.live = TRUE, !.local.monitor = monitor])
              /\ Queue(monitor = "on")
              /\ Answered(c)
              /\ UNCHANGED request
    /\ UNCHANGED overtaken

\* add: the unique constraint refuses a second row of the name.
InsertDomain(c) ==
    /\ request[c].step = "inserting"
    /\ IF row = NoRow
       THEN /\ row' = [version |-> 1, live |-> TRUE,
                       local |-> [monitor |-> request[c].monitor, notes |-> NoNote]]
            /\ Queue(request[c].monitor = "on")
            /\ Answered(c)
       ELSE UNCHANGED <<row, page, refreshes>>
    /\ Become(c, Idle)
    /\ UNCHANGED overtaken

\* update reads the row; If-Match is the version of the page.
UpdateDomain(c) ==
    /\ request[c] = Idle
    /\ page[c] # NoRow
    /\ Visible
    /\ \E edit \in Edit :
         Become(c, [step |-> "updating", edit |-> edit, monitored |-> row.local.monitor])
    /\ UNCHANGED <<row, page, refreshes, overtaken>>

\* The columns the PATCH supplies change, the others stay.
Patched(edit) ==
    [field \in {"monitor", "notes"} |->
       IF field \in DOMAIN edit THEN edit[field] ELSE row.local[field]]

\* Mutant: the version is not compared.
Matches_Any(c) == row.version # 0

Matches(c) == row.version = page[c].version

\* Mutant: what the row was before is not looked at.
SwitchesOn_Anyway(edit, monitored) ==
    "monitor" \in DOMAIN edit /\ edit.monitor = "on"

SwitchesOn(edit, monitored) ==
    "monitor" \in DOMAIN edit /\ edit.monitor = "on" /\ monitored = "off"

\* update_local, whose condition is checked with the write.
UpdateLocal(c) ==
    /\ request[c].step = "updating"
    /\ IF Visible /\ Matches(c)
       THEN LET edit == request[c].edit IN
            /\ Write([row EXCEPT !.local = Patched(edit)])
            /\ Queue(SwitchesOn(edit, request[c].monitored))
            /\ Answered(c)
       ELSE UNCHANGED <<row, page, refreshes>>
    /\ Become(c, Idle)
    /\ UNCHANGED overtaken

\* update_domain_as_admin: no read before the write, deleted rows included; the
\* row is read again for the answer.
UpdateDomainAsAdmin(c) ==
    /\ request[c] = Idle
    /\ page[c] # NoRow
    /\ row # NoRow
    /\ Matches(c)
    /\ \E edit \in Edit : Write([row EXCEPT !.local = Patched(edit)])
    /\ Become(c, [step |-> "answering"])
    /\ UNCHANGED <<page, refreshes, overtaken>>

AnswerUpdate(c) ==
    /\ request[c].step = "answering"
    /\ UNCHANGED <<row, refreshes, overtaken>>
    /\ Answered(c)
    /\ Become(c, Idle)

DeleteDomain(c) ==
    /\ request[c] = Idle
    /\ Visible
    /\ Become(c, [step |-> "deleting"])
    /\ UNCHANGED <<row, page, refreshes, overtaken>>

SoftDelete(c) ==
    /\ request[c].step = "deleting"
    /\ IF Visible THEN Write([row EXCEPT !.live = FALSE]) ELSE UNCHANGED row
    /\ Become(c, Idle)
    /\ UNCHANGED <<page, refreshes, overtaken>>

\* delete_domain_as_admin loads the row without a lock ...
DeleteDomainAsAdmin(c) ==
    /\ request[c] = Idle
    /\ Visible
    /\ Become(c, [step |-> "deleting_as_admin", version |-> row.version])
    /\ UNCHANGED <<row, page, refreshes, overtaken>>

\* ... and writes it back by its key, whatever has become of it.
CommitDeleteAsAdmin(c) ==
    /\ request[c].step = "deleting_as_admin"
    /\ request[c].version < MaxVersion
    /\ row' = [row EXCEPT !.live = FALSE, !.version = request[c].version + 1]
    /\ overtaken' = (overtaken \/ row.version # request[c].version)
    /\ Become(c, Idle)
    /\ UNCHANGED <<page, refreshes>>

\* The API process or the connection dies: the transaction is rolled back.
Abort(c) ==
    /\ request[c] # Idle
    /\ Become(c, Idle)
    /\ UNCHANGED <<row, page, refreshes, overtaken>>

\* A worker stores the outcome of a refresh, holding the row's lock.
CompleteCheck ==
    /\ row # NoRow
    /\ Write(row)
    /\ UNCHANGED <<page, request, refreshes, overtaken>>
-----------------------------------------------------------------------------
Init ==
    /\ row = NoRow
    /\ page = [c \in Clients |-> NoRow]
    /\ request = [c \in Clients |-> Idle]
    /\ refreshes = 0
    /\ overtaken = FALSE

OwnerStep(c) ==
    \/ GetDomain(c) \/ ListDomains(c)
    \/ CreateDomain(c) \/ InsertDomain(c)
    \/ UpdateDomain(c) \/ UpdateLocal(c)
    \/ DeleteDomain(c) \/ SoftDelete(c)

AdminStep(c) ==
    \/ GetDomainAsAdmin(c) \/ ListDomainsAsAdmin(c)
    \/ UpdateDomainAsAdmin(c) \/ AnswerUpdate(c)
    \/ DeleteDomainAsAdmin(c) \/ CommitDeleteAsAdmin(c)

Next ==
    \/ \E c \in Owners : OwnerStep(c)
    \/ \E c \in Admins : AdminStep(c)
    \/ \E c \in Clients : Abort(c)
    \/ CompleteCheck

Spec == Init /\ [][Next]_vars
-----------------------------------------------------------------------------
(* Properties *)

\* Every variable keeps its type.
TypeOK ==
    /\ row \in Row \cup {NoRow}
    /\ page \in [Clients -> Row \cup {NoRow}]
    /\ request \in [Clients -> Request]
    /\ refreshes \in Nat
    /\ overtaken \in BOOLEAN

\* Client c's edit is stored.
Edits(c) ==
    \/ c \in Owners /\ UpdateLocal(c) /\ row' # row
    \/ c \in Admins /\ UpdateDomainAsAdmin(c)

\* An edit only ever replaces the values its author was looking at: between the
\* page and the write nobody, neither the owner in another tab nor an
\* administrator, a deletion, a restoration nor a worker, changed the domain
\* (version and If-Match, SqlAlchemyDomainRepository.update_local and
\* update_domain_as_admin).  The deletion of an administrator that overwrote a
\* change may have reused a version: from then on nothing is promised.
EditsBuildOnTheirPage ==
    [][\A c \in Clients : Edits(c) /\ ~overtaken => row = page[c]]_vars

Monitored(r) == r # NoRow /\ r.live /\ r.local.monitor = "on"

\* An initial refresh is queued exactly when the owner's change brings the domain
\* under monitoring, although DomainService.update compares with a row it read
\* before its conditional write: the condition on the version makes up for it.
\* (update_domain_as_admin queues none.)
RefreshFollowsSwitch ==
    [][(\E c \in Owners : OwnerStep(c)) /\ ~overtaken =>
         (refreshes' # refreshes <=> ~Monitored(row) /\ Monitored(row'))]_vars

\* A version is never taken again by another state of the row.
VersionsOnlyGrow == [][row' # row => row'.version > row.version]_vars
=============================================================================
