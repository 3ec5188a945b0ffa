-------------------------- MODULE DomainEditsProofs --------------------------
(***************************************************************************)
(* Proofs about DomainEdits: what the version of a domain tells an edit.     *)
(***************************************************************************)
EXTENDS DomainEdits, TLAPS

\* While no deletion has overwritten a change, a page as new as the row shows the
\* row, and an update whose version still matches has read the row it writes.
Pages ==
    \A c \in Clients :
        /\ page[c].version <= row.version
        /\ page[c].version = row.version => page[c] = row

Reads ==
    \A c \in Clients :
        request[c].step = "updating" =>
            /\ c \in Owners
            /\ row # NoRow
            /\ row.version = page[c].version => request[c].monitored = row.local.monitor

\* Rows are never removed, so the one an administrator deletes is there.
Deletions == \A c \in Clients : request[c].step = "deleting_as_admin" => row # NoRow

IInv == TypeOK /\ Deletions /\ (~overtaken => Pages /\ Reads)

\* What every step but an overtaking deletion does.
Advances ==
    /\ row' = row \/ row'.version > row.version
    /\ \A c \in Clients : page'[c] \in {page[c], row'}
    /\ \A c \in Clients :
         request'[c].step = "updating" =>
           \/ request'[c] = request[c] /\ page'[c] = page[c]
           \/ /\ c \in Owners
              /\ row' = row
              /\ row # NoRow
              /\ request'[c].monitored = row.local.monitor
-----------------------------------------------------------------------------
(* Types *)

\* A write leaves a row, one version later.
LEMMA Writes ==
    ASSUME row \in Row, NEW r \in Row, Write(r)
    PROVE  /\ row' \in Row
           /\ row'.version = row.version + 1
           /\ row'.live = r.live
           /\ row'.local = r.local
  BY VersionsAreBounded DEF Write, Row

\* The states a request may take.
LEMMA Requests ==
    /\ Idle \in Request
    /\ [step |-> "deleting"] \in Request
    /\ [step |-> "answering"] \in Request
    /\ \A m \in {"on", "off"} : [step |-> "inserting", monitor |-> m] \in Request
    /\ \A e \in Edit, m \in {"on", "off"} :
         [step |-> "updating", edit |-> e, monitored |-> m] \in Request
    /\ \A v \in 1..MaxVersion :
         [step |-> "deleting_as_admin", version |-> v] \in Request
  BY DEF Request

\* A request that is being updated carries an edit.
LEMMA Updates ==
    ASSUME NEW r \in Request, r.step = "updating"
    PROVE  r.edit \in Edit /\ r.monitored \in {"on", "off"}
  BY DEF Request, Idle

LEMMA Deletes ==
    ASSUME NEW r \in Request, r.step = "deleting_as_admin"
    PROVE  r.version \in 1..MaxVersion
  BY DEF Request, Idle

LEMMA Inserts ==
    ASSUME NEW r \in Request, r.step = "inserting"
    PROVE  r.monitor \in {"on", "off"}
  BY DEF Request, Idle

\* An edit of a row is a row.
LEMMA Patches ==
    ASSUME row \in Row, NEW edit \in Edit
    PROVE  [row EXCEPT !.local = Patched(edit)] \in Row
<1>1. Patched(edit) \in Local
  BY DEF Patched, Edit, Row, Local
<1>. QED
  BY <1>1 DEF Row

\* Type correctness is inductive.
LEMMA TypeStep ==
    ASSUME TypeOK, Deletions, [Next]_vars
    PROVE  TypeOK'
<1>. USE DEF TypeOK
<1>1. ASSUME NEW c \in Clients, Shown(c) PROVE TypeOK'
  BY <1>1 DEF Shown
<1>2. ASSUME NEW c \in Clients, NEW s \in Request, Become(c, s)
      PROVE  request' \in [Clients -> Request]
  BY <1>2 DEF Become
<1>3. ASSUME NEW c \in Clients, Answered(c), row' \in Row \cup {NoRow}
      PROVE  page' \in [Clients -> Row \cup {NoRow}]
  BY <1>3 DEF Answered
<1>4. ASSUME NEW w \in BOOLEAN, Queue(w) PROVE refreshes' \in Nat
  BY <1>4 DEF Queue
<1>5. ASSUME NEW c \in Owners, OwnerStep(c) PROVE TypeOK'
  <2>. c \in Clients
    BY DEF Clients
  <2>1. CASE GetDomain(c) \/ ListDomains(c)
    BY <1>1, <2>1 DEF GetDomain, ListDomains
  <2>2. CASE CreateDomain(c)
    <3>1. PICK m \in {"on", "off"} :
             IF row = NoRow
             THEN /\ Become(c, [step |-> "inserting", monitor |-> m])
                  /\ UNCHANGED <<row, page, refreshes>>
             ELSE /\ ~row.live
                  /\ Write([row EXCEPT !.live = TRUE, !.local.monitor = m])
                  /\ Queue(m = "on")
                  /\ Answered(c)
                  /\ UNCHANGED request
      BY <2>2 DEF CreateDomain
    <3>2. overtaken' = overtaken
      BY <2>2 DEF CreateDomain
    <3>3. CASE row = NoRow
      BY <1>2, <3>1, <3>2, <3>3, Requests
    <3>4. CASE row # NoRow
      <4>1. [row EXCEPT !.live = TRUE, !.local.monitor = m] \in Row
        BY <3>4 DEF Row, Local
      <4>2. row' \in Row
        BY <3>1, <3>4, <4>1, Writes
      <4>. QED
        BY <1>3, <1>4, <3>1, <3>2, <3>4, <4>2
    <3>. QED
      BY <3>3, <3>4
  <2>3. CASE InsertDomain(c)
    <3>1. request[c].monitor \in {"on", "off"}
      BY <2>3, Inserts DEF InsertDomain
    <3>2. row' \in Row \cup {NoRow}
      <4>1. [version |-> 1, live |-> TRUE,
             local |-> [monitor |-> request[c].monitor, notes |-> NoNote]] \in Row
        BY <3>1, VersionsAreBounded DEF Row, Local
      <4>. QED
        BY <2>3, <4>1 DEF InsertDomain
    <3>. QED
      BY <1>2, <1>3, <1>4, <2>3, <3>2, Requests DEF InsertDomain
  <2>4. CASE UpdateDomain(c)
    <3>1. row.local.monitor \in {"on", "off"}
      BY <2>4 DEF UpdateDomain, Visible, Row, Local
    <3>. QED
      BY <1>2, <2>4, <3>1, Requests DEF UpdateDomain
  <2>5. CASE UpdateLocal(c)
    <3>1. CASE Visible /\ Matches(c)
      <4>1. row \in Row
        BY <3>1 DEF Visible
      <4>2. request[c].edit \in Edit
        BY <2>5, Updates DEF UpdateLocal
      <4>3. row' \in Row
        BY <2>5, <3>1, <4>1, <4>2, Patches, Writes DEF UpdateLocal
      <4>4. SwitchesOn(request[c].edit, request[c].monitored) \in BOOLEAN
        BY DEF SwitchesOn
      <4>. QED
        BY <1>2, <1>3, <1>4, <2>5, <3>1, <4>3, <4>4, Requests DEF UpdateLocal
    <3>2. CASE ~(Visible /\ Matches(c))
      BY <1>2, <2>5, <3>2, Requests DEF UpdateLocal
    <3>. QED
      BY <3>1, <3>2
  <2>6. CASE DeleteDomain(c)
    BY <1>2, <2>6, Requests DEF DeleteDomain
  <2>7. CASE SoftDelete(c)
    <3>1. row' \in Row \cup {NoRow}
      <4>1. CASE Visible
        <5>1. row \in Row /\ [row EXCEPT !.live = FALSE] \in Row
          BY <4>1 DEF Visible, Row
        <5>. QED
          BY <2>7, <4>1, <5>1, Writes DEF SoftDelete
      <4>. QED
        BY <2>7, <4>1 DEF SoftDelete
    <3>. QED
      BY <1>2, <2>7, <3>1, Requests DEF SoftDelete
  <2>. QED
    BY <1>5, <2>1, <2>2, <2>3, <2>4, <2>5, <2>6, <2>7 DEF OwnerStep
<1>6. ASSUME NEW c \in Admins, AdminStep(c) PROVE TypeOK'
  <2>. c \in Clients
    BY DEF Clients
  <2>1. CASE GetDomainAsAdmin(c) \/ ListDomainsAsAdmin(c)
    BY <1>1, <2>1 DEF GetDomainAsAdmin, ListDomainsAsAdmin
  <2>2. CASE UpdateDomainAsAdmin(c)
    <3>1. row' \in Row
      BY <2>2, Patches, Writes DEF UpdateDomainAsAdmin
    <3>. QED
      BY <1>2, <2>2, <3>1, Requests DEF UpdateDomainAsAdmin
  <2>3. CASE AnswerUpdate(c)
    BY <1>2, <1>3, <2>3, Requests DEF AnswerUpdate
  <2>4. CASE DeleteDomainAsAdmin(c)
    <3>1. row.version \in 1..MaxVersion
      BY <2>4 DEF DeleteDomainAsAdmin, Visible, Row
    <3>. QED
      BY <1>2, <2>4, <3>1, Requests DEF DeleteDomainAsAdmin
  <2>5. CASE CommitDeleteAsAdmin(c)
    <3>1. request[c].version + 1 \in 1..MaxVersion
      BY <2>5, Deletes, VersionsAreBounded DEF CommitDeleteAsAdmin
    <3>2. row \in Row
      BY <2>5 DEF CommitDeleteAsAdmin, Deletions
    <3>3. [row EXCEPT !.live = FALSE, !.version = request[c].version + 1] \in Row
      BY <3>1, <3>2 DEF Row
    <3>4. row' \in Row \cup {NoRow}
      BY <2>5, <3>3 DEF CommitDeleteAsAdmin
    <3>. QED
      BY <1>2, <2>5, <3>4, Requests DEF CommitDeleteAsAdmin
  <2>. QED
    BY <1>6, <2>1, <2>2, <2>3, <2>4, <2>5 DEF AdminStep
<1>7. ASSUME NEW c \in Clients, Abort(c) PROVE TypeOK'
  BY <1>2, <1>7, Requests DEF Abort
<1>8. CASE CompleteCheck
  BY <1>8, Writes DEF CompleteCheck
<1>9. CASE UNCHANGED vars
  BY <1>9 DEF vars
<1>. QED
  BY <1>5, <1>6, <1>7, <1>8, <1>9 DEF Next
-----------------------------------------------------------------------------
(* Steps *)

\* Versions tell the rows apart from there being none.
LEMMA Numbers ==
    /\ NoRow.version = 0
    /\ NoRow \notin Row
    /\ \A r \in Row : r.version \in Nat /\ r.version > 0
  BY VersionsAreBounded DEF NoRow, Row

\* Every step advances the row, unless a deletion overwrites a change.
LEMMA Advance ==
    ASSUME TypeOK, Deletions, TypeOK', Next, ~overtaken'
    PROVE  Advances /\ ~overtaken
<1>. USE DEF TypeOK
<1>1. ASSUME NEW c \in Clients,
             request'[c].step # "updating",
             \A d \in Clients \ {c} : request'[d] = request[d],
             Answered(c) \/ page' = page,
             row' = row \/ row'.version > row.version,
             overtaken' = overtaken
      PROVE  Advances /\ ~overtaken
  BY <1>1 DEF Answered, Advances
<1>2. ASSUME NEW c \in Clients, Shown(c) PROVE Advances /\ ~overtaken
  <2>1. request' = request /\ request'[c].step # "updating" /\ row' = row
    BY <1>2 DEF Shown, Idle
  <2>2. Answered(c) /\ overtaken' = overtaken
    BY <1>2 DEF Shown, Answered
  <2>. QED
    BY <1>1, <2>1, <2>2
<1>3. ASSUME NEW c \in Clients, NEW s \in Request, Become(c, s), s.step # "updating"
      PROVE  /\ request'[c].step # "updating"
             /\ \A d \in Clients \ {c} : request'[d] = request[d]
  BY <1>3 DEF Become
<1>4. ASSUME NEW r \in Row, row \in Row, Write(r)
      PROVE  row'.version > row.version
  BY <1>4, Writes, Numbers
<1>5. Idle \in Request /\ Idle.step # "updating"
  BY Requests DEF Idle
<1>6. ASSUME NEW c \in Owners, OwnerStep(c) PROVE Advances /\ ~overtaken
  <2>. c \in Clients
    BY DEF Clients
  <2>1. CASE GetDomain(c) \/ ListDomains(c)
    BY <1>2, <2>1 DEF GetDomain, ListDomains
  <2>2. CASE CreateDomain(c)
    <3>1. PICK m \in {"on", "off"} :
             IF row = NoRow
             THEN /\ Become(c, [step |-> "inserting", monitor |-> m])
                  /\ UNCHANGED <<row, page, refreshes>>
             ELSE /\ ~row.live
                  /\ Write([row EXCEPT !.live = TRUE, !.local.monitor = m])
                  /\ Queue(m = "on")
                  /\ Answered(c)
                  /\ UNCHANGED request
      BY <2>2 DEF CreateDomain
    <3>2. request[c] = Idle /\ overtaken' = overtaken
      BY <2>2 DEF CreateDomain
    <3>3. CASE row = NoRow
      BY <1>1, <1>3, <3>1, <3>2, <3>3, Requests
    <3>4. CASE row # NoRow
      <4>1. row \in Row /\ [row EXCEPT !.live = TRUE, !.local.monitor = m] \in Row
        BY <3>4 DEF Row, Local
      <4>. QED
        BY <1>1, <1>4, <1>5, <3>1, <3>2, <3>4, <4>1
    <3>. QED
      BY <3>3, <3>4
  <2>3. CASE InsertDomain(c)
    <3>1. row' = row \/ row'.version > row.version
      BY <2>3, Numbers DEF InsertDomain
    <3>. QED
      BY <1>1, <1>3, <1>5, <2>3, <3>1 DEF InsertDomain
  <2>4. CASE UpdateDomain(c)
    <3>1. PICK edit \in Edit :
             Become(c, [step |-> "updating", edit |-> edit,
                        monitored |-> row.local.monitor])
      BY <2>4 DEF UpdateDomain
    <3>. QED
      BY <2>4, <3>1 DEF UpdateDomain, Become, Visible, Advances
  <2>5. CASE UpdateLocal(c)
    <3>1. row' = row \/ row'.version > row.version
      BY <1>4, <2>5, Updates, Patches DEF UpdateLocal, Visible
    <3>. QED
      BY <1>1, <1>3, <1>5, <2>5, <3>1 DEF UpdateLocal
  <2>6. CASE DeleteDomain(c)
    BY <1>1, <1>3, <2>6, Requests DEF DeleteDomain
  <2>7. CASE SoftDelete(c)
    <3>1. row' = row \/ row'.version > row.version
      <4>1. CASE Visible
        <5>1. row \in Row /\ [row EXCEPT !.live = FALSE] \in Row
          BY <4>1 DEF Visible, Row
        <5>. QED
          BY <1>4, <2>7, <4>1, <5>1 DEF SoftDelete
      <4>. QED
        BY <2>7, <4>1 DEF SoftDelete
    <3>. QED
      BY <1>1, <1>3, <1>5, <2>7, <3>1 DEF SoftDelete
  <2>. QED
    BY <1>6, <2>1, <2>2, <2>3, <2>4, <2>5, <2>6, <2>7 DEF OwnerStep
<1>7. ASSUME NEW c \in Admins, AdminStep(c) PROVE Advances /\ ~overtaken
  <2>. c \in Clients
    BY DEF Clients
  <2>1. CASE GetDomainAsAdmin(c) \/ ListDomainsAsAdmin(c)
    BY <1>2, <2>1 DEF GetDomainAsAdmin, ListDomainsAsAdmin
  <2>2. CASE UpdateDomainAsAdmin(c)
    <3>1. row'.version > row.version
      BY <1>4, <2>2, Patches DEF UpdateDomainAsAdmin
    <3>. QED
      BY <1>1, <1>3, <2>2, <3>1, Requests DEF UpdateDomainAsAdmin
  <2>3. CASE AnswerUpdate(c)
    BY <1>1, <1>3, <1>5, <2>3 DEF AnswerUpdate
  <2>4. CASE DeleteDomainAsAdmin(c)
    <3>1. row.version \in 1..MaxVersion
      BY <2>4 DEF DeleteDomainAsAdmin, Visible, Row
    <3>. QED
      BY <1>1, <1>3, <2>4, <3>1, Requests DEF DeleteDomainAsAdmin
  <2>5. CASE CommitDeleteAsAdmin(c)
    <3>1. row \in Row /\ row.version = request[c].version /\ ~overtaken
      BY <2>5 DEF CommitDeleteAsAdmin, Deletions
    <3>2. row'.version = row.version + 1
      BY <2>5, <3>1 DEF CommitDeleteAsAdmin, Row
    <3>3. row'.version > row.version
      BY <3>1, <3>2, Numbers
    <3>. QED
      BY <1>1, <1>3, <1>5, <2>5, <3>1, <3>3 DEF CommitDeleteAsAdmin
  <2>. QED
    BY <1>7, <2>1, <2>2, <2>3, <2>4, <2>5 DEF AdminStep
<1>8. ASSUME NEW c \in Clients, Abort(c) PROVE Advances /\ ~overtaken
  BY <1>1, <1>3, <1>5, <1>8 DEF Abort
<1>9. CASE CompleteCheck
  <2>1. row'.version > row.version
    BY <1>4, <1>9 DEF CompleteCheck
  <2>. QED
    BY <1>9, <2>1 DEF CompleteCheck, Advances
<1>. QED
  BY <1>6, <1>7, <1>8, <1>9 DEF Next

\* A deletion is only ever written to a row.
LEMMA DeletionsStep ==
    ASSUME TypeOK, Deletions, TypeOK', [Next]_vars
    PROVE  Deletions'
<1>1. ASSUME row # NoRow PROVE row' # NoRow
  <2>0. row \in Row
    BY <1>1 DEF TypeOK
  <2>1. ASSUME NEW r \in Row, Write(r) PROVE row' # NoRow
    BY <2>0, <2>1, Writes, Numbers
  <2>2. ASSUME NEW c \in Owners, OwnerStep(c) PROVE row' # NoRow
    <3>1. c \in Clients /\ request[c] \in Request
      BY DEF Clients, TypeOK
    <3>2. CASE CreateDomain(c)
      <4>1. \A m \in {"on", "off"} : [row EXCEPT !.live = TRUE, !.local.monitor = m] \in Row
        BY <2>0 DEF Row, Local
      <4>. QED
        BY <1>1, <2>1, <3>2, <4>1 DEF CreateDomain
    <3>3. CASE UpdateLocal(c)
      BY <1>1, <2>0, <2>1, <3>1, <3>3, Updates, Patches DEF UpdateLocal
    <3>4. CASE SoftDelete(c)
      <4>1. [row EXCEPT !.live = FALSE] \in Row
        BY <2>0 DEF Row
      <4>. QED
        BY <1>1, <2>1, <3>4, <4>1 DEF SoftDelete
    <3>5. CASE GetDomain(c) \/ ListDomains(c) \/ InsertDomain(c) \/ UpdateDomain(c)
                 \/ DeleteDomain(c)
      BY <1>1, <3>5 DEF GetDomain, ListDomains, Shown, InsertDomain, UpdateDomain,
                        DeleteDomain
    <3>. QED
      BY <2>2, <3>2, <3>3, <3>4, <3>5 DEF OwnerStep
  <2>3. ASSUME NEW c \in Admins, AdminStep(c) PROVE row' # NoRow
    <3>1. c \in Clients /\ request[c] \in Request
      BY DEF Clients, TypeOK
    <3>2. CASE UpdateDomainAsAdmin(c)
      BY <2>0, <2>1, <3>2, Patches DEF UpdateDomainAsAdmin
    <3>3. CASE CommitDeleteAsAdmin(c)
      <4>1. request[c].version \in 1..MaxVersion
        BY <3>1, <3>3, Deletes DEF CommitDeleteAsAdmin
      <4>2. row'.version = request[c].version + 1
        BY <2>0, <3>3 DEF CommitDeleteAsAdmin, Row
      <4>. QED
        BY <4>1, <4>2, Numbers
    <3>4. CASE GetDomainAsAdmin(c) \/ ListDomainsAsAdmin(c) \/ AnswerUpdate(c)
                 \/ DeleteDomainAsAdmin(c)
      BY <1>1, <3>4 DEF GetDomainAsAdmin, ListDomainsAsAdmin, Shown, AnswerUpdate,
                        DeleteDomainAsAdmin
    <3>. QED
      BY <2>3, <3>2, <3>3, <3>4 DEF AdminStep
  <2>4. CASE \E c \in Clients : Abort(c)
    BY <1>1, <2>4 DEF Abort
  <2>5. CASE CompleteCheck
    BY <2>0, <2>1, <2>5 DEF CompleteCheck
  <2>6. CASE UNCHANGED vars
    BY <1>1, <2>6 DEF vars
  <2>. QED
    BY <2>2, <2>3, <2>4, <2>5, <2>6 DEF Next
<1>2. ASSUME NEW c \in Clients, request'[c].step = "deleting_as_admin"
      PROVE  row # NoRow
  <2>1. CASE request'[c] = request[c]
    BY <1>2, <2>1 DEF Deletions
  <2>2. CASE request'[c] # request[c]
    <3>1. ASSUME NEW d \in Clients, NEW s, Become(d, s)
          PROVE  c = d /\ s.step = "deleting_as_admin"
      BY <1>2, <2>2, <3>1 DEF Become, TypeOK
    <3>2. ~ \E d \in Clients : Shown(d)
      BY <2>2 DEF Shown
    <3>3. ASSUME NEW d \in Owners, OwnerStep(d) PROVE FALSE
      <4>1. d \in Clients
        BY DEF Clients
      <4>2. CASE GetDomain(d) \/ ListDomains(d)
        BY <3>2, <4>1, <4>2 DEF GetDomain, ListDomains
      <4>3. CASE CreateDomain(d)
        BY <2>2, <3>1, <4>1, <4>3 DEF CreateDomain
      <4>4. CASE InsertDomain(d) \/ UpdateLocal(d) \/ SoftDelete(d)
        <5>1. Become(d, Idle)
          BY <4>4 DEF InsertDomain, UpdateLocal, SoftDelete
        <5>. QED
          BY <3>1, <4>1, <5>1 DEF Idle
      <4>5. CASE UpdateDomain(d)
        BY <3>1, <4>1, <4>5 DEF UpdateDomain
      <4>6. CASE DeleteDomain(d)
        BY <3>1, <4>1, <4>6 DEF DeleteDomain
      <4>. QED
        BY <3>3, <4>2, <4>3, <4>4, <4>5, <4>6 DEF OwnerStep
    <3>4. ASSUME NEW d \in Admins, AdminStep(d) PROVE row # NoRow
      <4>1. d \in Clients
        BY DEF Clients
      <4>. QED
        BY <3>1, <3>2, <3>4, <4>1
           DEF AdminStep, GetDomainAsAdmin, ListDomainsAsAdmin, UpdateDomainAsAdmin,
               AnswerUpdate, DeleteDomainAsAdmin, CommitDeleteAsAdmin, Visible, Idle
    <3>. QED
      BY <2>2, <3>1, <3>3, <3>4 DEF Next, Abort, CompleteCheck, vars, Idle
  <2>. QED
    BY <2>1, <2>2
<1>. QED
  BY <1>1, <1>2 DEF Deletions

\* The invariant is inductive.
LEMMA InvStep ==
    ASSUME IInv, [Next]_vars
    PROVE  IInv'
<1>1. TypeOK' /\ Deletions'
  BY TypeStep, DeletionsStep DEF IInv
<1>2. CASE UNCHANGED vars
  BY <1>1, <1>2 DEF vars, IInv, Pages, Reads
<1>3. ASSUME Next, ~overtaken' PROVE Pages' /\ Reads'
  <2>1. Advances /\ Pages /\ Reads
    BY <1>1, <1>3, Advance DEF IInv
  <2>2. /\ row.version \in Nat
        /\ row'.version \in Nat
        /\ \A c \in Clients : page[c].version \in Nat
        /\ row'.version > row.version => row' # NoRow
    BY <1>1, Numbers DEF IInv, TypeOK
  <2>3. Pages'
    BY <2>1, <2>2 DEF Pages, Advances
  <2>4. ASSUME NEW c \in Clients, request'[c].step = "updating"
        PROVE  /\ c \in Owners
               /\ row' # NoRow
               /\ row'.version = page'[c].version =>
                    request'[c].monitored = row'.local.monitor
    <3>1. CASE request'[c] = request[c] /\ page'[c] = page[c]
      BY <2>1, <2>2, <2>4, <3>1 DEF Pages, Reads, Advances
    <3>2. CASE /\ c \in Owners
               /\ row' = row
               /\ row # NoRow
               /\ request'[c].monitored = row.local.monitor
      BY <3>2
    <3>. QED
      BY <2>1, <2>4, <3>1, <3>2 DEF Advances
  <2>. QED
    BY <2>3, <2>4 DEF Reads
<1>. QED
  BY <1>1, <1>2, <1>3 DEF IInv

\* In every behaviour, pages and requests know what their versions promise.
THEOREM Safety == Spec => []IInv
<1>1. Init => IInv
  <2>. SUFFICES ASSUME Init PROVE IInv
    OBVIOUS
  <2>1. TypeOK /\ Deletions
    BY Requests DEF Init, TypeOK, Deletions, Idle
  <2>2. Pages /\ Reads
    BY Numbers DEF Init, Pages, Reads, Idle
  <2>. QED
    BY <2>1, <2>2 DEF IInv
<1>2. IInv /\ [Next]_vars => IInv'
  BY InvStep
<1>. QED
  BY <1>1, <1>2, PTL DEF Spec
-----------------------------------------------------------------------------
(* Properties *)

\* An edit that is stored replaces what its author was looking at: for any number
\* of tabs and administrators (the versions of update_local and
\* update_domain_as_admin).
THEOREM EditsBuildOnTheirPageHolds == Spec => EditsBuildOnTheirPage
<1>. DEFINE Builds == \A c \in Clients : Edits(c) /\ ~overtaken => row = page[c]
<1>1. IInv /\ [Next]_vars => [Builds]_vars
  <2>. SUFFICES ASSUME IInv, NEW c \in Clients, Edits(c), ~overtaken
                PROVE  row = page[c]
    OBVIOUS
  <2>1. Matches(c)
    BY DEF Edits, UpdateLocal, UpdateDomainAsAdmin
  <2>. QED
    BY <2>1 DEF IInv, Pages, Matches
<1>. QED
  BY <1>1, Safety, PTL DEF Spec, EditsBuildOnTheirPage

\* The owner's change queues an initial refresh exactly when it brings the domain
\* under monitoring (DomainService.create and update).
THEOREM RefreshFollowsSwitchHolds == Spec => RefreshFollowsSwitch
<1>. DEFINE Follows ==
       (\E c \in Owners : OwnerStep(c)) /\ ~overtaken =>
         (refreshes' # refreshes <=> ~Monitored(row) /\ Monitored(row'))
<1>1. IInv /\ [Next]_vars => [Follows]_vars
  <2>. SUFFICES ASSUME IInv, NEW c \in Owners, OwnerStep(c), ~overtaken
                PROVE  refreshes' # refreshes <=> ~Monitored(row) /\ Monitored(row')
    OBVIOUS
  <2>. c \in Clients
    BY DEF Clients
  <2>0. refreshes \in Nat /\ row \in Row \cup {NoRow} /\ request[c] \in Request
    BY DEF IInv, TypeOK
  <2>1. ASSUME NEW w \in BOOLEAN, Queue(w) PROVE refreshes' # refreshes <=> w
    BY <2>0, <2>1 DEF Queue
  <2>2. CASE GetDomain(c) \/ ListDomains(c) \/ UpdateDomain(c) \/ DeleteDomain(c)
    BY <2>2 DEF GetDomain, ListDomains, Shown, UpdateDomain, DeleteDomain
  <2>3. CASE CreateDomain(c)
    <3>1. PICK m \in {"on", "off"} :
             IF row = NoRow
             THEN UNCHANGED <<row, page, refreshes>>
             ELSE /\ ~row.live
                  /\ Write([row EXCEPT !.live = TRUE, !.local.monitor = m])
                  /\ Queue(m = "on")
      BY <2>3 DEF CreateDomain
    <3>2. CASE row = NoRow
      BY <3>1, <3>2
    <3>3. CASE row # NoRow
      <4>1. [row EXCEPT !.live = TRUE, !.local.monitor = m] \in Row
        BY <2>0, <3>3 DEF Row, Local
      <4>2. row' \in Row /\ row'.live /\ row'.local.monitor = m
        BY <2>0, <3>1, <3>3, <4>1, Writes DEF Row, Local
      <4>. QED
        BY <2>1, <3>1, <3>3, <4>2, Numbers DEF Monitored
    <3>. QED
      BY <3>2, <3>3
  <2>4. CASE InsertDomain(c)
    <3>1. CASE row = NoRow
      <4>1. row' # NoRow
        BY <2>4, <3>1, Numbers DEF InsertDomain
      <4>2. ~Monitored(row)
        BY <3>1 DEF Monitored
      <4>3. Monitored(row') <=> request[c].monitor = "on"
        BY <2>4, <3>1, <4>1 DEF InsertDomain, Monitored
      <4>4. refreshes' # refreshes <=> request[c].monitor = "on"
        BY <2>1, <2>4, <3>1 DEF InsertDomain
      <4>. QED
        BY <4>2, <4>3, <4>4
    <3>2. CASE row # NoRow
      BY <2>4, <3>2 DEF InsertDomain
    <3>. QED
      BY <3>1, <3>2
  <2>5. CASE UpdateLocal(c)
    <3>1. CASE Visible /\ Matches(c)
      <4>1. row \in Row /\ row.live /\ request[c].monitored = row.local.monitor
        BY <2>0, <2>5, <3>1 DEF UpdateLocal, Visible, Matches, IInv, Reads
      <4>. DEFINE edit == request[c].edit
      <4>2. edit \in Edit
        BY <2>0, <2>5, Updates DEF UpdateLocal
      <4>3. /\ row' \in Row
            /\ row'.live
            /\ row'.local = Patched(edit)
        BY <2>5, <3>1, <4>1, <4>2, Patches, Writes DEF UpdateLocal, Row
      <4>4. row'.local.monitor = "on" /\ row.local.monitor # "on"
              <=> SwitchesOn(edit, row.local.monitor)
        BY <4>1, <4>2, <4>3 DEF Patched, SwitchesOn, Edit, Row, Local
      <4>5. refreshes' # refreshes <=> SwitchesOn(edit, row.local.monitor)
        BY <2>1, <2>5, <3>1, <4>1 DEF UpdateLocal, SwitchesOn
      <4>6. Monitored(row) <=> row.local.monitor = "on"
        BY <4>1, Numbers DEF Monitored
      <4>7. Monitored(row') <=> row'.local.monitor = "on"
        BY <4>3, Numbers DEF Monitored
      <4>. QED
        BY <4>4, <4>5, <4>6, <4>7
    <3>2. CASE ~(Visible /\ Matches(c))
      BY <2>5, <3>2 DEF UpdateLocal
    <3>. QED
      BY <3>1, <3>2
  <2>6. CASE SoftDelete(c)
    <3>1. CASE Visible
      <4>1. row \in Row /\ [row EXCEPT !.live = FALSE] \in Row
        BY <2>0, <3>1 DEF Visible, Row
      <4>2. ~row'.live
        BY <2>6, <3>1, <4>1, Writes DEF SoftDelete, Row
      <4>. QED
        BY <2>6, <4>2 DEF SoftDelete, Monitored
    <3>. QED
      BY <2>6, <3>1 DEF SoftDelete
  <2>. QED
    BY <2>2, <2>3, <2>4, <2>5, <2>6 DEF OwnerStep
<1>. QED
  BY <1>1, Safety, PTL DEF Spec, RefreshFollowsSwitch
=============================================================================
