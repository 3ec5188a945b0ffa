------------------------- MODULE GlobalSettingsProofs -------------------------
(***************************************************************************)
(* Proofs about GlobalSettings: what version checks before an unconditional *)
(* write are worth while no two saves overlap.                              *)
(***************************************************************************)
EXTENDS GlobalSettings, TLAPS

\* A form of the same version as the row shows the row's value, and none is ahead.
Pages ==
    \A a \in Admin, k \in Key :
        /\ page[a][k].version <= row[k].version
        /\ page[a][k].version = row[k].version => page[a][k].value = row[k].value

\* The versions a save has read are the stored ones.
Reads ==
    \A a \in Admin : Writing(a) \/ request[a].op = "versions" => request[a].read = Versions

\* A save leaves a valid combination behind, and what is about to be applied,
\* or applied already, is one.
Policies ==
    /\ Stored \in ValidPolicy
    /\ \A p \in Process : policy[p] \in ValidPolicy
    /\ \A a \in Admin :
         /\ Writing(a) \/ request[a].op = "combination"
              => Combined(request[a].items) \in ValidPolicy
         /\ request[a].op = "apply" => request[a].loaded \in ValidPolicy

\* The form of a save whose versions were compared shows the stored ones.
Forms ==
    \A a \in Admin : request[a].op \in {"versions", "save"} =>
        \A k \in DOMAIN request[a].items : page[a][k].version = row[k].version

IInv == TypeOK /\ (~overlapped => Pages /\ Reads /\ Policies /\ Forms)

-----------------------------------------------------------------------------
(* Types *)

\* What a request names is some of the settings.
LEMMA ItemsAreSettings ==
    ASSUME NEW items \in Items
    PROVE  DOMAIN items \subseteq Key /\ \A k \in DOMAIN items : items[k] \in Value
  BY DEF Items

\* The stored settings are settings, and their versions numbers.
LEMMA StoredIsPolicy ==
    ASSUME TypeOK
    PROVE  Stored \in [Key -> Value] /\ Versions \in [Key -> Nat]
  BY DEF TypeOK, Stored, Versions, Row

\* A request that was given up or answered.
LEMMA IdleIsRequest == Idle \in RequestState
<1>1. [k \in {} |-> 0] \in [{} -> Value]
  OBVIOUS
<1>2. {} \in SUBSET Key
  OBVIOUS
<1>3. [k \in {} |-> 0] \in Items
  BY <1>1, <1>2 DEF Items
<1>4. Default \in [Key -> Value]
  BY SettingsAssumption
<1>. QED
  BY <1>3, <1>4 DEF Idle, RequestState

\* A request with another step or other loaded settings.
LEMMA RequestWith ==
    ASSUME NEW op \in {"idle", "versions", "combination", "save", "policy",
                       "reload", "apply"},
           NEW items \in Items, NEW read \in [Key -> Nat], NEW loaded \in [Key -> Value]
    PROVE  [op |-> op, items |-> items, read |-> read, loaded |-> loaded] \in RequestState
  BY DEF RequestState

\* Every step keeps the types.
LEMMA TypeIsKept == TypeOK /\ [Next]_vars => TypeOK'
<1>. SUFFICES ASSUME TypeOK, [Next]_vars PROVE TypeOK'
  OBVIOUS
<1>. USE DEF TypeOK
<1>a. Stored \in [Key -> Value] /\ Versions \in [Key -> Nat] /\ Default \in [Key -> Value]
  BY StoredIsPolicy, SettingsAssumption
<1>b. Idle \in RequestState
  BY IdleIsRequest
<1>1. ASSUME NEW a \in Admin, Load(a) PROVE TypeOK'
  BY <1>1 DEF Load
<1>c. ASSUME NEW a \in Admin, NEW op \in {"versions", "combination", "save", "policy"},
             NEW items \in Items, NEW read \in [Key -> Nat], Goes(a, op, items, read)
      PROVE  TypeOK'
  <2>1. [op |-> op, items |-> items, read |-> read, loaded |-> Default] \in RequestState
    BY <1>a, RequestWith
  <2>. QED
    BY <1>c, <2>1 DEF Goes
<1>d. ASSUME NEW a \in Admin, Refused(a) PROVE TypeOK'
  BY <1>b, <1>d DEF Refused
<1>e. \A a \in Admin : request[a].items \in Items /\ request[a].read \in [Key -> Nat]
  BY DEF RequestState
<1>2. ASSUME NEW a \in Admin, SaveAll(a) PROVE TypeOK'
  <2>1. PICK K \in Batch : \E items \in [K -> Value] : CompareVersions(a, items)
    BY <1>2 DEF SaveAll
  <2>2. PICK items \in [K -> Value] : CompareVersions(a, items)
    BY <2>1
  <2>3. items \in Items
    BY SettingsAssumption DEF Items
  <2>. QED
    BY <1>a, <1>c, <2>2, <2>3 DEF CompareVersions
<1>11. ASSUME NEW a \in Admin, ThenCheckCombination(a) PROVE TypeOK'
  BY <1>c, <1>d, <1>e, <1>11 DEF ThenCheckCombination
<1>12. ASSUME NEW a \in Admin, SaveOne(a) PROVE TypeOK'
  <2>1. PICK k \in Key : \E items \in [{k} -> Value] : CheckCombination(a, items)
    BY <1>12 DEF SaveOne
  <2>2. PICK items \in [{k} -> Value] : CheckCombination(a, items)
    BY <2>1
  <2>3. {k} \in SUBSET Key
    OBVIOUS
  <2>4. items \in Items
    BY <2>3 DEF Items
  <2>5. Idle.read \in [Key -> Nat]
    BY DEF Idle
  <2>. QED
    BY <1>c, <2>2, <2>4, <2>5 DEF CheckCombination
<1>13. ASSUME NEW a \in Admin, ThenCompareVersion(a) PROVE TypeOK'
  BY <1>a, <1>c, <1>d, <1>e, <1>13 DEF ThenCompareVersion
<1>3. ASSUME NEW a \in Admin, SaveRefreshPolicy(a) PROVE TypeOK'
  <2>1. PICK v \in Value : CheckRefreshPolicy(a, v)
    BY <1>3 DEF SaveRefreshPolicy
  <2>2. [k \in {RefreshKey} |-> v] \in [{RefreshKey} -> Value] /\ {RefreshKey} \in SUBSET Key
    BY SettingsAssumption
  <2>3. [k \in {RefreshKey} |-> v] \in Items
    BY <2>2 DEF Items
  <2>. QED
    BY <1>a, <1>c, <2>1, <2>3 DEF CheckRefreshPolicy
<1>4. ASSUME NEW a \in Admin, Commit(a) PROVE TypeOK'
  <2>1. /\ request[a].items \in Items
        /\ request[a].read \in [Key -> Nat]
    BY DEF RequestState
  <2>2. row' \in [Key -> Row]
    BY <1>4, <2>1, ItemsAreSettings DEF Commit, Row
  <2>3. [Idle EXCEPT !.op = "reload"] \in RequestState
    BY <1>b DEF RequestState
  <2>4. request' \in [Admin -> RequestState]
    BY <1>4, <1>b, <2>3 DEF Commit
  <2>. QED
    BY <1>4, <2>2, <2>4 DEF Commit
<1>5. ASSUME NEW a \in Admin, CommitFails(a) PROVE TypeOK'
  BY <1>5, <1>d DEF CommitFails
<1>6. ASSUME NEW a \in Admin, ReadPolicies(a) PROVE TypeOK'
  <2>1. [Idle EXCEPT !.op = "apply", !.loaded = Stored] \in RequestState
    BY <1>a, <1>b DEF RequestState
  <2>. QED
    BY <1>6, <2>1 DEF ReadPolicies
<1>7. ASSUME NEW a \in Admin, ApplyPolicies(a) PROVE TypeOK'
  <2>1. request[a].loaded \in [Key -> Value]
    BY DEF RequestState
  <2>. QED
    BY <1>7, <1>b, <2>1 DEF ApplyPolicies, Process
<1>8. ASSUME NEW p \in Loop, Reload(p) PROVE TypeOK'
  BY <1>8, <1>a DEF Reload, Process
<1>9. CASE RestartApi
  BY <1>9, <1>a, <1>b DEF RestartApi, Process
<1>10. CASE UNCHANGED vars
  BY <1>10 DEF vars
<1>. QED
  BY <1>1, <1>2, <1>3, <1>4, <1>5, <1>6, <1>7, <1>8, <1>9, <1>10, <1>11, <1>12, <1>13
  DEF Next

-----------------------------------------------------------------------------
(* What holds while no two saves overlap *)

\* Initially forms and processes show what is stored.
LEMMA InitEstablishesIInv == Init => IInv
<1>. SUFFICES ASSUME Init PROVE IInv
  OBVIOUS
<1>1. Default \in [Key -> Value] /\ Default \in ValidPolicy
  BY SettingsAssumption
<1>2. row \in [Key -> Row] /\ \A k \in Key : row[k].value = Default[k]
  BY <1>1 DEF Init, Row
<1>3. Stored = Default
  BY <1>1, <1>2 DEF Stored
<1>4. TypeOK
  BY <1>1, <1>2, <1>3, IdleIsRequest DEF Init, TypeOK
<1>5. \A a \in Admin : ~InProgress(a) /\ ~Writing(a) /\ request[a].op = "idle"
  BY DEF Init, Idle, InProgress, Writing
<1>6. Pages
  BY <1>2 DEF Init, Pages, Row
<1>7. Policies
  BY <1>1, <1>3, <1>5 DEF Init, Policies
<1>. QED
  BY <1>4, <1>5, <1>6, <1>7 DEF IInv, Reads, Forms

\* Whatever leaves the rows alone, and neither begins a save nor applies one,
\* keeps what is known; forms may be loaded and processes reloaded.
LEMMA NothingWritten ==
    ASSUME IInv, ~overlapped, TypeOK', row' = row,
           \A a \in Admin : page'[a] = page[a] \/ page'[a] = row,
           \A p \in Process : policy'[p] \in ValidPolicy,
           \A a \in Admin :
             \/ request'[a] = request[a]
             \/ request'[a].op \in {"idle", "reload"}
             \/ request'[a].op = "apply" /\ request'[a].loaded \in ValidPolicy
    PROVE  Pages' /\ Reads' /\ Policies' /\ Forms'
<1>. USE DEF IInv
<1>1. Stored' = Stored /\ Versions' = Versions /\ \A items : Combined(items)' = Combined(items)
  BY DEF Stored, Versions, Combined
<1>2. Pages'
  <2>. SUFFICES ASSUME NEW a \in Admin, NEW k \in Key
                PROVE  /\ page'[a][k].version <= row[k].version
                       /\ page'[a][k].version = row[k].version => page'[a][k].value = row[k].value
    BY DEF Pages
  <2>1. row[k].version \in Nat
    BY DEF TypeOK, Row
  <2>2. CASE page'[a] = page[a]
    BY <2>2 DEF Pages
  <2>3. CASE page'[a] = row
    BY <2>1, <2>3
  <2>. QED
    BY <2>2, <2>3
<1>3. \A a \in Admin : InProgress(a)' => InProgress(a) /\ request'[a] = request[a]
  BY DEF InProgress, Writing
<1>4. Reads'
  BY <1>1, <1>3 DEF Reads, InProgress, Writing
<1>5. Policies'
  <2>1. \A a \in Admin : (Writing(a) \/ request[a].op = "combination")'
                         => Combined(request[a].items)' \in ValidPolicy
    BY <1>1, <1>3 DEF Policies, InProgress, Writing, Combined
  <2>2. \A a \in Admin : request'[a].op = "apply" => request'[a].loaded \in ValidPolicy
    BY DEF Policies
  <2>3. Stored' \in ValidPolicy
    BY <1>1 DEF Policies
  <2>. QED
    BY <1>3, <2>1, <2>2, <2>3 DEF Policies, Combined
<1>6. Forms'
  <2>1. \A a \in Admin : request'[a].op \in {"versions", "save"} => request'[a] = request[a]
    OBVIOUS
  <2>2. \A a \in Admin : request[a].items \in Items
    BY DEF TypeOK, RequestState
  <2>3. \A a \in Admin : DOMAIN request[a].items \subseteq Key
    BY <2>2, ItemsAreSettings
  <2>. QED
    BY <2>1, <2>3 DEF Forms
<1>. QED
  BY <1>2, <1>4, <1>5, <1>6

\* A save goes on to what its reads so far have shown.
LEMMA GoesKeeps ==
    ASSUME IInv, ~overlapped, NEW a \in Admin, NEW items \in Items, NEW read,
           NEW op \in {"versions", "combination", "save", "policy"}, Goes(a, op, items, read),
           op # "combination" => read = Versions,
           op # "versions" => Combined(items) \in ValidPolicy,
           op \in {"versions", "save"} => \A k \in DOMAIN items : page[a][k].version = row[k].version
    PROVE  Pages' /\ Reads' /\ Policies' /\ Forms'
<1>. USE DEF IInv
<1>1. UNCHANGED <<row, page, policy>>
  BY DEF Goes
<1>2. Stored' = Stored /\ Versions' = Versions /\ Combined(items)' = Combined(items)
  BY <1>1 DEF Stored, Versions, Combined
<1>3. \A b \in Admin : b # a => request'[b] = request[b]
  BY DEF Goes, TypeOK
<1>4. /\ request'[a].op = op /\ request'[a].items = items /\ request'[a].read = read
  BY DEF Goes, TypeOK
<1>5. Pages'
  BY <1>1 DEF Pages
<1>6. Reads'
  BY <1>2, <1>3, <1>4 DEF Reads, Writing
<1>7. Policies'
  <2>1. Stored' \in ValidPolicy /\ \A p \in Process : policy'[p] \in ValidPolicy
    BY <1>1, <1>2 DEF Policies
  <2>2. ASSUME NEW b \in Admin, b # a
        PROVE  /\ (Writing(b) \/ request[b].op = "combination")'
                    => Combined(request[b].items)' \in ValidPolicy
               /\ request'[b].op = "apply" => request'[b].loaded \in ValidPolicy
    <3>1. request'[b] = request[b]
      BY <1>3, <2>2
    <3>2. Combined(request[b].items)' = Combined(request[b].items)
      BY <1>1, <3>1 DEF Combined
    <3>. QED
      BY <3>1, <3>2 DEF Policies, Writing
  <2>3. /\ (Writing(a) \/ request[a].op = "combination")'
             => Combined(request[a].items)' \in ValidPolicy
        /\ request'[a].op # "apply"
    <3>1. Combined(request[a].items)' = Combined(items)
      BY <1>1, <1>4 DEF Combined
    <3>. QED
      BY <1>4, <3>1 DEF Writing
  <2>. QED
    BY <2>1, <2>2, <2>3 DEF Policies
<1>8. Forms'
  BY <1>1, <1>3, <1>4 DEF Forms
<1>. QED
  BY <1>5, <1>6, <1>7, <1>8

\* A save that is refused, or fails.
LEMMA RefusedKeeps ==
    ASSUME IInv, ~overlapped, TypeOK', NEW a \in Admin, Refused(a)
    PROVE  Pages' /\ Reads' /\ Policies' /\ Forms'
<1>1. \A b \in Admin : request'[b] = request[b] \/ request'[b].op = "idle"
  BY DEF Refused, Idle, IInv, TypeOK
<1>2. \A p \in Process : policy'[p] \in ValidPolicy
  BY DEF Refused, IInv, Policies
<1>. QED
  BY <1>1, <1>2, NothingWritten DEF Refused

\* The older form needs no check of the combination: no constraint names its key.
LEMMA RefreshPolicyCombines ==
    ASSUME IInv, ~overlapped, NEW v \in Allowed[RefreshKey]
    PROVE  Combined([k \in {RefreshKey} |-> v]) \in ValidPolicy
<1>1. Stored \in ValidPolicy /\ Stored \in [Key -> Value]
  BY StoredIsPolicy DEF IInv, Policies
<1>2. [Stored EXCEPT ![RefreshKey] = v] \in ValidPolicy
  BY <1>1, RefreshKeyIsFree
<1>3. Combined([k \in {RefreshKey} |-> v]) = [Stored EXCEPT ![RefreshKey] = v]
  BY <1>1, SettingsAssumption DEF Combined, Stored
<1>. QED
  BY <1>2, <1>3

\* A commit that no other save overlaps stores the combination that was checked,
\* under versions no form has seen.
LEMMA CommitKeeps ==
    ASSUME IInv, NEW a \in Admin, Commit(a), TypeOK', ~overlapped'
    PROVE  Pages' /\ Reads' /\ Policies' /\ Forms'
<1>. USE DEF IInv
<1>1. ~overlapped /\ \A b \in Admin : b # a => ~InProgress(b)
  BY DEF Commit
<1>2. request[a].read = Versions
  BY <1>1 DEF Commit, Reads
<1>3. request[a].items \in Items
  BY DEF TypeOK, RequestState
<1>4. /\ \A b \in Admin : b # a => request'[b] = request[b]
      /\ request'[a].op \in {"idle", "reload"}
      /\ request'[a].op # "apply"
  BY DEF Commit, TypeOK, Idle
<1>5. \A b \in Admin : ~InProgress(b)'
  BY <1>1, <1>4 DEF InProgress, Writing
<1>6. row' = [k \in Key |->
                IF k \in DOMAIN request[a].items
                THEN [value |-> request[a].items[k], version |-> row[k].version + 1]
                ELSE row[k]]
  BY <1>2 DEF Commit, Versions
<1>7. Pages'
  BY <1>1, <1>6 DEF Pages, Commit, TypeOK, Row
<1>8. Stored' = Combined(request[a].items)
  BY <1>6 DEF Stored, Combined
<1>9. Policies'
  BY <1>1, <1>4, <1>5, <1>8 DEF Policies, Commit, InProgress
<1>. QED
  BY <1>5, <1>7, <1>9 DEF Reads, Forms, InProgress, Writing

\* Every step keeps the invariant.
LEMMA NextKeepsIInv == IInv /\ [Next]_vars => IInv'
<1>. SUFFICES ASSUME IInv, [Next]_vars, ~overlapped'
              PROVE  Pages' /\ Reads' /\ Policies' /\ Forms'
  BY TypeIsKept DEF IInv
<1>a. TypeOK'
  BY TypeIsKept DEF IInv
<1>b. ~overlapped
  BY DEF Next, vars, Load, SaveAll, CompareVersions, ThenCheckCombination, SaveOne,
         CheckCombination, ThenCompareVersion, Goes, Refused, SaveRefreshPolicy,
         CheckRefreshPolicy, Commit, CommitFails, ReadPolicies, ApplyPolicies, Reload,
         RestartApi
<1>c. /\ Stored \in ValidPolicy
      /\ \A p \in Process : policy[p] \in ValidPolicy
  BY <1>b DEF IInv, Policies
<1>d. request \in [Admin -> RequestState] /\ policy \in [Process -> [Key -> Value]]
      /\ page \in [Admin -> [Key -> Row]]
  BY DEF IInv, TypeOK
<1>1. ASSUME NEW a \in Admin, Load(a) PROVE Pages' /\ Reads' /\ Policies' /\ Forms'
  BY <1>1, <1>a, <1>b, <1>c, <1>d, NothingWritten DEF Load
<1>e. \A a \in Admin : request[a].items \in Items
  BY <1>d DEF RequestState
<1>2. ASSUME NEW a \in Admin, SaveAll(a) PROVE Pages' /\ Reads' /\ Policies' /\ Forms'
  <2>1. PICK K \in Batch : \E items \in [K -> Value] : CompareVersions(a, items)
    BY <1>2 DEF SaveAll
  <2>2. PICK items \in [K -> Value] : CompareVersions(a, items)
    BY <2>1
  <2>3. items \in Items
    BY SettingsAssumption DEF Items
  <2>. QED
    BY <1>b, <2>2, <2>3, GoesKeeps DEF CompareVersions, Current
<1>11. ASSUME NEW a \in Admin, ThenCheckCombination(a)
       PROVE  Pages' /\ Reads' /\ Policies' /\ Forms'
  <2>. DEFINE items == request[a].items
  <2>1. /\ request[a].read = Versions
        /\ \A k \in DOMAIN items : page[a][k].version = row[k].version
    BY <1>b, <1>11 DEF ThenCheckCombination, IInv, Reads, Forms
  <2>2. CASE Refused(a)
    BY <1>a, <1>b, <2>2, RefusedKeeps
  <2>3. CASE Combined(items) \in ValidPolicy /\ Goes(a, "save", items, request[a].read)
    BY <1>b, <1>e, <2>1, <2>3, GoesKeeps
  <2>. QED
    BY <1>11, <2>2, <2>3 DEF ThenCheckCombination
<1>12. ASSUME NEW a \in Admin, SaveOne(a) PROVE Pages' /\ Reads' /\ Policies' /\ Forms'
  <2>1. PICK k \in Key : \E items \in [{k} -> Value] : CheckCombination(a, items)
    BY <1>12 DEF SaveOne
  <2>2. PICK items \in [{k} -> Value] : CheckCombination(a, items)
    BY <2>1
  <2>3. {k} \in SUBSET Key
    OBVIOUS
  <2>4. items \in Items
    BY <2>3 DEF Items
  <2>. QED
    BY <1>b, <2>2, <2>4, GoesKeeps DEF CheckCombination
<1>13. ASSUME NEW a \in Admin, ThenCompareVersion(a)
       PROVE  Pages' /\ Reads' /\ Policies' /\ Forms'
  <2>. DEFINE items == request[a].items
  <2>1. Combined(items) \in ValidPolicy
    BY <1>b, <1>13 DEF ThenCompareVersion, IInv, Policies
  <2>2. CASE Refused(a)
    BY <1>a, <1>b, <2>2, RefusedKeeps
  <2>3. CASE Current(a, items) /\ Goes(a, "save", items, Versions)
    BY <1>b, <1>e, <2>1, <2>3, GoesKeeps DEF Current
  <2>. QED
    BY <1>13, <2>2, <2>3 DEF ThenCompareVersion
<1>3. ASSUME NEW a \in Admin, SaveRefreshPolicy(a) PROVE Pages' /\ Reads' /\ Policies' /\ Forms'
  <2>1. PICK v \in Value : CheckRefreshPolicy(a, v)
    BY <1>3 DEF SaveRefreshPolicy
  <2>2. [k \in {RefreshKey} |-> v] \in [{RefreshKey} -> Value] /\ {RefreshKey} \in SUBSET Key
    BY SettingsAssumption
  <2>3. [k \in {RefreshKey} |-> v] \in Items
    BY <2>2 DEF Items
  <2>4. Combined([k \in {RefreshKey} |-> v]) \in ValidPolicy
    BY <1>b, <2>1, RefreshPolicyCombines DEF CheckRefreshPolicy
  <2>. QED
    BY <1>b, <2>1, <2>3, <2>4, GoesKeeps DEF CheckRefreshPolicy
<1>4. ASSUME NEW a \in Admin, Commit(a) PROVE Pages' /\ Reads' /\ Policies' /\ Forms'
  BY <1>4, <1>a, CommitKeeps
<1>5. ASSUME NEW a \in Admin, CommitFails(a) PROVE Pages' /\ Reads' /\ Policies' /\ Forms'
  BY <1>5, <1>a, <1>b, RefusedKeeps DEF CommitFails
<1>6. ASSUME NEW a \in Admin, ReadPolicies(a) PROVE Pages' /\ Reads' /\ Policies' /\ Forms'
  <2>1. [Idle EXCEPT !.op = "apply", !.loaded = Stored].op = "apply"
        /\ [Idle EXCEPT !.op = "apply", !.loaded = Stored].loaded = Stored
    BY DEF Idle
  <2>. QED
    BY <1>6, <1>a, <1>b, <1>c, <1>d, <2>1, NothingWritten DEF ReadPolicies
<1>7. ASSUME NEW a \in Admin, ApplyPolicies(a) PROVE Pages' /\ Reads' /\ Policies' /\ Forms'
  <2>1. request[a].loaded \in ValidPolicy
    BY <1>7, <1>b DEF ApplyPolicies, IInv, Policies
  <2>. QED
    BY <1>7, <1>a, <1>b, <1>c, <1>d, <2>1, NothingWritten DEF ApplyPolicies, Idle, Process
<1>8. ASSUME NEW p \in Loop, Reload(p) PROVE Pages' /\ Reads' /\ Policies' /\ Forms'
  BY <1>8, <1>a, <1>b, <1>c, <1>d, NothingWritten DEF Reload, Process
<1>9. CASE RestartApi
  BY <1>9, <1>a, <1>b, <1>c, <1>d, NothingWritten DEF RestartApi, Process, Idle
<1>10. CASE UNCHANGED vars
  BY <1>10, <1>a, <1>b, <1>c, <1>d, NothingWritten DEF vars
<1>. QED
  BY <1>1, <1>2, <1>3, <1>4, <1>5, <1>6, <1>7, <1>8, <1>9, <1>10, <1>11, <1>12, <1>13
  DEF Next

\* In every behaviour: as long as no two saves overlap, forms and requests know
\* what their versions promise.
THEOREM Safety == Spec => []IInv
  BY InitEstablishesIInv, NextKeepsIInv, PTL DEF Spec

\* While no two saves overlap, no process ever works with a combination of settings
\* that the constraints exclude (valid_runtime_setting_combination).
THEOREM SettingsStayValidHolds == Spec => []SettingsStayValid
<1>1. IInv => SettingsStayValid
  BY DEF IInv, Policies, SettingsStayValid
<1>. QED
  BY <1>1, Safety, PTL

\* While no two saves overlap, a save replaces the values its form shows (If-Match
\* of updateGlobalSetting and updateGlobalSettings).
THEOREM NoBlindOverwriteHolds == Spec => []NoBlindOverwrite
<1>1. IInv => NoBlindOverwrite
  <2>. SUFFICES ASSUME IInv, ~overlapped, NEW a \in Admin, request[a].op = "save"
                PROVE  \A k \in DOMAIN request[a].items : page[a][k].value = row[k].value
    BY DEF NoBlindOverwrite, SeesWhatItReplaces
  <2>1. request[a].items \in Items
    BY DEF IInv, TypeOK, RequestState
  <2>2. DOMAIN request[a].items \subseteq Key
    BY <2>1, ItemsAreSettings
  <2>. QED
    BY <2>2 DEF IInv, Forms, Pages
<1>. QED
  BY <1>1, Safety, PTL
=============================================================================
