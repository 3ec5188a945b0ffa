------------------------ MODULE EmailVerificationProofs ------------------------
(***************************************************************************)
(* Proofs about EmailVerification: a link works once, what is verified was  *)
(* proven or vouched for, and mail waits for the link.                      *)
(***************************************************************************)
EXTENDS EmailVerification, TLAPS

\* Nothing is pending unless verification was switched on before, and a request
\* that writes an address at once began while it was off, or removes it.
PendingIsAsked ==
    /\ user.pending # None => Enabled
    /\ \A r \in Request :
         /\ request[r].op = "begin" => Enabled /\ request[r].email # None
         /\ request[r].op = "direct" /\ request[r].email # None /\ ~raced => ~Enabled

\* The link a request has locked is as it found it, and nobody else has it.
LinksAreLocked ==
    \A r \in Request : request[r].op = "confirm" =>
        /\ request[r].link \in DOMAIN link
        /\ link[request[r].link].consumed # "used"
        /\ link[request[r].link].email = request[r].email
        /\ \A q \in Request :
             request[q].op = "confirm" /\ request[q].link = request[r].link => q = r

\* A link that worked is marked, and ends what was pending.
WinnersAreMarked ==
    /\ \A i \in DOMAIN opened :
         opened[i] <= 1 /\ (opened[i] = 1 => link[i].consumed = "used")
    /\ won <= 1 /\ (user.pending # None => won = 0)

IInv == /\ TypeOK /\ PendingIsAsked /\ LinksAreLocked /\ WinnersAreMarked
        /\ VerifiedIsProven /\ MailWaitsForProof

-----------------------------------------------------------------------------
(* Facts about single pieces of state *)

\* A request in its next step, the link aside.
LEMMA BecomeIsLocal ==
    ASSUME NEW op \in {"idle", "registered", "begin", "direct", "confirm"},
           NEW email \in MaybeAddress, NEW i \in 0..MaxLinks
    PROVE  [op |-> op, email |-> email, link |-> i] \in Local
  BY DEF Local

\* Requests keep their types.
LEMMA BecomeIsKept ==
    ASSUME request \in [Request -> Local], NEW r \in Request,
           NEW op \in {"idle", "registered", "begin", "direct"}, NEW email \in MaybeAddress,
           Become(r, op, email)
    PROVE  /\ request' \in [Request -> Local]
           /\ request'[r].op = op /\ request'[r].email = email
           /\ \A q \in Request : q # r => request'[q] = request[q]
<1>1. 0 \in 0..MaxLinks
  BY EmailAssumption
<1>2. [op |-> op, email |-> email, link |-> 0] \in Local
  BY <1>1, BecomeIsLocal
<1>. QED
  BY <1>2 DEF Become

\* The constants of the initial states have their types.
LEMMA IdleIsLocal == Idle \in Local /\ NoUser \in User
<1>1. 0 \in 0..MaxLinks
  BY EmailAssumption
<1>. QED
  BY <1>1 DEF Idle, Local, NoUser, User, MaybeAddress

-----------------------------------------------------------------------------
(* Initially *)

\* A new site, and an account of an older release.
LEMMA InitEstablishesIInv == Init => IInv
<1>. SUFFICES ASSUME Init PROVE IInv
  OBVIOUS
<1>1. request \in [Request -> Local] /\ \A r \in Request : request[r].op = "idle"
  BY IdleIsLocal DEF Init, Idle
<1>2. user \in User /\ ~user.verified
  BY IdleIsLocal DEF Init, NoUser, User, MaybeAddress
<1>3. /\ link \in Seq(Link) /\ Len(link) <= MaxLinks
      /\ opened \in Seq(Nat) /\ Len(opened) = Len(link)
      /\ \A i \in DOMAIN opened : opened[i] = 0
  <2>1. CASE link = <<>> /\ opened = <<>>
    BY <2>1, EmailAssumption
  <2>2. CASE \E email \in Address :
               /\ link = << [email |-> email, consumed |-> "replaced", age |-> "new"],
                            [email |-> email, consumed |-> "no", age |-> "new"] >>
               /\ opened = <<0, 0>>
    BY <2>2, EmailAssumption DEF Link
  <2>. QED
    BY <2>1, <2>2 DEF Init
<1>4. setting \in {"unset", "true"} /\ (user.pending # None => setting = "true")
  <2>1. CASE setting = "unset" /\ user = NoUser
    BY <2>1 DEF NoUser
  <2>2. CASE setting = "true"
    BY <2>2
  <2>. QED
    BY <2>1, <2>2 DEF Init
<1>5. TypeOK
  BY <1>1, <1>2, <1>3, <1>4 DEF Init, TypeOK, MaybeAddress
<1>6. PendingIsAsked /\ LinksAreLocked
  BY <1>1, <1>4 DEF PendingIsAsked, LinksAreLocked, Enabled
<1>7. WinnersAreMarked
  <2>1. \A i \in DOMAIN opened : opened[i] <= 1 /\ opened[i] # 1
    BY <1>3
  <2>2. won = 0
    BY DEF Init
  <2>. QED
    BY <2>1, <2>2 DEF WinnersAreMarked
<1>. QED
  BY <1>2, <1>5, <1>6, <1>7 DEF IInv, VerifiedIsProven, MailWaitsForProof

-----------------------------------------------------------------------------
(* Steps that leave the links alone *)

\* What such a step keeps of the links: a request locks none anew.
LEMMA LinksUntouched ==
    ASSUME IInv, UNCHANGED <<link, opened, won>>,
           user'.pending \in {None, user.pending},
           \A q \in Request : request'[q].op = "confirm" => request'[q] = request[q]
    PROVE  LinksAreLocked' /\ WinnersAreMarked'
<1>1. LinksAreLocked'
  BY DEF IInv, LinksAreLocked
<1>2. WinnersAreMarked'
  BY DEF IInv, WinnersAreMarked
<1>. QED
  BY <1>1, <1>2

\* Registration stores the account with its address, nothing pending.
LEMMA RegisterKeeps ==
    ASSUME IInv, NEW r \in Request, NEW email \in MaybeAddress, Register(r, email)
    PROVE  IInv'
<1>. USE DEF IInv
<1>1. /\ request' \in [Request -> Local]
      /\ request'[r].op = "registered"
      /\ \A q \in Request : q # r => request'[q] = request[q]
  BY BecomeIsKept DEF Register, TypeOK
<1>2. user' = [exists |-> TRUE, email |-> email, pending |-> None, verified |-> email # None]
  BY DEF Register
<1>3. TypeOK'
  BY <1>1, <1>2 DEF Register, TypeOK, User, MaybeAddress
<1>4. PendingIsAsked'
  BY <1>1, <1>2 DEF Register, PendingIsAsked, Enabled
<1>5. LinksAreLocked' /\ WinnersAreMarked'
  BY <1>1, <1>2, LinksUntouched DEF Register
<1>6. VerifiedIsProven' /\ MailWaitsForProof'
  BY <1>2 DEF Register, VerifiedIsProven, MailWaitsForProof
<1>. QED
  BY <1>3, <1>4, <1>5, <1>6

\* A request takes a step and nothing else happens.
LEMMA RequestSteps ==
    ASSUME IInv, NEW r \in Request, NEW email \in MaybeAddress,
           NEW op \in {"idle", "registered", "begin", "direct"},
           Become(r, op, email),
           UNCHANGED <<setting, user, link, opened, won, proven, vouched, registered, raced>>,
           op = "begin" => Enabled /\ email # None,
           op = "direct" /\ email # None => ~Enabled
    PROVE  IInv'
<1>. USE DEF IInv
<1>1. /\ request' \in [Request -> Local]
      /\ request'[r].op = op /\ request'[r].email = email
      /\ \A q \in Request : q # r => request'[q] = request[q]
  BY BecomeIsKept DEF TypeOK
<1>2. TypeOK'
  BY <1>1 DEF TypeOK
<1>3. PendingIsAsked'
  BY <1>1 DEF PendingIsAsked, Enabled
<1>4. LinksAreLocked' /\ WinnersAreMarked'
  BY <1>1, LinksUntouched
<1>5. VerifiedIsProven' /\ MailWaitsForProof'
  BY DEF VerifiedIsProven, MailWaitsForProof
<1>. QED
  BY <1>2, <1>3, <1>4, <1>5

\* An address is only written at once where none is pending, or to remove it.
LEMMA WriteAddressKeeps ==
    ASSUME IInv, NEW r \in Request, WriteAddress(r)
    PROVE  IInv'
<1>. USE DEF IInv
<1>. DEFINE email == request[r].email
<1>1. email \in MaybeAddress /\ request[r].op = "direct"
  BY DEF WriteAddress, TypeOK, Local
<1>2. /\ request' \in [Request -> Local]
      /\ request'[r].op = "idle"
      /\ \A q \in Request : q # r => request'[q] = request[q]
  BY BecomeIsKept DEF WriteAddress, TypeOK, MaybeAddress
<1>3. user' = [user EXCEPT !.email = email, !.verified = email # None]
  BY DEF WriteAddress
<1>4. user' \in User /\ user'.pending = user.pending /\ user'.email = email
      /\ user'.verified = (email # None)
  BY <1>1, <1>3 DEF TypeOK, User
<1>5. TypeOK'
  BY <1>1, <1>2, <1>4 DEF WriteAddress, TypeOK
<1>6. PendingIsAsked'
  BY <1>2, <1>4 DEF WriteAddress, PendingIsAsked, Enabled
<1>7. LinksAreLocked' /\ WinnersAreMarked'
  BY <1>2, <1>4, LinksUntouched DEF WriteAddress
<1>8. VerifiedIsProven'
  BY <1>4 DEF WriteAddress, VerifiedIsProven
<1>9. MailWaitsForProof'
  BY <1>1, <1>4 DEF WriteAddress, MailWaitsForProof, PendingIsAsked
<1>. QED
  BY <1>5, <1>6, <1>7, <1>8, <1>9

\* What an administrator sets is vouched for.
LEMMA UpdateUserAsAdminKeeps ==
    ASSUME IInv, NEW email \in MaybeAddress, UpdateUserAsAdmin(email)
    PROVE  IInv'
<1>. USE DEF IInv
<1>1. user' \in User /\ user'.pending = user.pending /\ user'.email = email
      /\ user'.verified = user.verified
  BY DEF UpdateUserAsAdmin, TypeOK, User
<1>2. TypeOK'
  BY <1>1 DEF UpdateUserAsAdmin, TypeOK
<1>3. PendingIsAsked'
  BY <1>1 DEF UpdateUserAsAdmin, PendingIsAsked, Enabled
<1>4. LinksAreLocked' /\ WinnersAreMarked'
  BY <1>1, LinksUntouched DEF UpdateUserAsAdmin
<1>5. VerifiedIsProven' /\ MailWaitsForProof'
  BY <1>1 DEF UpdateUserAsAdmin, VerifiedIsProven, MailWaitsForProof
<1>. QED
  BY <1>2, <1>3, <1>4, <1>5

\* Once verification is on it stays on; a request that the switch overtook is
\* remembered.
LEMMA SwitchKeeps ==
    ASSUME IInv, NEW value \in {"true", "false"}, Switch(value)
    PROVE  IInv'
<1>. USE DEF IInv
<1>1. TypeOK'
  BY DEF Switch, TypeOK
<1>2. PendingIsAsked'
  BY DEF Switch, PendingIsAsked, Enabled
<1>3. LinksAreLocked' /\ WinnersAreMarked'
  BY LinksUntouched DEF Switch
<1>4. VerifiedIsProven' /\ MailWaitsForProof'
  BY DEF Switch, VerifiedIsProven, MailWaitsForProof
<1>. QED
  BY <1>1, <1>2, <1>3, <1>4

-----------------------------------------------------------------------------
(* Steps on links *)

\* A link changes, by its place.
LEMMA LinkChanges ==
    ASSUME TypeOK, NEW i \in DOMAIN link, NEW l \in Link, link' = [link EXCEPT ![i] = l]
    PROVE  /\ link' \in Seq(Link) /\ Len(link') = Len(link) /\ DOMAIN link' = DOMAIN link
           /\ link'[i] = l /\ \A j \in DOMAIN link : j # i => link'[j] = link[j]
  BY DEF TypeOK

\* A new link comes last, and nobody has it.
LEMMA BeginKeeps ==
    ASSUME IInv, NEW r \in Request, Begin(r)
    PROVE  IInv'
<1>. USE DEF IInv
<1>. DEFINE email == request[r].email
            new == [email |-> email, consumed |-> "no", age |-> "new"]
<1>1. email \in Address /\ email # None /\ Enabled
  BY DEF Begin, TypeOK, Local, PendingIsAsked, MaybeAddress
<1>2. new \in Link
  BY <1>1 DEF Link
<1>3. /\ request' \in [Request -> Local]
      /\ request'[r].op = "idle"
      /\ \A q \in Request : q # r => request'[q] = request[q]
  BY BecomeIsKept DEF Begin, TypeOK, MaybeAddress
<1>4. user' = [user EXCEPT !.pending = email, !.verified = FALSE]
  BY DEF Begin, Pending
<1>5. user' \in User /\ user'.pending = email /\ ~user'.verified
  BY <1>1, <1>4 DEF TypeOK, User, MaybeAddress
<1>6. link' = Append(link, new) /\ opened' = Append(opened, 0) /\ won' = 0
  BY DEF Begin
<1>7. /\ link' \in Seq(Link) /\ Len(link') = Len(link) + 1
      /\ \A i \in DOMAIN link : i \in DOMAIN link' /\ link'[i] = link[i]
  BY <1>2, <1>6 DEF TypeOK
<1>8. /\ opened' \in Seq(Nat) /\ Len(opened') = Len(opened) + 1
      /\ \A i \in DOMAIN opened' :
           opened'[i] = 0 \/ (i \in DOMAIN opened /\ opened'[i] = opened[i])
  BY <1>6 DEF TypeOK
<1>9. TypeOK'
  <2>1. Len(link') <= MaxLinks
    BY <1>7, EmailAssumption DEF Begin, TypeOK
  <2>. QED
    BY <1>3, <1>5, <1>6, <1>7, <1>8, <2>1 DEF Begin, TypeOK
<1>10. PendingIsAsked'
  BY <1>1, <1>3 DEF Begin, PendingIsAsked, Enabled
<1>11. LinksAreLocked'
  BY <1>3, <1>7 DEF LinksAreLocked
<1>12. WinnersAreMarked'
  <2>1. DOMAIN opened = DOMAIN link
    BY DEF TypeOK
  <2>. QED
    BY <1>6, <1>7, <1>8, <2>1 DEF WinnersAreMarked
<1>13. VerifiedIsProven' /\ MailWaitsForProof'
  BY <1>5 DEF VerifiedIsProven, MailWaitsForProof
<1>. QED
  BY <1>9, <1>10, <1>11, <1>12, <1>13

\* A link is locked by one request, as it finds it.
LEMMA OpenKeeps ==
    ASSUME IInv, NEW r \in Request, NEW i \in DOMAIN link, Open(r, i)
    PROVE  IInv'
<1>. USE DEF IInv
<1>. DEFINE local == [op |-> "confirm", email |-> link[i].email, link |-> i]
<1>1. link[i] \in Link /\ i \in 0..MaxLinks
  BY EmailAssumption DEF TypeOK
<1>2. local \in Local
  BY <1>1, BecomeIsLocal DEF Link, MaybeAddress
<1>3. /\ request' \in [Request -> Local] /\ request'[r] = local
      /\ \A q \in Request : q # r => request'[q] = request[q]
  BY <1>2 DEF Open, TypeOK
<1>4. TypeOK'
  BY <1>3 DEF Open, TypeOK
<1>5. PendingIsAsked'
  BY <1>3 DEF Open, PendingIsAsked, Enabled
<1>6. LinksAreLocked'
  BY <1>3 DEF Open, Openable, Unlocked, LinksAreLocked
<1>7. WinnersAreMarked'
  BY DEF Open, WinnersAreMarked
<1>8. VerifiedIsProven' /\ MailWaitsForProof'
  BY DEF Open, VerifiedIsProven, MailWaitsForProof
<1>. QED
  BY <1>4, <1>5, <1>6, <1>7, <1>8

\* The link a request has locked works for the first time.
LEMMA ConfirmKeeps ==
    ASSUME IInv, NEW r \in Request, Confirm(r)
    PROVE  IInv'
<1>. USE DEF IInv
<1>. DEFINE i == request[r].link
            email == request[r].email
            used == [link[i] EXCEPT !.consumed = "used"]
<1>1. /\ i \in DOMAIN link /\ link[i].consumed # "used" /\ link[i].email = email
      /\ request[r].op = "confirm"
  BY DEF Confirm, LinksAreLocked
<1>2. link[i] \in Link
  BY <1>1 DEF TypeOK
<1>3. used \in Link /\ used.consumed = "used" /\ email \in Address
  BY <1>1, <1>2 DEF Link
<1>4. link' = [link EXCEPT ![i] = used]
  BY DEF Confirm
<1>5. /\ link' \in Seq(Link) /\ Len(link') = Len(link) /\ DOMAIN link' = DOMAIN link
      /\ link'[i] = used /\ \A j \in DOMAIN link : j # i => link'[j] = link[j]
  BY <1>1, <1>3, <1>4, LinkChanges
<1>6. /\ request' \in [Request -> Local] /\ request'[r].op = "idle"
      /\ \A q \in Request : q # r => request'[q] = request[q]
  BY BecomeIsKept DEF Confirm, TypeOK, MaybeAddress
<1>7. user' = [user EXCEPT !.email = email, !.pending = None, !.verified = TRUE]
  BY DEF Confirm
<1>8. user' \in User /\ user'.pending = None /\ user'.email = email
  BY <1>3, <1>7 DEF TypeOK, User, MaybeAddress
<1>9. DOMAIN opened = DOMAIN link /\ opened \in Seq(Nat)
  BY DEF TypeOK
<1>10. opened[i] = 0
  BY <1>1, <1>9 DEF WinnersAreMarked, TypeOK
<1>11. opened' = [opened EXCEPT ![i] = opened[i] + 1]
  BY DEF Confirm
<1>12. /\ opened' \in Seq(Nat) /\ Len(opened') = Len(opened) /\ DOMAIN opened' = DOMAIN opened
       /\ opened'[i] = 1 /\ \A j \in DOMAIN opened : j # i => opened'[j] = opened[j]
  BY <1>1, <1>9, <1>10, <1>11
<1>13. user.pending # None /\ won = 0 /\ won' = 1
  <2>1. user.pending = email /\ email # None
    BY <1>3, EmailAssumption DEF Confirm, StillPending
  <2>. QED
    BY <2>1 DEF WinnersAreMarked, Confirm
<1>14. TypeOK'
  BY <1>3, <1>5, <1>6, <1>8, <1>12, <1>13 DEF Confirm, TypeOK
<1>15. PendingIsAsked'
  BY <1>6, <1>8 DEF Confirm, PendingIsAsked, Enabled
<1>16. LinksAreLocked'
  <2>1. ASSUME NEW q \in Request, request'[q].op = "confirm"
        PROVE  q # r /\ request[q] = request'[q] /\ request[q].link # i
    BY <1>1, <1>6, <2>1 DEF LinksAreLocked
  <2>. QED
    BY <1>5, <1>6, <2>1 DEF LinksAreLocked
<1>17. WinnersAreMarked'
  <2>. HIDE DEF i, email, used
  <2>1. opened'[i] <= 1 /\ link'[i].consumed = "used"
    BY <1>3, <1>5, <1>12
  <2>2. ASSUME NEW j \in DOMAIN opened, j # i
        PROVE  opened'[j] <= 1 /\ (opened'[j] = 1 => link'[j].consumed = "used")
    BY <1>5, <1>9, <1>12, <2>2 DEF WinnersAreMarked
  <2>3. won' <= 1 /\ user'.pending = None
    BY <1>8, <1>13
  <2>. QED
    BY <1>12, <2>1, <2>2, <2>3 DEF WinnersAreMarked
<1>18. VerifiedIsProven' /\ MailWaitsForProof'
  BY <1>8 DEF Confirm, VerifiedIsProven, MailWaitsForProof
<1>. QED
  BY <1>14, <1>15, <1>16, <1>17, <1>18

\* Age is all that changes.
LEMMA GrowOldKeeps ==
    ASSUME IInv, NEW i \in DOMAIN link, GrowOld(i)
    PROVE  IInv'
<1>. USE DEF IInv
<1>. DEFINE older == [link[i] EXCEPT !.age = IF link[i].age = "new" THEN "valid" ELSE "expired"]
<1>1. link[i] \in Link
  BY DEF TypeOK
<1>2. /\ older \in Link /\ older.consumed = link[i].consumed
      /\ older.email = link[i].email
  BY <1>1 DEF Link
<1>3. link' = [link EXCEPT ![i] = older]
  BY DEF GrowOld
<1>4. /\ link' \in Seq(Link) /\ Len(link') = Len(link) /\ DOMAIN link' = DOMAIN link
      /\ link'[i] = older /\ \A j \in DOMAIN link : j # i => link'[j] = link[j]
  BY <1>2, <1>3, LinkChanges
<1>5. \A j \in DOMAIN link : link'[j].consumed = link[j].consumed
                             /\ link'[j].email = link[j].email
  BY <1>2, <1>4
<1>6. TypeOK'
  BY <1>4 DEF GrowOld, TypeOK
<1>7. PendingIsAsked' /\ VerifiedIsProven' /\ MailWaitsForProof'
  BY DEF GrowOld, PendingIsAsked, Enabled, VerifiedIsProven, MailWaitsForProof
<1>8. LinksAreLocked'
  BY <1>4, <1>5 DEF GrowOld, LinksAreLocked
<1>9. WinnersAreMarked'
  <2>1. DOMAIN opened = DOMAIN link
    BY DEF TypeOK
  <2>. QED
    BY <1>5, <2>1 DEF GrowOld, WinnersAreMarked
<1>. QED
  BY <1>6, <1>7, <1>8, <1>9

-----------------------------------------------------------------------------
(* The specification *)

\* Requests that only take a step: the address of a registration, the form of the
\* user, a link to be sent again, the end of a process.
LEMMA StepsKeep ==
    ASSUME IInv, NEW r \in Request,
           \/ FinishRegistration(r)
           \/ \E email \in MaybeAddress : UpdateMe(r, email)
           \/ Resend(r)
           \/ Abandon(r)
    PROVE  IInv'
<1>. USE DEF IInv
<1>a. None \in MaybeAddress /\ request[r].email \in MaybeAddress
      /\ user.pending \in MaybeAddress
  BY DEF MaybeAddress, TypeOK, Local, User
<1>b. \A email \in Allowed : email # None
  BY EmailAssumption
<1>1. CASE FinishRegistration(r)
  BY <1>1, <1>a, <1>b, RequestSteps DEF FinishRegistration
<1>2. ASSUME NEW email \in MaybeAddress, UpdateMe(r, email) PROVE IInv'
  BY <1>2, RequestSteps DEF UpdateMe
<1>3. CASE Resend(r)
  BY <1>3, <1>a, RequestSteps DEF Resend, PendingIsAsked
<1>4. CASE Abandon(r)
  BY <1>4, <1>a, RequestSteps DEF Abandon
<1>. QED
  BY <1>1, <1>2, <1>3, <1>4

\* Every step keeps the invariant.
LEMMA NextKeepsIInv == IInv /\ [Next]_vars => IInv'
<1>. SUFFICES ASSUME IInv, [Next]_vars PROVE IInv'
  OBVIOUS
<1>1. ASSUME NEW r \in Request, UserStep(r) PROVE IInv'
  BY <1>1, RegisterKeeps, StepsKeep, WriteAddressKeeps, BeginKeeps, OpenKeeps,
     ConfirmKeeps DEF UserStep
<1>2. CASE UNCHANGED vars
  BY <1>2 DEF vars, IInv, TypeOK, PendingIsAsked, LinksAreLocked, WinnersAreMarked,
              VerifiedIsProven, MailWaitsForProof, Enabled
<1>. QED
  BY <1>1, <1>2, UpdateUserAsAdminKeeps, SwitchKeeps, GrowOldKeeps DEF Next

\* The inductive invariant holds in every behaviour.
THEOREM Safety == Spec => []IInv
  BY InitEstablishesIInv, NextKeepsIInv, PTL DEF Spec

\* A link works once, and of several links for one pending address only the first
\* that is opened (confirm, under the lock of its row).
THEOREM LinksWorkOnceHolds == Spec => []LinksWorkOnce
<1>1. IInv => LinksWorkOnce
  BY DEF IInv, WinnersAreMarked, LinksWorkOnce
<1>. QED
  BY <1>1, Safety, PTL

\* An address counts as verified only when it was proven, set without being asked
\* for, or registered with.
THEOREM VerifiedIsProvenHolds == Spec => []VerifiedIsProven
<1>1. IInv => VerifiedIsProven
  BY DEF IInv
<1>. QED
  BY <1>1, Safety, PTL

\* Nothing counts as verified while an address waits for its link (claim_outbox).
THEOREM MailWaitsForProofHolds == Spec => []MailWaitsForProof
<1>1. IInv => MailWaitsForProof
  BY DEF IInv
<1>. QED
  BY <1>1, Safety, PTL
=============================================================================
