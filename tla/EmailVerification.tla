-------------------------- MODULE EmailVerification --------------------------
(***************************************************************************)
(* The email address of one account: registration, changes by the user with *)
(* and without verification, links that are sent, sent again and opened,    *)
(* an administrator who edits the address or switches verification on and   *)
(* off.  A request reads the settings and the account in transactions of    *)
(* their own before the one that writes, so requests of the user interleave *)
(* between their steps.                                                      *)
(*                                                                         *)
(* Time is the age of a link: new within the resend cooldown, valid within  *)
(* its lifetime, expired after it.  Whether mail arrives is left open: a    *)
(* link may be opened or not.                                                *)
(***************************************************************************)
EXTENDS Integers, Sequences

CONSTANTS
    Address,         \* email addresses
    Allowed,         \* those whose domain is on the allowlist
    Request,         \* requests in progress at the same time
    None,            \* NULL
    DefaultEnabled,  \* email_verification_enabled of the environment
    MaxLinks         \* bound on the links created

ASSUME EmailAssumption ==
    /\ Allowed \subseteq Address
    /\ None \notin Address
    /\ DefaultEnabled \in BOOLEAN
    /\ MaxLinks \in Nat /\ MaxLinks >= 2   \* an older release has sent two links

VARIABLES
    setting,     \* the stored row of email_verification_enabled
    user,        \* email columns of app_user
    link,        \* email_verification_challenge, in order of creation
    request,     \* local state of each request
    opened,      \* history: how often each link was accepted
    won,         \* history: links accepted since the newest one was created
    proven,      \* history: addresses an accepted link was sent to
    vouched,     \* history: addresses an administrator set, or the user while
                 \* no verification was required
    registered,  \* history: the address the account was registered with
    raced        \* history: verification was switched on under a direct change

vars == <<setting, user, link, request, opened, won, proven, vouched, registered, raced>>

MaybeAddress == Address \cup {None}
User == [exists : BOOLEAN, email : MaybeAddress, pending : MaybeAddress,
         verified : BOOLEAN]
\* "replaced": consumed by an older release when it sent the next link.
Link == [email : Address, consumed : {"no", "used", "replaced"},
         age : {"new", "valid", "expired"}]

\* "registered": the account is stored, the settings are not read yet.  "begin":
\* a link will be created.  "direct": the address will be written at once.
\* "confirm": the row of a link is locked.
Local == [op : {"idle", "registered", "begin", "direct", "confirm"},
          email : MaybeAddress, link : 0..MaxLinks]
Idle == [op |-> "idle", email |-> None, link |-> 0]

Become(r, op, email) ==
    request' = [request EXCEPT ![r] = [op |-> op, email |-> email, link |-> 0]]

-----------------------------------------------------------------------------
(* Settings *)

\* bool() of the stored text, which is not empty, "false" included.
Enabled == setting # "unset" \/ DefaultEnabled

\* updateGlobalSetting
Switch(value) ==
    /\ setting' = value
    /\ raced' = (raced \/ \E r \in Request : request[r].op = "direct")
    /\ UNCHANGED <<user, link, request, opened, won, proven, vouched, registered>>

-----------------------------------------------------------------------------
(* Registration and changes of the address *)

\* AuthService.register commits the account with its address.
Register(r, email) ==
    /\ ~user.exists /\ request[r] = Idle
    /\ user' = [exists |-> TRUE, email |-> email, pending |-> None,
                verified |-> email # None]
    /\ Become(r, "registered", email)
    /\ registered' = email
    /\ vouched' = IF Enabled THEN vouched ELSE vouched \cup {email}
    /\ UNCHANGED <<setting, link, opened, won, proven, raced>>

\* The settings are read after the account is stored; a request that is refused
\* here leaves it behind.
FinishRegistration(r) ==
    LET email == request[r].email
    IN  /\ request[r].op = "registered"
        /\ IF Enabled /\ email \in Allowed
           THEN Become(r, "begin", email) ELSE Become(r, "idle", None)
        /\ UNCHANGED <<setting, user, link, opened, won, proven, vouched, registered, raced>>

\* updateCurrentUser reads the settings; a refused address changes nothing.
UpdateMe(r, email) ==
    /\ user.exists /\ request[r] = Idle
    /\ IF Enabled /\ email # None
       THEN email \in Allowed /\ Become(r, "begin", email)
       ELSE Become(r, "direct", email)
    /\ UNCHANGED <<setting, user, link, opened, won, proven, vouched, registered, raced>>

\* AuthService.update_profile
WriteAddress(r) ==
    LET email == request[r].email
    IN  /\ request[r].op = "direct"
        /\ user' = [user EXCEPT !.email = email, !.verified = email # None]
        /\ vouched' = vouched \cup {email}
        /\ Become(r, "idle", None)
        /\ UNCHANGED <<setting, link, opened, won, proven, registered, raced>>

\* resend_available
ResendAvailable ==
    \A i \in DOMAIN link : link[i].consumed = "no" => link[i].age # "new"

\* resendEmailVerification up to the link; allowlist and switch are not looked at.
Resend(r) ==
    /\ request[r] = Idle
    /\ user.pending # None
    /\ ResendAvailable
    /\ Become(r, "begin", user.pending)
    /\ UNCHANGED <<setting, user, link, opened, won, proven, vouched, registered, raced>>

\* Mutant: the address takes effect with the link that is sent.
Pending_AtOnce(email) == [user EXCEPT !.email = email, !.pending = email]

\* Mutant: the old address stays verified while the new one is pending.
Pending_StaysVerified(email) == [user EXCEPT !.pending = email]

Pending(email) == [user EXCEPT !.pending = email, !.verified = FALSE]

\* begin: the link and the pending address, one transaction.
Begin(r) ==
    LET email == request[r].email
    IN  /\ request[r].op = "begin"
        /\ Len(link) < MaxLinks
        /\ link' = Append(link, [email |-> email, consumed |-> "no", age |-> "new"])
        /\ user' = Pending(email)
        /\ opened' = Append(opened, 0)
        /\ won' = 0
        /\ Become(r, "idle", None)
        /\ UNCHANGED <<setting, proven, vouched, registered, raced>>

\* The process dies, or the site URL turns out not to be usable.
Abandon(r) ==
    /\ request[r] # Idle
    /\ Become(r, "idle", None)
    /\ UNCHANGED <<setting, user, link, opened, won, proven, vouched, registered, raced>>

\* updateUserAsAdmin
UpdateUserAsAdmin(email) ==
    /\ user.exists
    /\ user' = [user EXCEPT !.email = email]
    /\ vouched' = vouched \cup {email}
    /\ UNCHANGED <<setting, link, request, opened, won, proven, registered, raced>>

-----------------------------------------------------------------------------
(* Opening a link *)

\* A link an older release replaced is as good as a new one.
Openable(i) == link[i].age # "expired" /\ link[i].consumed # "used"

\* Mutant: the row is read without FOR UPDATE.
Unlocked_Always(i) == TRUE

\* SELECT ... FOR UPDATE of the link.
Unlocked(i) == \A r \in Request : request[r].op = "confirm" => request[r].link # i

\* confirm up to the lock of the user.
Open(r, i) ==
    /\ request[r] = Idle
    /\ Openable(i) /\ Unlocked(i)
    /\ request' = [request EXCEPT ![r] =
         [op |-> "confirm", email |-> link[i].email, link |-> i]]
    /\ UNCHANGED <<setting, user, link, opened, won, proven, vouched, registered, raced>>

StillPending(email) == user.pending = email

\* confirm from the lock of the user to the commit.
Confirm(r) ==
    LET i == request[r].link
        email == request[r].email
    IN  /\ request[r].op = "confirm"
        /\ StillPending(email)
        /\ user' = [user EXCEPT !.email = email, !.pending = None, !.verified = TRUE]
        /\ link' = [link EXCEPT ![i].consumed = "used"]
        /\ opened' = [opened EXCEPT ![i] = @ + 1]
        /\ won' = won + 1
        /\ proven' = proven \cup {email}
        /\ Become(r, "idle", None)
        /\ UNCHANGED <<setting, vouched, registered, raced>>

\* Links grow old in the order of their creation.
GrowOld(i) ==
    /\ link[i].age # "expired"
    /\ \A j \in 1..(i - 1) : link[j].age = "expired" \/ link[j].age # link[i].age
    /\ link' = [link EXCEPT ![i].age = IF @ = "new" THEN "valid" ELSE "expired"]
    /\ UNCHANGED <<setting, user, request, opened, won, proven, vouched, registered, raced>>

-----------------------------------------------------------------------------
NoUser == [exists |-> FALSE, email |-> None, pending |-> None, verified |-> FALSE]

\* A new site, or an account of an older release that has sent two links.
Init ==
    /\ request = [r \in Request |-> Idle]
    /\ won = 0 /\ proven = {} /\ vouched = {}
    /\ registered = None /\ raced = FALSE
    /\ \/ setting = "unset" /\ user = NoUser /\ link = <<>> /\ opened = <<>>
       \/ \E email \in Address :
            /\ setting = "true"
            /\ user = [NoUser EXCEPT !.exists = TRUE, !.pending = email]
            /\ link = << [email |-> email, consumed |-> "replaced", age |-> "new"],
                         [email |-> email, consumed |-> "no", age |-> "new"] >>
            /\ opened = <<0, 0>>

UserStep(r) ==
    \/ \E email \in MaybeAddress : Register(r, email) \/ UpdateMe(r, email)
    \/ FinishRegistration(r) \/ WriteAddress(r)
    \/ Resend(r) \/ Begin(r) \/ Abandon(r)
    \/ \E i \in DOMAIN link : Open(r, i)
    \/ Confirm(r)

Next ==
    \/ \E r \in Request : UserStep(r)
    \/ \E email \in MaybeAddress : UpdateUserAsAdmin(email)
    \/ \E value \in {"true", "false"} : Switch(value)
    \/ \E i \in DOMAIN link : GrowOld(i)

Spec == Init /\ [][Next]_vars

-----------------------------------------------------------------------------
\* Every variable keeps its type.
TypeOK ==
    /\ setting \in {"unset", "true", "false"}
    /\ user \in User
    /\ link \in Seq(Link) /\ Len(link) <= MaxLinks
    /\ request \in [Request -> Local]
    /\ opened \in Seq(Nat) /\ Len(opened) = Len(link)
    /\ won \in Nat
    /\ proven \subseteq Address /\ vouched \subseteq MaybeAddress
    /\ registered \in MaybeAddress /\ raced \in BOOLEAN

\* A link works once, however many requests open it at the same time, also when
\* its address becomes pending again; and of the links sent for one pending
\* address, the first that is opened ends the others until the user asks again.
LinksWorkOnce == won <= 1 /\ \A i \in DOMAIN opened : opened[i] <= 1

\* An address that counts as verified was proven by a link sent to it, or set
\* when that was not asked for, or is the one the account was registered with,
\* whatever requests of the user, the administrator and old links interleave.
VerifiedIsProven ==
    user.verified => user.email \in proven \cup vouched \cup {registered}

\* "Registering and changing an address take effect after the link was opened":
\* when no request is in progress, no address is verified without it.
RegistrationIsProven ==
    (\A r \in Request : request[r] = Idle) /\ user.verified =>
        user.email \in proven \cup vouched

\* No mail is delivered while an address waits for its link (claim_outbox looks at
\* email_verified_at), unless verification was switched on while a request was
\* about to write an address without it.
MailWaitsForProof == user.pending # None /\ ~raced => ~user.verified
=============================================================================
