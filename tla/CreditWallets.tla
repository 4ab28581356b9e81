---------------------------- MODULE CreditWallets ---------------------------
(***************************************************************************)
(* Credits of an organization allocated to its HR members: owners and        *)
(* managers grant and take back allocations, interviews are reserved and     *)
(* paid on behalf of the member responsible for them, are given to another    *)
(* member, and members are suspended, removed and invited again.              *)
(*                                                                         *)
(* Reserving, releasing, charging and adjusting lock the organization; a      *)
(* reassignment locks only its interview, so that others change wallets       *)
(* between its reads and its writes (ReadForReassignment, Reassign).          *)
(*                                                                         *)
(* Whether the organization has credits left is not tracked: they may suffice *)
(* or not whenever they are asked for. When a meeting may be reserved or must *)
(* be released is left to InterviewLifecycle, and who may manage members to    *)
(* Accounts. An adjustment moves one credit. A removed member is invited again *)
(* into his old role only: see README, section 5.                            *)
(***************************************************************************)
EXTENDS Integers, FiniteSets

CONSTANTS
    Members,      \* the people of one organization
    Owner,        \* the first of them, who stays
    Meetings,
    Adjustments,  \* idempotency keys of the adjustments asked for
    MaxVersion    \* bound of the model on the reservations of a meeting

ASSUME WalletAssumption == Owner \in Members /\ IsFiniteSet(Meetings) /\ MaxVersion \in Nat

VARIABLES
    membership,   \* role and status of each member
    allocation,   \* sum of each member's grants, reductions and suspensions
    ledger,       \* hr_wallet_transactions on meetings
    adjustment,   \* the adjustments asked for
    responsible,  \* the member responsible for each meeting
    reservation,  \* the credit reserved for it
    moving        \* the reassignment that holds its lock

walletVars == <<membership, allocation, ledger, adjustment, responsible, reservation, moving>>

Entries == [kind : {"reserved", "released", "movedFrom", "movedTo"}, meeting : Meetings,
            version : 0..MaxVersion, member : Members, amount : {-1, 1}]
Unmoved == [to |-> "none"]
NotAsked == [call |-> "none"]
Done == [call |-> "done"]
Stored == [status : {"none", "RESERVED", "CONSUMED", "RELEASED"}, member : Members, version : 0..MaxVersion]

\* The type invariant.
WalletTypeOK ==
    /\ allocation \in [Members -> Int] /\ ledger \subseteq Entries
    /\ membership \in [Members -> [role : {"none", "OWNER", "MANAGER", "HR"},
                                   status : {"none", "ACTIVE", "SUSPENDED", "REMOVED"}]]
    /\ adjustment \in [Adjustments -> [member : Members, amount : {-1, 1}] \union {NotAsked, Done}]
    /\ responsible \in [Meetings -> Members]
    /\ reservation \in [Meetings -> Stored]
    /\ moving \in [Meetings -> [to : Members, paid : BOOLEAN, pays : BOOLEAN] \union {Unmoved}]

WalletInit ==
    /\ ledger = {}
    /\ allocation = [m \in Members |-> 0]
    /\ membership = [m \in Members |-> IF m = Owner THEN [role |-> "OWNER", status |-> "ACTIVE"]
                                       ELSE [role |-> "none", status |-> "none"]]
    /\ adjustment = [k \in Adjustments |-> NotAsked]
    /\ responsible = [i \in Meetings |-> Owner]
    /\ reservation = [i \in Meetings |-> [status |-> "none", member |-> Owner, version |-> 0]]
    /\ moving = [i \in Meetings |-> Unmoved]

-----------------------------------------------------------------------------
\* An entry on a meeting is one credit, given or taken.
Sum(es) == Cardinality({e \in es : e.amount = 1}) - Cardinality({e \in es : e.amount = -1})
EntriesOf(m) == {e \in ledger : e.member = m}
Wallet(m) == allocation[m] + Sum(EntriesOf(m))
IsHR(m) == membership[m].role = "HR"
IsActive(m) == membership[m].status = "ACTIVE"
Reserved(i) == reservation[i].status = "RESERVED"
Unlocked(i) == moving[i] = Unmoved

\* The entry's key is its kind, its meeting and a version of the reservation; a
\* second entry under a key is dropped.
Entry(kind, i, version, m, amount) ==
    [kind |-> kind, meeting |-> i, version |-> version, member |-> m, amount |-> amount]
SameKey(d, e) == d.kind = e.kind /\ d.meeting = e.meeting /\ d.version = e.version
Posted(es) == ledger \union {e \in es : \A d \in ledger : ~SameKey(d, e)}

-----------------------------------------------------------------------------
\* Owner, manager and HR member are looked up before the organization is locked.
AskAdjustment(k, m, amount) ==
    /\ adjustment[k] = NotAsked /\ IsHR(m) /\ IsActive(m)
    /\ adjustment' = [adjustment EXCEPT ![k] = [member |-> m, amount |-> amount]]
    /\ UNCHANGED <<membership, allocation, ledger, responsible, reservation, moving>>

AdjustWallet(k) ==
    LET m == adjustment[k].member
        amount == adjustment[k].amount
    IN /\ adjustment[k] \notin {NotAsked, Done}
       /\ amount < 0 => Wallet(m) > 0
       /\ allocation' = [allocation EXCEPT ![m] = @ + amount]
       /\ adjustment' = [adjustment EXCEPT ![k] = Done]
       /\ UNCHANGED <<membership, ledger, responsible, reservation, moving>>

-----------------------------------------------------------------------------
ReserveMeeting(i) ==
    LET m == responsible[i]
        version == reservation[i].version + 1
    IN /\ Unlocked(i) /\ reservation[i].status \in {"none", "RELEASED"} /\ version <= MaxVersion
       /\ IsActive(m) /\ (IsHR(m) => Wallet(m) > 0)
       /\ reservation' = [reservation EXCEPT ![i] = [status |-> "RESERVED", member |-> m, version |-> version]]
       /\ ledger' = IF IsHR(m) THEN Posted({Entry("reserved", i, version, m, -1)}) ELSE ledger
       /\ UNCHANGED <<membership, allocation, adjustment, responsible, moving>>

\* Seeded fault: a meeting returns its allocation once and for all.
ReturnsOnce(i) ==
    LET m == reservation[i].member
    IN IF IsHR(m) THEN Posted({Entry("released", i, 0, m, 1)}) ELSE ledger

\* The trigger of a released reservation returns the allocation to the member who
\* paid, if he is an HR member now.
Returns(i) ==
    LET m == reservation[i].member
    IN IF IsHR(m) THEN Posted({Entry("released", i, reservation[i].version, m, 1)}) ELSE ledger

ReleaseMeeting(i) ==
    /\ Unlocked(i) /\ Reserved(i)
    /\ reservation' = [reservation EXCEPT ![i].status = "RELEASED"]
    /\ ledger' = Returns(i)
    /\ UNCHANGED <<membership, allocation, adjustment, responsible, moving>>

ConsumeMeeting(i) ==
    /\ Unlocked(i) /\ Reserved(i)
    /\ reservation' = [reservation EXCEPT ![i].status = "CONSUMED"]
    /\ UNCHANGED <<membership, allocation, ledger, adjustment, responsible, moving>>

-----------------------------------------------------------------------------
\* A reassignment reads the members, the reservation and the new member's wallet.
ReadForReassignment(i, m) ==
    /\ Unlocked(i) /\ IsActive(m) /\ reservation[i].status # "CONSUMED"
    /\ Reserved(i) /\ IsHR(m) => Wallet(m) > 0
    /\ Reserved(i) => reservation[i].version < MaxVersion
    /\ moving' = [moving EXCEPT ![i] =
            [to |-> m, paid |-> Reserved(i) /\ IsHR(responsible[i]), pays |-> Reserved(i) /\ IsHR(m)]]
    /\ UNCHANGED <<membership, allocation, ledger, adjustment, responsible, reservation>>

Reassign(i) ==
    LET r == reservation[i]
        m == moving[i].to
    IN /\ ~Unlocked(i)
       /\ responsible' = [responsible EXCEPT ![i] = m]
       /\ reservation' = IF Reserved(i) THEN [reservation EXCEPT ![i].member = m, ![i].version = @ + 1]
                                        ELSE reservation
       /\ ledger' = Posted(
            {e \in {Entry("movedFrom", i, r.version, responsible[i], 1)} : moving[i].paid}
            \union {e \in {Entry("movedTo", i, r.version + 1, m, -1)} : moving[i].pays})
       /\ moving' = [moving EXCEPT ![i] = Unmoved]
       /\ UNCHANGED <<membership, allocation, adjustment>>

-----------------------------------------------------------------------------
\* The trigger of a member's status takes back what is left of the allocation.
ManageWalletOwner(m, status) ==
    /\ m # Owner /\ membership[m].status \notin {"none", status}
    /\ membership' = [membership EXCEPT ![m].status = status]
    /\ allocation' = IF IsHR(m) /\ IsActive(m) /\ Wallet(m) > 0
                     THEN [allocation EXCEPT ![m] = @ - Wallet(m)] ELSE allocation
    /\ UNCHANGED <<ledger, adjustment, responsible, reservation, moving>>

\* An invitation is accepted, perhaps by a removed member.
Join(m, role) ==
    /\ membership[m] = [role |-> "none", status |-> "none"] \/ membership[m] = [role |-> role, status |-> "REMOVED"]
    /\ membership' = [membership EXCEPT ![m] = [role |-> role, status |-> "ACTIVE"]]
    /\ UNCHANGED <<allocation, ledger, adjustment, responsible, reservation, moving>>

WalletNext ==
    \/ \E m \in Members :
          \/ \E k \in Adjustments, amount \in {-1, 1} : AskAdjustment(k, m, amount)
          \/ \E status \in {"ACTIVE", "SUSPENDED", "REMOVED"} : ManageWalletOwner(m, status)
          \/ \E role \in {"MANAGER", "HR"} : Join(m, role)
    \/ \E k \in Adjustments : AdjustWallet(k)
    \/ \E i \in Meetings :
          \/ ReserveMeeting(i) \/ ReleaseMeeting(i) \/ ConsumeMeeting(i) \/ Reassign(i)
          \/ \E m \in Members : ReadForReassignment(i, m)

-----------------------------------------------------------------------------
\* The interviews whose credit m has spent or has reserved.
Charged(m) == {i \in Meetings : reservation[i].member = m /\ reservation[i].status \in {"RESERVED", "CONSUMED"}}

\* "Available HR balance equals grants minus reductions, reservations, and
\* consumption": what interviews have taken from a wallet is what its member's
\* reserved and paid interviews cost, however reservations, releases and
\* reassignments of several interviews overlap with adjustments and suspensions.
WalletsBalance ==
    \A m \in Members : Sum(EntriesOf(m)) = IF IsHR(m) THEN -Cardinality(Charged(m)) ELSE 0
=============================================================================
