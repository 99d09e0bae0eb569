--------------------------- MODULE WithdrawWallet ---------------------------
(***************************************************************************)
(* The wallets of stores and delivery men, and withdrawals from them:      *)
(*   POST  /withdraw       WithdrawService.create, by the wallet's owner   *)
(*   PATCH /withdraw/:id   WithdrawService.update, by an administrator     *)
(*                                                                         *)
(* create runs in a transaction whose plain read of the balance is a       *)
(* snapshot (REPEATABLE READ, no lock): the read is one action, the        *)
(* updates up to the commit are another, since the row locks they hold     *)
(* hide everything in between.  update reads only columns that never       *)
(* change, so it is one action.                                            *)
(*                                                                         *)
(* DeliveryService.verifyDelivery, the only code that would create the     *)
(* wallet of a delivery man, never gets there: its first query selects a   *)
(* field Delivery that model Delivery does not have, and Prisma refuses    *)
(* it.  Such wallets are rows that exist from the start, or do not.        *)
(***************************************************************************)
EXTENDS Integers, Functions

CONSTANTS
    Stores,         \* stores; each was created together with its wallet
    Couriers,       \* delivery men
    Requests,       \* the withdrawals requested
    Amounts,        \* values of body.amount
    Balances,       \* values of currentBalance at the start
    MaxUpdates      \* bound: decisions of the administrator

Owners == Stores \cup Couriers

ASSUME OwnersAssumption == Stores \cap Couriers = {}

\* CreateWithdrawDTO: a number, @Min(1).
ASSUME AmountsAssumption == Amounts \subseteq Nat \ {0}

ASSUME BalancesAssumption == Balances \subseteq Nat

ASSUME BoundsAssumption == MaxUpdates \in Nat

VARIABLES
    wallets,    \* the owners that have a row in table wallet
    balance,    \* Wallet.currentBalance
    pending,    \* Wallet.pendingWithdraw
    pc,         \* the next step of each withdrawal request
    req,        \* who requests how much
    seen,       \* the balance each request's snapshot showed
    status,     \* Withdraw.status; "none" while there is no row
    updates,    \* decisions taken so far
    start,      \* auxiliary: currentBalance + pendingWithdraw at the start
    unchecked,  \* auxiliary: wallets decreased without a check that still held
    irregular   \* auxiliary: wallets touched by other than a first denial

vars == <<wallets, balance, pending, pc, req, seen, status, updates, start,
          unchecked, irregular>>

-----------------------------------------------------------------------------
Statuses == {"PENDING", "APPROVED", "DENIED"}

PCs == {"idle", "checked", "created", "rejected", "failed"}

Request == [owner : Owners, amount : Amounts]

\* A vendor's store is a branch, which createBranch creates with its wallet.
Init ==
    /\ wallets \in {Stores \cup rows : rows \in SUBSET Couriers}
    /\ balance \in [Owners -> Balances \cup {0}]
    /\ \A o \in Owners \ wallets : balance[o] = 0
    /\ pending = [o \in Owners |-> 0]
    /\ pc = [r \in Requests |-> "idle"]
    /\ req \in [Requests -> Request]
    /\ seen = [r \in Requests |-> 0]
    /\ status = [r \in Requests |-> "none"]
    /\ updates = 0
    /\ start = balance
    /\ unchecked = {}
    /\ irregular = {}

Owner(r) == req[r].owner

Amount(r) == req[r].amount

-----------------------------------------------------------------------------
(* WithdrawService.create.  The controller leaves the id of the other kind *)
(* of owner undefined, and Prisma drops an undefined condition: every      *)
(* query of create is about the owner's wallet alone.  (For a branch       *)
(* manager the store id is null, which findUnique refuses: nothing is      *)
(* written.)                                                               *)

\* Mutant: the amount is not compared with the balance.
CanWithdraw_Unchecked(r) ==
    /\ pc[r] = "idle"
    /\ Owner(r) \in wallets
    /\ pc' = [pc EXCEPT ![r] = "checked"]
    /\ seen' = [seen EXCEPT ![r] = balance[Owner(r)]]
    /\ UNCHANGED <<wallets, balance, pending, req, status, updates, start,
                   unchecked, irregular>>

\* canWithdraw; without a wallet row `store.currentBalance` throws.
CanWithdraw(r) ==
    /\ pc[r] = "idle"
    /\ IF Owner(r) \in wallets /\ balance[Owner(r)] >= Amount(r)
       THEN /\ pc' = [pc EXCEPT ![r] = "checked"]
            /\ seen' = [seen EXCEPT ![r] = balance[Owner(r)]]
       ELSE /\ pc' = [pc EXCEPT ![r] = "rejected"]
            /\ seen' = seen
    /\ UNCHANGED <<wallets, balance, pending, req, status, updates, start,
                   unchecked, irregular>>

\* Mutant: the status column has no default.
CreateWithdraw_NoStatus(r) ==
    LET o == Owner(r) IN
    /\ pc[r] = "checked"
    /\ balance' = [balance EXCEPT ![o] = @ - Amount(r)]
    /\ pending' = [pending EXCEPT ![o] = @ + Amount(r)]
    /\ status' = [status EXCEPT ![r] = "null"]
    /\ pc' = [pc EXCEPT ![r] = "created"]
    /\ UNCHANGED <<wallets, req, seen, updates, start, unchecked, irregular>>

\* decreaseBalance, withdraw.create and the commit.
CreateWithdraw(r) ==
    LET o == Owner(r) IN
    /\ pc[r] = "checked"
    /\ balance' = [balance EXCEPT ![o] = @ - Amount(r)]
    /\ pending' = [pending EXCEPT ![o] = @ + Amount(r)]
    /\ status' = [status EXCEPT ![r] = "PENDING"]
    /\ pc' = [pc EXCEPT ![r] = "created"]
    /\ unchecked' = IF balance[o] < seen[r] THEN unchecked \cup {o} ELSE unchecked
    /\ UNCHANGED <<wallets, req, seen, updates, start, irregular>>

\* Mutant: the withdraw row is created outside the transaction.
FailCreate_KeepsRow(r) ==
    /\ pc[r] = "checked"
    /\ pc' = [pc EXCEPT ![r] = "failed"]
    /\ status' = [status EXCEPT ![r] = "PENDING"]
    /\ UNCHANGED <<wallets, balance, pending, req, seen, updates, start,
                   unchecked, irregular>>

\* An error or a restart before the commit: the transaction is rolled back.
FailCreate(r) ==
    /\ pc[r] = "checked"
    /\ pc' = [pc EXCEPT ![r] = "failed"]
    /\ UNCHANGED <<wallets, balance, pending, req, seen, status, updates, start,
                   unchecked, irregular>>

-----------------------------------------------------------------------------
(* WithdrawService.update.                                                 *)

\* The wallets `OR: [{ storeId }, { deliveryManId }]` selects for a withdraw
\* row, where the id of the other kind is null: the owner's, and every wallet
\* whose column of the other kind is null.
Selected(r) ==
    wallets \cap (IF Owner(r) \in Stores THEN Stores ELSE Couriers)

\* IncreaseOrDecreaseCurrentBalance: what moves back to currentBalance.
Returned(r, decision) == IF decision # "APPROVED" THEN Amount(r) ELSE -Amount(r)

\* Mutant: only currentBalance is updated.
UpdateWithdraw_PendingKept(r, decision) ==
    LET back == Returned(r, decision) IN
    /\ status[r] # "none"
    /\ updates < MaxUpdates
    /\ updates' = updates + 1
    /\ status' = [status EXCEPT ![r] = decision]
    /\ balance' = [o \in Owners |->
                     IF o \in Selected(r) THEN balance[o] + back ELSE balance[o]]
    /\ irregular' = irregular \cup Selected(r)
    /\ UNCHANGED <<wallets, pending, pc, req, seen, start, unchecked>>

\* The administrator sets a status, whatever the status was before.
UpdateWithdraw(r, decision) ==
    LET back == Returned(r, decision) IN
    /\ status[r] # "none"
    /\ updates < MaxUpdates
    /\ updates' = updates + 1
    /\ status' = [status EXCEPT ![r] = decision]
    /\ balance' = [o \in Owners |->
                     IF o \in Selected(r) THEN balance[o] + back ELSE balance[o]]
    /\ pending' = [o \in Owners |->
                     IF o \in Selected(r) THEN pending[o] - back ELSE pending[o]]
    /\ unchecked' = IF decision = "APPROVED" THEN unchecked \cup Selected(r)
                                             ELSE unchecked
    /\ irregular' = irregular \cup
                      (IF decision = "DENIED" /\ status[r] = "PENDING"
                       THEN Selected(r) \ {Owner(r)} ELSE Selected(r))
    /\ UNCHANGED <<wallets, pc, req, seen, start>>

-----------------------------------------------------------------------------
Next ==
    \/ \E r \in Requests : CanWithdraw(r) \/ CreateWithdraw(r) \/ FailCreate(r)
    \/ \E r \in Requests, decision \in Statuses : UpdateWithdraw(r, decision)

Spec == Init /\ [][Next]_vars

-----------------------------------------------------------------------------
(* Properties                                                              *)

\* Type correctness.
TypeOK ==
    /\ wallets \subseteq Owners
    /\ balance \in [Owners -> Int]
    /\ pending \in [Owners -> Int]
    /\ pc \in [Requests -> PCs]
    /\ req \in [Requests -> Request]
    /\ seen \in [Requests -> Int]
    /\ status \in [Requests -> Statuses \cup {"none"}]
    /\ updates \in Nat
    /\ start \in [Owners -> Int]
    /\ unchecked \subseteq Owners
    /\ irregular \subseteq Owners

\* Whatever requests overlap and whatever the administrator decides, however
\* often, decreaseBalance and increaseBalance only move money between
\* currentBalance and pendingWithdraw: the sum of both never changes.
TotalConserved == \A o \in Owners : balance[o] + pending[o] = start[o]

\* A wallet is overdrawn only through a decrease whose check did not hold any
\* more: a withdrawal that another one overtook after canWithdraw, or a
\* decision APPROVED, which decreases again without a check.
OverdrawnOnlyUnchecked == \A o \in Owners \ unchecked : balance[o] >= 0

\* The PENDING withdrawals of an owner.
PendingOf(o) == {r \in Requests : Owner(r) = o /\ status[r] = "PENDING"}

\* While every decision on a wallet was a first denial of one of its own
\* withdrawals, pendingWithdraw is the sum of its PENDING withdrawals: no
\* overlap or rollback of create loses or duplicates an amount.
PendingIsSumOfPending ==
    \A o \in Owners \ irregular :
        pending[o] = SumFunctionOnSet([r \in Requests |-> Amount(r)], PendingOf(o))

\* What the comment in create announces, `!!!!! check balance`: nobody can
\* request more than the wallet holds.
BalanceNeverNegative == \A o \in Owners : balance[o] >= 0

=============================================================================
