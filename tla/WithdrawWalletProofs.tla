------------------------ MODULE WithdrawWalletProofs ------------------------
(***************************************************************************)
(* Theorems about WithdrawWallet for every set of owners, requests,        *)
(* amounts, balances and every bound on decisions.                         *)
(***************************************************************************)
EXTENDS WithdrawWallet, SumTheorems

\* No wallet is overdrawn at the start.
LEMMA InitBalance ==
    ASSUME Init, NEW o \in Owners
    PROVE  balance[o] \in Nat
<1>1. balance[o] \in Balances \cup {0}
  BY DEF Init
<1>2. CASE balance[o] \in Balances
  BY <1>2, BalancesAssumption, Zenon
<1>3. CASE balance[o] = 0
  BY <1>3
<1> QED
  BY <1>1, <1>2, <1>3

LEMMA InitTyped == Init => TypeOK
<1> SUFFICES ASSUME Init PROVE TypeOK
  OBVIOUS
<1>1. balance \in [Owners -> Int]
  <2>1. \A o \in Owners : balance[o] \in Int
    BY InitBalance
  <2> QED
    BY <2>1 DEF Init
<1>2. /\ wallets \subseteq Owners
      /\ pending \in [Owners -> Int]
      /\ unchecked \subseteq Owners /\ irregular \subseteq Owners
  BY DEF Init, Owners
<1>3. /\ pc \in [Requests -> PCs]
      /\ status \in [Requests -> Statuses \cup {"none"}]
  BY DEF Init, PCs
<1> QED
  BY <1>1, <1>2, <1>3 DEF Init, TypeOK

\* A request names an owner and a positive amount.
LEMMA RequestFields ==
    ASSUME TypeOK, NEW r \in Requests
    PROVE  Owner(r) \in Owners /\ Amount(r) \in Nat \ {0}
  BY AmountsAssumption DEF TypeOK, Request, Owner, Amount

LEMMA ReturnedType ==
    ASSUME TypeOK, NEW r \in Requests, NEW decision \in Statuses
    PROVE  Returned(r, decision) \in Int
  BY RequestFields DEF Returned

LEMMA StepTyped == TypeOK /\ [Next]_vars => TypeOK'
<1> SUFFICES ASSUME TypeOK, [Next]_vars PROVE TypeOK'
  OBVIOUS
<1>1. ASSUME NEW r \in Requests, CanWithdraw(r) PROVE TypeOK'
  <2> USE <1>1, RequestFields
  <2>1. balance[Owner(r)] \in Int
    BY DEF TypeOK
  <2>2. pc' \in [Requests -> PCs] /\ seen' \in [Requests -> Int]
    BY <2>1 DEF TypeOK, CanWithdraw, PCs
  <2> QED
    BY <2>2 DEF TypeOK, CanWithdraw
<1>2. ASSUME NEW r \in Requests, CreateWithdraw(r) PROVE TypeOK'
  <2> USE <1>2, RequestFields
  <2>1. balance' \in [Owners -> Int] /\ pending' \in [Owners -> Int]
    BY DEF TypeOK, CreateWithdraw
  <2>2. /\ status' \in [Requests -> Statuses \cup {"none"}]
        /\ pc' \in [Requests -> PCs]
        /\ unchecked' \subseteq Owners
    BY DEF TypeOK, CreateWithdraw, PCs, Statuses
  <2> QED
    BY <2>1, <2>2 DEF TypeOK, CreateWithdraw
<1>3. ASSUME NEW r \in Requests, FailCreate(r) PROVE TypeOK'
  BY <1>3 DEF TypeOK, FailCreate, PCs
<1>4. ASSUME NEW r \in Requests, NEW decision \in Statuses,
             UpdateWithdraw(r, decision)
      PROVE  TypeOK'
  <2> USE <1>4, RequestFields, ReturnedType
  <2>1. balance' \in [Owners -> Int] /\ pending' \in [Owners -> Int]
    BY DEF TypeOK, UpdateWithdraw
  <2>2. /\ Selected(r) \subseteq Owners
        /\ irregular' \subseteq Owners
        /\ unchecked' \subseteq Owners
    BY DEF TypeOK, UpdateWithdraw, Selected, Owners
  <2>3. status' \in [Requests -> Statuses \cup {"none"}] /\ updates' \in Nat
    BY DEF TypeOK, UpdateWithdraw
  <2> QED
    BY <2>1, <2>2, <2>3 DEF TypeOK, UpdateWithdraw
<1>5. CASE UNCHANGED vars
  BY <1>5 DEF TypeOK, vars
<1> QED
  BY <1>1, <1>2, <1>3, <1>4, <1>5 DEF Next

\* Type correctness of the wallet tables, the withdrawals and the requests.
THEOREM TypeCorrect == Spec => []TypeOK
  BY InitTyped, StepTyped, PTL DEF Spec

-----------------------------------------------------------------------------
\* Every step that touches a wallet moves an amount between its two columns.
LEMMA StepConserves ==
    TypeOK /\ TotalConserved /\ [Next]_vars => TotalConserved'
<1> SUFFICES ASSUME TypeOK, TotalConserved, [Next]_vars PROVE TotalConserved'
  OBVIOUS
<1>1. ASSUME NEW r \in Requests, CreateWithdraw(r) PROVE TotalConserved'
  <2> SUFFICES ASSUME NEW o \in Owners
               PROVE  balance'[o] + pending'[o] = start'[o]
    BY DEF TotalConserved
  <2>1. balance[o] \in Int /\ pending[o] \in Int /\ Amount(r) \in Int
    BY RequestFields DEF TypeOK
  <2>2. balance[o] + pending[o] = start'[o]
    BY <1>1 DEF TotalConserved, CreateWithdraw
  <2>3. CASE o = Owner(r)
    BY <1>1, <2>1, <2>2, <2>3 DEF CreateWithdraw, TypeOK
  <2>4. CASE o # Owner(r)
    BY <1>1, <2>2, <2>4 DEF CreateWithdraw, TypeOK
  <2> QED
    BY <2>3, <2>4
<1>2. ASSUME NEW r \in Requests, NEW decision \in Statuses,
             UpdateWithdraw(r, decision)
      PROVE  TotalConserved'
  <2> SUFFICES ASSUME NEW o \in Owners
               PROVE  balance'[o] + pending'[o] = start'[o]
    BY DEF TotalConserved
  <2>1. /\ balance[o] \in Int /\ pending[o] \in Int
        /\ Returned(r, decision) \in Int
    BY ReturnedType DEF TypeOK
  <2>2. balance[o] + pending[o] = start'[o]
    BY <1>2 DEF TotalConserved, UpdateWithdraw
  <2>3. \/ balance'[o] = balance[o] /\ pending'[o] = pending[o]
        \/ /\ balance'[o] = balance[o] + Returned(r, decision)
           /\ pending'[o] = pending[o] - Returned(r, decision)
    BY <1>2 DEF UpdateWithdraw
  <2> QED
    BY <2>1, <2>2, <2>3
<1>3. CASE UNCHANGED <<balance, pending, start>>
  BY <1>3 DEF TotalConserved
<1> QED
  BY <1>1, <1>2, <1>3 DEF Next, vars, CanWithdraw, FailCreate

\* However withdrawals overlap and however often a decision is repeated, a
\* wallet's currentBalance and pendingWithdraw keep their sum.
THEOREM TotalIsConserved == Spec => []TotalConserved
<1>1. Init => TotalConserved
  <2> SUFFICES ASSUME Init, NEW o \in Owners
               PROVE  balance[o] + pending[o] = start[o]
    BY DEF TotalConserved
  <2>1. balance[o] \in Nat
    BY InitBalance
  <2>2. pending[o] = 0 /\ start[o] = balance[o]
    BY DEF Init
  <2> QED
    BY <2>1, <2>2
<1> QED
  BY <1>1, TypeCorrect, StepConserves, PTL DEF Spec

-----------------------------------------------------------------------------
\* What a request that passed canWithdraw has seen is enough for its amount:
\* the strengthening OverdrawnOnlyUnchecked needs to be inductive.
CheckedInvariant ==
    /\ \A r \in Requests : pc[r] = "checked" => seen[r] >= Amount(r)
    /\ OverdrawnOnlyUnchecked

LEMMA StepChecked ==
    TypeOK /\ CheckedInvariant /\ [Next]_vars => CheckedInvariant'
<1> SUFFICES ASSUME TypeOK, CheckedInvariant, [Next]_vars
             PROVE  CheckedInvariant'
  OBVIOUS
<1>1. ASSUME NEW r \in Requests, CanWithdraw(r) PROVE CheckedInvariant'
  BY <1>1, RequestFields
     DEF CheckedInvariant, CanWithdraw, OverdrawnOnlyUnchecked, TypeOK,
         Owner, Amount
<1>2. ASSUME NEW r \in Requests, CreateWithdraw(r) PROVE CheckedInvariant'
  <2> USE <1>2
  <2>1. /\ seen[r] >= Amount(r)
        /\ Owner(r) \in Owners /\ Amount(r) \in Nat
    BY RequestFields DEF CheckedInvariant, CreateWithdraw
  <2>2. OverdrawnOnlyUnchecked'
    <3> SUFFICES ASSUME NEW o \in Owners, o \notin unchecked'
                 PROVE  balance'[o] >= 0
      BY DEF OverdrawnOnlyUnchecked
    <3>1. CASE o # Owner(r)
      BY <3>1 DEF CheckedInvariant, OverdrawnOnlyUnchecked, CreateWithdraw,
                  TypeOK
    <3>2. CASE o = Owner(r)
      <4>1. balance[o] >= seen[r] /\ balance[o] \in Int /\ seen[r] \in Int
        BY <3>2 DEF CreateWithdraw, TypeOK
      <4>2. balance'[o] = balance[o] - Amount(r)
        BY <3>2 DEF CreateWithdraw, TypeOK
      <4> QED
        BY <2>1, <4>1, <4>2
    <3> QED
      BY <3>1, <3>2
  <2> QED
    BY <2>2 DEF CheckedInvariant, CreateWithdraw, TypeOK, Owner, Amount
<1>3. ASSUME NEW r \in Requests, FailCreate(r) PROVE CheckedInvariant'
  BY <1>3 DEF CheckedInvariant, FailCreate, OverdrawnOnlyUnchecked, TypeOK,
         Owner, Amount
<1>4. ASSUME NEW r \in Requests, NEW decision \in Statuses,
             UpdateWithdraw(r, decision)
      PROVE  CheckedInvariant'
  <2> USE <1>4
  <2>1. OverdrawnOnlyUnchecked'
    <3> SUFFICES ASSUME NEW o \in Owners, o \notin unchecked'
                 PROVE  balance'[o] >= 0
      BY DEF OverdrawnOnlyUnchecked
    <3>1. balance[o] \in Int /\ Amount(r) \in Nat
      BY RequestFields DEF TypeOK
    <3>2. balance[o] >= 0
      BY DEF CheckedInvariant, OverdrawnOnlyUnchecked, UpdateWithdraw
    <3> QED
      BY <3>1, <3>2 DEF UpdateWithdraw, Returned
  <2> QED
    BY <2>1 DEF CheckedInvariant, UpdateWithdraw, Owner, Amount
<1>5. CASE UNCHANGED vars
  BY <1>5 DEF CheckedInvariant, OverdrawnOnlyUnchecked, vars, Owner, Amount
<1> QED
  BY <1>1, <1>2, <1>3, <1>4, <1>5 DEF Next

LEMMA CheckedAlways == Spec => []CheckedInvariant
<1>1. Init => CheckedInvariant
  <2> SUFFICES ASSUME Init PROVE CheckedInvariant
    OBVIOUS
  <2>1. \A o \in Owners : balance[o] >= 0
    BY InitBalance
  <2> QED
    BY <2>1 DEF Init, CheckedInvariant, OverdrawnOnlyUnchecked
<1> QED
  BY <1>1, TypeCorrect, StepChecked, PTL DEF Spec

\* A wallet whose every withdrawal was checked against the balance it is taken
\* from is never overdrawn, for any number of requests and owners.
THEOREM CheckedNeverOverdraws == Spec => []OverdrawnOnlyUnchecked
  BY CheckedAlways, PTL DEF CheckedInvariant

-----------------------------------------------------------------------------
\* What PendingIsSumOfPending needs to be inductive.  A request has no row
\* before it commits, whoever gets that far has a wallet, and only finitely
\* many rows exist however many requests may come: the sum is over a finite
\* set.
Created == {r \in Requests : status[r] # "none"}

PendingInvariant ==
    /\ \A r \in Requests :
        /\ pc[r] # "created" => status[r] = "none"
        /\ pc[r] \in {"checked", "created"} => Owner(r) \in wallets
    /\ IsFiniteSet(Created)
    /\ PendingIsSumOfPending

AmountOf == [r \in Requests |-> Amount(r)]

\* The sum over an owner's PENDING withdrawals is one of finitely many integers.
LEMMA PendingFinite ==
    ASSUME TypeOK, IsFiniteSet(Created), NEW o
    PROVE  /\ IsFiniteSet(PendingOf(o))
           /\ \A r \in Requests : AmountOf[r] = Amount(r) /\ Amount(r) \in Int
           /\ PendingOf(o) \subseteq Requests
<1>1. PendingOf(o) \subseteq Created
  BY DEF PendingOf, Created
<1>2. IsFiniteSet(PendingOf(o))
  BY <1>1, FS_Subset
<1>3. \A r \in Requests : AmountOf[r] = Amount(r) /\ Amount(r) \in Int
  BY RequestFields DEF AmountOf
<1> QED
  BY <1>2, <1>3 DEF PendingOf

\* Who requests how much never changes, nor which wallets exist.
LEMMA RequestsFixed ==
    ASSUME [Next]_vars
    PROVE  /\ req' = req /\ wallets' = wallets
           /\ AmountOf' = AmountOf
           /\ \A r \in Requests : Owner(r)' = Owner(r)
<1>1. req' = req /\ wallets' = wallets
  BY DEF Next, vars, CanWithdraw, CreateWithdraw, FailCreate, UpdateWithdraw
<1> QED
  BY <1>1 DEF AmountOf, Amount, Owner

\* An owner keeps the equation when none of its columns and rows changes.
LEMMA PendingKept ==
    ASSUME PendingIsSumOfPending, [Next]_vars, NEW o \in Owners \ irregular,
           pending'[o] = pending[o], PendingOf(o)' = PendingOf(o)
    PROVE  pending'[o] = SumFunctionOnSet(AmountOf', PendingOf(o)')
  BY RequestsFixed DEF PendingIsSumOfPending, AmountOf

LEMMA StepPending ==
    TypeOK /\ PendingInvariant /\ [Next]_vars => PendingInvariant'
<1> SUFFICES ASSUME TypeOK, PendingInvariant, [Next]_vars
             PROVE  PendingInvariant'
  OBVIOUS
<1> USE RequestsFixed
<1>1. ASSUME UNCHANGED <<status, pending, irregular>>
      PROVE  UNCHANGED Created /\ PendingIsSumOfPending'
  <2>1. UNCHANGED Created
    BY <1>1 DEF Created
  <2>2. \A o \in Owners : PendingOf(o)' = PendingOf(o)
    BY <1>1 DEF PendingOf
  <2> QED
    BY <1>1, <2>1, <2>2 DEF PendingInvariant, PendingIsSumOfPending, AmountOf
<1>2. ASSUME NEW r \in Requests, CanWithdraw(r) PROVE PendingInvariant'
  <2>1. UNCHANGED Created /\ PendingIsSumOfPending'
    BY <1>1, <1>2 DEF CanWithdraw
  <2> QED
    BY <1>2, <2>1 DEF PendingInvariant, CanWithdraw, TypeOK
<1>3. ASSUME NEW r \in Requests, CreateWithdraw(r) PROVE PendingInvariant'
  <2> DEFINE own == Owner(r)
  <2>1. /\ pc[r] = "checked" /\ status[r] = "none" /\ own \in wallets
        /\ own \in Owners
        /\ status' = [status EXCEPT ![r] = "PENDING"]
        /\ pc' = [pc EXCEPT ![r] = "created"]
        /\ pending' = [pending EXCEPT ![own] = @ + Amount(r)]
        /\ irregular' = irregular
    BY <1>3, RequestFields DEF CreateWithdraw, PendingInvariant
  <2>2. IsFiniteSet(Created')
    <3>1. Created' = Created \cup {r}
      BY <2>1 DEF Created, TypeOK
    <3> QED
      BY <3>1, FS_AddElement DEF PendingInvariant
  <2>3. ASSUME NEW o \in Owners \ irregular
        PROVE  pending'[o] = SumFunctionOnSet(AmountOf', PendingOf(o)')
    <3>1. CASE o # own
      <4>1. PendingOf(o)' = PendingOf(o)
        BY <2>1, <3>1 DEF PendingOf, TypeOK
      <4>2. pending'[o] = pending[o]
        BY <2>1, <3>1 DEF TypeOK
      <4> QED
        BY <4>1, <4>2, PendingKept DEF PendingInvariant
    <3>2. CASE o = own
      <4>1. PendingOf(o)' = PendingOf(o) \cup {r} /\ r \notin PendingOf(o)
        BY <2>1, <3>2 DEF PendingOf, TypeOK
      <4>2. pending'[o] = pending[o] + Amount(r)
        BY <2>1, <3>2 DEF TypeOK
      <4>3. pending[o] = SumFunctionOnSet(AmountOf, PendingOf(o))
        BY DEF PendingInvariant, PendingIsSumOfPending, AmountOf
      <4>4. SumFunctionOnSet(AmountOf, PendingOf(o) \cup {r})
              = SumFunctionOnSet(AmountOf, PendingOf(o)) + AmountOf[r]
        <5>1. /\ IsFiniteSet(PendingOf(o)) /\ r \notin PendingOf(o)
              /\ \A q \in PendingOf(o) \cup {r} : AmountOf[q] \in Int
          BY <4>1, PendingFinite DEF PendingInvariant
        <5> HIDE DEF own
        <5> QED
          BY <5>1, SumAdd
      <4> QED
        BY <4>1, <4>2, <4>3, <4>4 DEF AmountOf
    <3> QED
      BY <3>1, <3>2
  <2>4. PendingIsSumOfPending'
    BY <2>1, <2>3 DEF PendingIsSumOfPending, AmountOf
  <2> QED
    BY <2>1, <2>2, <2>4 DEF PendingInvariant, TypeOK
<1>4. ASSUME NEW r \in Requests, FailCreate(r) PROVE PendingInvariant'
  <2>1. UNCHANGED Created /\ PendingIsSumOfPending'
    BY <1>1, <1>4 DEF FailCreate
  <2> QED
    BY <1>4, <2>1 DEF PendingInvariant, FailCreate, TypeOK
<1>5. ASSUME NEW r \in Requests, NEW decision \in Statuses,
             UpdateWithdraw(r, decision)
      PROVE  PendingInvariant'
  <2> DEFINE own == Owner(r)
  <2>1. /\ status[r] # "none" /\ own \in wallets /\ pc' = pc
        /\ own \in Selected(r)
        /\ status' = [status EXCEPT ![r] = decision]
    <3>1. status[r] # "none" /\ own \in wallets
      BY <1>5, RequestFields DEF UpdateWithdraw, PendingInvariant, TypeOK, PCs
    <3>2. own \in Selected(r)
      BY <3>1, RequestFields DEF Selected, Owners
    <3> QED
      BY <1>5, <3>1, <3>2 DEF UpdateWithdraw
  <2>2. Created' = Created
    BY <2>1 DEF Created, TypeOK, Statuses
  <2>3. ASSUME NEW o \in Owners, o \notin irregular'
        PROVE  pending'[o] = SumFunctionOnSet(AmountOf', PendingOf(o)')
    <3>1. o \notin irregular
      BY <1>5, <2>3 DEF UpdateWithdraw
    <3>2. CASE o \notin Selected(r)
      <4>1. PendingOf(o)' = PendingOf(o)
        BY <2>1, <3>2 DEF PendingOf, TypeOK
      <4>2. pending'[o] = pending[o]
        BY <1>5, <3>2 DEF UpdateWithdraw
      <4> QED
        BY <3>1, <4>1, <4>2, PendingKept DEF PendingInvariant
    <3>3. CASE o \in Selected(r)
      <4>1. o = own /\ decision = "DENIED" /\ status[r] = "PENDING"
        BY <1>5, <2>3, <3>3 DEF UpdateWithdraw
      <4>2. /\ pending'[o] = pending[o] - Amount(r)
            /\ pending[o] \in Int /\ Amount(r) \in Int
        BY <1>5, <3>3, <4>1, RequestFields DEF UpdateWithdraw, Returned, TypeOK
      <4>3. PendingOf(o)' = PendingOf(o) \ {r} /\ r \in PendingOf(o)
        BY <2>1, <4>1 DEF PendingOf, TypeOK
      <4>4. pending[o] = SumFunctionOnSet(AmountOf, PendingOf(o))
        BY <3>1 DEF PendingInvariant, PendingIsSumOfPending, AmountOf
      <4>5. SumFunctionOnSet(AmountOf, PendingOf(o))
              = AmountOf[r] + SumFunctionOnSet(AmountOf, PendingOf(o) \ {r})
        BY <4>3, PendingFinite, SumRemove DEF PendingInvariant
      <4>6. SumFunctionOnSet(AmountOf, PendingOf(o) \ {r}) \in Int
        <5>1. IsFiniteSet(PendingOf(o) \ {r})
          BY PendingFinite, FS_Subset DEF PendingInvariant
        <5> QED
          BY <5>1, PendingFinite, SumInt DEF PendingInvariant
      <4>7. AmountOf[r] = Amount(r)
        BY DEF AmountOf
      <4> QED
        BY <4>2, <4>3, <4>4, <4>5, <4>6, <4>7
    <3> QED
      BY <3>2, <3>3
  <2>4. PendingIsSumOfPending'
    BY <2>3 DEF PendingIsSumOfPending, AmountOf
  <2> QED
    BY <2>1, <2>2, <2>4 DEF PendingInvariant, TypeOK
<1>6. CASE UNCHANGED vars
  <2>1. UNCHANGED Created /\ PendingIsSumOfPending'
    BY <1>1, <1>6 DEF vars
  <2> QED
    BY <1>6, <2>1 DEF PendingInvariant, vars
<1> QED
  BY <1>2, <1>3, <1>4, <1>5, <1>6 DEF Next

\* However creates overlap, are rolled back or are denied, no amount is lost
\* or counted twice: pendingWithdraw is the sum of the PENDING withdrawals of
\* every wallet on which the administrator only ever denied, and for the first
\* time, its own.
THEOREM PendingIsTheSum == Spec => []PendingIsSumOfPending
<1>1. Init => PendingInvariant
  <2> SUFFICES ASSUME Init PROVE PendingInvariant
    OBVIOUS
  <2>1. Created = {}
    BY DEF Init, Created
  <2>2. ASSUME NEW o \in Owners
        PROVE  pending[o] = SumFunctionOnSet(AmountOf, PendingOf(o))
    <3>1. PendingOf(o) = {}
      BY DEF Init, PendingOf
    <3> QED
      BY <3>1, SumEmpty DEF Init
  <2> QED
    BY <2>1, <2>2, FS_EmptySet
       DEF Init, PendingInvariant, PendingIsSumOfPending, AmountOf
<1>2. PendingInvariant => PendingIsSumOfPending
  BY DEF PendingInvariant
<1> QED
  BY <1>1, <1>2, TypeCorrect, StepPending, PTL DEF Spec

=============================================================================
