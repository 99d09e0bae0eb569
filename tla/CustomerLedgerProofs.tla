------------------------ MODULE CustomerLedgerProofs ------------------------
(***************************************************************************)
(* Proofs about CustomerLedger for every set of requests and customers,    *)
(* every amount and every number of interleaved requests, and for every    *)
(* size of the connection pool (ConversionPool).                           *)
(***************************************************************************)
EXTENDS ConversionPool, SumTheorems

\* What the fields of a request can hold, whichever endpoint it calls.
LEMMA RequestFields ==
    ASSUME NEW q \in Request
    PROVE  /\ q.kind \in {"convert", "addFund", "fund"}
           /\ q.cust \in Customers
           /\ q.amount \in Int
  BY AmountsAssumption DEF Request

\* The ledger row a request inserts is a well-formed row.
LEMMA NewRowType ==
    ASSUME TypeOK, NEW r \in Requests
    PROVE  NewRow(r) \in Row /\ NewRow(r).at > 0
  <1>1. req[r] \in Request
    BY DEF TypeOK
  <1>2. req[r].amount \in Int /\ OrderPoints \in Int
    BY <1>1, RequestFields, AmountsAssumption
  <1>3. req[r].amount * OrderPoints \in Int
    BY <1>2
  <1>4. Credit(r) \in Int /\ Debit(r) \in Int
    BY <1>2, <1>3 DEF Credit, Debit
  <1>5. base[r] \in Int /\ now \in Nat \ {0}
    BY DEF TypeOK
  <1> QED
    BY <1>4, <1>5 DEF NewRow, Row

\* Every step keeps the types.
LEMMA StepTyped == TypeOK /\ [Next]_vars => TypeOK'
  <1> SUFFICES ASSUME TypeOK, [Next]_vars
               PROVE  TypeOK'
    OBVIOUS
  <1>0. ASSUME NEW r \in Requests
        PROVE  /\ req[r] \in Request
               /\ Cust(r) \in Customers
               /\ req[r].amount \in Int
               /\ points[Cust(r)] \in Int
               /\ wallet[Cust(r)] \in Int
               /\ rd[r].points \in Int
               /\ rd[r].wallet \in Int
    BY RequestFields DEF TypeOK, Cust
  <1>1. ASSUME NEW r \in Requests, Arrive(r)
        PROVE  TypeOK'
    BY <1>1 DEF Arrive, TypeOK, Go, At, PCs, Ended, db, history
  <1>2. ASSUME NEW r \in Requests, ConvertRead(r)
        PROVE  TypeOK'
    <2>1. pc' \in [Requests -> PCs]
      BY <1>2 DEF ConvertRead, TypeOK, Go, PCs, Ended
    <2>2. [points |-> points[Cust(r)], wallet |-> wallet[Cust(r)]]
            \in [points : Int, wallet : Int]
      BY <1>0
    <2>3. rd' \in [Requests -> [points : Int, wallet : Int]]
      BY <1>2, <2>2 DEF ConvertRead, TypeOK
    <2> QED
      BY <1>2, <2>1, <2>3 DEF ConvertRead, TypeOK, db, history
  <1>3. ASSUME NEW r \in Requests, ConvertDeduct(r)
        PROVE  TypeOK'
    BY <1>3, <1>0 DEF ConvertDeduct, TypeOK, Go, At, PCs, Ended
  <1>4. ASSUME NEW r \in Requests, ConvertLoyalty(r)
        PROVE  TypeOK'
    BY <1>4, <1>0 DEF ConvertLoyalty, history, TypeOK, Go, At, PCs, Ended, Loyalty
  <1>5. ASSUME NEW r \in Requests, ConvertSettle(r)
        PROVE  TypeOK'
    BY <1>5, <1>0 DEF ConvertSettle, TypeOK, Go, At, PCs, Ended
  <1>6. ASSUME NEW r \in Requests, ReadLast(r)
        PROVE  TypeOK'
    <2>1. \A q \in Requests : ledger[q].balance \in Int
      BY DEF TypeOK, Row
    <2> QED
      BY <1>6, <2>1 DEF ReadLast, TypeOK, Go, At, PCs, Ended, db, history, Newest,
          Committed
  <1>7. ASSUME NEW r \in Requests, InsertRow(r)
        PROVE  TypeOK'
    BY <1>7, NewRowType DEF InsertRow, history, TypeOK, Go, At, PCs, Ended
  <1>8. ASSUME NEW r \in Requests, AddFundCredit(r)
        PROVE  TypeOK'
    BY <1>8, <1>0 DEF AddFundCredit, TypeOK, Go, At, PCs, Ended
  <1>9. ASSUME NEW r \in Requests, AddFundVictim(r)
        PROVE  TypeOK'
    BY <1>9 DEF AddFundVictim, history, TypeOK, Go, At, PCs, Ended, Row, NoRow
  <1>10. ASSUME NEW r \in Requests, FundCreate(r)
        PROVE  TypeOK'
    BY <1>10 DEF FundCreate, history, TypeOK, Go, At, PCs, Ended
  <1>11. ASSUME NEW r \in Requests, Fail(r)
        PROVE  TypeOK'
    BY <1>11 DEF Fail, history, TypeOK, Go, At, PCs, Ended, Row, NoRow
  <1>12. CASE UNCHANGED vars
    BY <1>12 DEF vars, TypeOK
  <1> QED
    BY <1>1, <1>2, <1>3, <1>4, <1>5, <1>6, <1>7, <1>8, <1>9, <1>10, <1>11,
       <1>12 DEF Next, Step, AllAnswered

\* Type correctness of the model, for all values of the constants.
THEOREM TypeCorrect == Spec => []TypeOK
  <1>1. Init => TypeOK
    BY InitialAssumption DEF Init, TypeOK, PCs, Ended, Row, NoRow
  <1> QED
    BY <1>1, StepTyped, PTL DEF Spec

-----------------------------------------------------------------------------
(* Which endpoint a request at a step belongs to.                          *)

StepsFit ==
    \A r \in Requests :
        /\ pc[r] \in {"read", "deduct", "loyalty", "settle"}
              => req[r].kind = "convert"
        /\ pc[r] = "fund" => req[r].kind = "fund"
        /\ pc[r] = "credit" => req[r].kind = "addFund"

\* Each step is taken by a request of the endpoint whose code it models.
LEMMA StepsFitInvariant == Spec => []StepsFit
  <1>1. Init => StepsFit
    BY DEF Init, StepsFit
  <1>2. TypeOK /\ StepsFit /\ [Next]_vars => StepsFit'
    <2> SUFFICES ASSUME TypeOK, StepsFit, [Next]_vars
                 PROVE  StepsFit'
      OBVIOUS
    <2> USE DEF StepsFit, TypeOK, Go, At
    <2>0. \A r \in Requests : req[r].kind \in {"convert", "addFund", "fund"}
      BY RequestFields
    <2>1. ASSUME NEW r \in Requests, Arrive(r)
          PROVE  StepsFit'
      BY <2>1 DEF Arrive
    <2>2. ASSUME NEW r \in Requests, Step(r)
          PROVE  StepsFit'
      BY <2>2, <2>0 DEF Step, ConvertRead, ConvertDeduct, ConvertLoyalty,
         ConvertSettle, ReadLast, InsertRow, AddFundCredit, AddFundVictim,
         FundCreate
    <2>3. ASSUME NEW r \in Requests, Fail(r)
          PROVE  StepsFit'
      BY <2>3 DEF Fail, Ended
    <2>4. CASE UNCHANGED vars
      BY <2>4 DEF vars
    <2> QED
      BY <2>1, <2>2, <2>3, <2>4 DEF Next, AllAnswered
  <1> QED
    BY <1>1, <1>2, TypeCorrect, PTL DEF Spec

-----------------------------------------------------------------------------
(* Points never become negative.                                           *)

\* A conversion past its check, until its last write.
Converting(r) ==
    req[r].kind = "convert" /\ pc[r] \in {"deduct", "loyalty", "last", "insert", "settle"}

CheckHolds == \A r \in Requests : Converting(r) => req[r].amount <= rd[r].points

PointsIInv == CheckHolds /\ PointsNeverNegative

\* Every interleaving of conversions, of any integer amounts, keeps
\* earningPoints and the statement lines at zero or more.
THEOREM PointsSafe == Spec => []PointsNeverNegative
  <1>1. Init => PointsIInv
    BY InitialAssumption DEF Init, PointsIInv, CheckHolds, Converting, PointsNeverNegative
  <1>2. TypeOK /\ StepsFit /\ PointsIInv /\ [Next]_vars => PointsIInv'
    <2> SUFFICES ASSUME TypeOK, StepsFit, PointsIInv, [Next]_vars
                 PROVE  PointsIInv'
      OBVIOUS
    <2> USE DEF PointsIInv, CheckHolds, Converting, PointsNeverNegative, StepsFit,
                TypeOK, Go, At
    <2>0. \A r \in Requests : /\ req[r].amount \in Int
                              /\ Cust(r) \in Customers
                              /\ rd[r].points \in Int
                              /\ points[Cust(r)] \in Int
      BY RequestFields DEF Cust
    <2>1. ASSUME NEW r \in Requests, Arrive(r)
          PROVE  PointsIInv'
      BY <2>1 DEF Arrive, db
    <2>2. ASSUME NEW r \in Requests, ConvertRead(r)
          PROVE  PointsIInv'
      BY <2>2, <2>0 DEF ConvertRead, db
    <2>3. ASSUME NEW r \in Requests, ConvertDeduct(r)
          PROVE  PointsIInv'
      BY <2>3, <2>0 DEF ConvertDeduct
    <2>4. ASSUME NEW r \in Requests, ConvertLoyalty(r)
          PROVE  PointsIInv'
      BY <2>4, <2>0 DEF ConvertLoyalty
    <2>5. ASSUME NEW r \in Requests, ConvertSettle(r)
          PROVE  PointsIInv'
      BY <2>5, <2>0 DEF ConvertSettle
    <2>6. ASSUME NEW r \in Requests, ReadLast(r)
          PROVE  PointsIInv'
      BY <2>6 DEF ReadLast, db
    <2>7. ASSUME NEW r \in Requests, InsertRow(r)
          PROVE  PointsIInv'
      BY <2>7 DEF InsertRow
    <2>8. ASSUME NEW r \in Requests, AddFundCredit(r) \/ AddFundVictim(r)
          PROVE  PointsIInv'
      BY <2>8 DEF AddFundCredit, AddFundVictim
    <2>9. ASSUME NEW r \in Requests, FundCreate(r)
          PROVE  PointsIInv'
      BY <2>9 DEF FundCreate
    <2>10. ASSUME NEW r \in Requests, Fail(r)
          PROVE  PointsIInv'
      BY <2>10 DEF Fail
    <2>11. CASE UNCHANGED vars
      BY <2>11 DEF vars
    <2> QED
      BY <2>1, <2>2, <2>3, <2>4, <2>5, <2>6, <2>7, <2>8, <2>9, <2>10, <2>11
         DEF Next, Step, AllAnswered
  <1>3. PointsIInv => PointsNeverNegative
    BY DEF PointsIInv
  <1> QED
    BY <1>1, <1>2, <1>3, TypeCorrect, StepsFitInvariant, PTL DEF Spec

-----------------------------------------------------------------------------
(* What the accounts of a customer add up to.                              *)

Begun == {r \in Requests : pc[r] # "idle"}

\* A conversion enters the customer row with its first write and addFund with
\* its last, once each; only finitely many requests have begun, however many
\* may come, so the amounts that entered have a sum.
AppliedIInv ==
    /\ IsFiniteSet(Begun)
    /\ \A r \in applied :
        /\ req[r].kind = "addFund" => pc[r] = "done"
        /\ pc[r] \notin {"idle", "read", "deduct"}

\* Nobody changes what a request asks for.
LEMMA RequestsFixed ==
    ASSUME [Next]_vars
    PROVE  req' = req /\ \A r \in Requests : Cust(r)' = Cust(r)
  <1>1. req' = req
    BY DEF Next, vars, Step, AllAnswered, Arrive, ConvertRead, ConvertDeduct,
       ConvertLoyalty, ConvertSettle, ReadLast, InsertRow, AddFundCredit,
       AddFundVictim, FundCreate, Fail
  <1> QED
    BY <1>1 DEF Cust

\* A step begins at most one request and ends none of those that began.
LEMMA BegunStep ==
    ASSUME TypeOK, [Next]_vars
    PROVE  Begun' = Begun \/ \E r \in Requests : Begun' = Begun \cup {r}
  <1> USE DEF TypeOK, Go, At, Begun
  <1>1. ASSUME NEW r \in Requests, Arrive(r)
        PROVE  Begun' = Begun \cup {r}
    BY <1>1 DEF Arrive
  <1>2. ASSUME NEW r \in Requests, Step(r)
        PROVE  Begun' = Begun
    BY <1>2 DEF Step, ConvertRead, ConvertDeduct, ConvertLoyalty, ConvertSettle,
       ReadLast, InsertRow, AddFundCredit, AddFundVictim, FundCreate
  <1>3. ASSUME NEW r \in Requests, Fail(r)
        PROVE  Begun' = Begun
    BY <1>3 DEF Fail
  <1>4. CASE UNCHANGED vars
    BY <1>4 DEF vars
  <1> QED
    BY <1>1, <1>2, <1>3, <1>4 DEF Next, AllAnswered

LEMMA AppliedInvariant == Spec => []AppliedIInv
  <1>1. Init => AppliedIInv
    <2> SUFFICES ASSUME Init PROVE AppliedIInv
      OBVIOUS
    <2>1. Begun = {} /\ applied = {}
      BY DEF Init, Begun
    <2> QED
      BY <2>1, FS_EmptySet DEF AppliedIInv
  <1>2. TypeOK /\ StepsFit /\ AppliedIInv /\ [Next]_vars => AppliedIInv'
    <2> SUFFICES ASSUME TypeOK, StepsFit, AppliedIInv, [Next]_vars
                 PROVE  AppliedIInv'
      OBVIOUS
    <2>1. IsFiniteSet(Begun')
      BY BegunStep, FS_AddElement DEF AppliedIInv
    <2> DEFINE Late(a, p) == \A r \in a : /\ req[r].kind = "addFund" => p[r] = "done"
                                          /\ p[r] \notin {"idle", "read", "deduct"}
    <2>2. Late(applied, pc)
      BY DEF AppliedIInv
    <2> USE DEF TypeOK, StepsFit, Go, At
    <2>3. Late(applied', pc')
      <3>1. ASSUME NEW r \in Requests, Arrive(r)
            PROVE  Late(applied', pc')
        BY <2>2, <3>1 DEF Arrive, history
      <3>2. ASSUME NEW r \in Requests, ConvertRead(r) \/ ConvertLoyalty(r)
            PROVE  Late(applied', pc')
        BY <2>2, <3>2 DEF ConvertRead, ConvertLoyalty, history
      <3>3. ASSUME NEW r \in Requests, ConvertDeduct(r)
            PROVE  Late(applied', pc')
        BY <2>2, <3>3 DEF ConvertDeduct
      <3>4. ASSUME NEW r \in Requests, ConvertSettle(r) \/ ReadLast(r)
            PROVE  Late(applied', pc')
        BY <2>2, <3>4 DEF ConvertSettle, ReadLast, history
      <3>5. ASSUME NEW r \in Requests, InsertRow(r) \/ FundCreate(r)
            PROVE  Late(applied', pc')
        BY <2>2, <3>5 DEF InsertRow, FundCreate, history
      <3>6. ASSUME NEW r \in Requests, AddFundCredit(r)
            PROVE  Late(applied', pc')
        BY <2>2, <3>6 DEF AddFundCredit
      <3>7. ASSUME NEW r \in Requests, AddFundVictim(r) \/ Fail(r)
            PROVE  Late(applied', pc')
        BY <2>2, <3>7 DEF AddFundVictim, Fail, Ended, history
      <3>8. CASE UNCHANGED vars
        BY <2>2, <3>8 DEF vars
      <3> QED
        BY <3>1, <3>2, <3>3, <3>4, <3>5, <3>6, <3>7, <3>8
           DEF Next, Step, AllAnswered
    <2> QED
      BY <2>1, <2>3, RequestsFixed DEF AppliedIInv
  <1> QED
    BY <1>1, <1>2, TypeCorrect, StepsFitInvariant, PTL DEF Spec

AmountOf == [r \in Requests |-> req[r].amount]

\* What a customer's requests of one kind moved is a sum of finitely many
\* integers.
LEMMA MovedInt ==
    ASSUME TypeOK, AppliedIInv, NEW c, NEW kind
    PROVE  /\ IsFiniteSet(Applied(c, kind))
           /\ \A r \in Requests : AmountOf[r] = req[r].amount /\ AmountOf[r] \in Int
           /\ Moved(c, kind) = SumFunctionOnSet(AmountOf, Applied(c, kind))
           /\ Moved(c, kind) \in Int
  <1>1. Applied(c, kind) \subseteq Begun
    BY DEF Applied, AppliedIInv, Begun, TypeOK
  <1>2. IsFiniteSet(Applied(c, kind))
    BY <1>1, FS_Subset DEF AppliedIInv
  <1>3. \A r \in Requests : AmountOf[r] = req[r].amount /\ AmountOf[r] \in Int
    BY RequestFields DEF AmountOf, TypeOK
  <1>4. Moved(c, kind) = SumFunctionOnSet(AmountOf, Applied(c, kind))
    BY DEF Moved, Total, AmountOf
  <1>5. \A r \in Applied(c, kind) : AmountOf[r] \in Int
    BY <1>3 DEF Applied, TypeOK
  <1>6. SumFunctionOnSet(AmountOf, Applied(c, kind)) \in Int
    BY <1>2, <1>5, SumInt
  <1> QED
    BY <1>2, <1>3, <1>4, <1>6

\* It grows by the amount of a request that enters the customer row ...
LEMMA MovedGrows ==
    ASSUME TypeOK, AppliedIInv, req' = req, NEW r \in Requests, r \notin applied,
           applied' = applied \cup {r}, NEW c, NEW kind
    PROVE  Moved(c, kind)' = IF c = Cust(r) /\ kind = req[r].kind
                             THEN Moved(c, kind) + req[r].amount
                             ELSE Moved(c, kind)
  <1>1. Moved(c, kind)' = SumFunctionOnSet(AmountOf, Applied(c, kind)')
    BY DEF Moved, Total, AmountOf
  <1>2. CASE c = Cust(r) /\ kind = req[r].kind
    <2>1. Applied(c, kind)' = Applied(c, kind) \cup {r} /\ r \notin Applied(c, kind)
      BY <1>2 DEF Applied, Cust
    <2>2. /\ IsFiniteSet(Applied(c, kind))
          /\ \A q \in Applied(c, kind) \cup {r} : AmountOf[q] \in Int
      <3>1. IsFiniteSet(Applied(c, kind)) /\ \A q \in Requests : AmountOf[q] \in Int
        BY MovedInt
      <3>2. Applied(c, kind) \cup {r} \subseteq Requests
        BY DEF Applied, TypeOK
      <3> QED
        BY <3>1, <3>2
    <2>3. SumFunctionOnSet(AmountOf, Applied(c, kind) \cup {r})
            = SumFunctionOnSet(AmountOf, Applied(c, kind)) + AmountOf[r]
      BY <2>1, <2>2, SumAdd
    <2>4. AmountOf[r] = req[r].amount
      BY DEF AmountOf
    <2> QED
      BY <1>1, <1>2, <2>1, <2>3, <2>4, MovedInt
  <1>3. CASE ~(c = Cust(r) /\ kind = req[r].kind)
    <2>1. Applied(c, kind)' = Applied(c, kind)
      BY <1>3 DEF Applied, Cust
    <2> QED
      BY <1>1, <1>3, <2>1, MovedInt
  <1> QED
    BY <1>2, <1>3

\* ... which only ConvertDeduct and AddFundCredit do.
LEMMA DeductMoves ==
    ASSUME TypeOK, StepsFit, AppliedIInv, NEW r \in Requests, ConvertDeduct(r),
           NEW c
    PROVE  /\ Converted(c)' = IF c = Cust(r) THEN Converted(c) + req[r].amount
                                             ELSE Converted(c)
           /\ Credited(c)' = Credited(c)
  <1>1. req[r].kind = "convert" /\ r \notin applied
    BY DEF ConvertDeduct, StepsFit, AppliedIInv, At
  <1>2. req' = req /\ applied' = applied \cup {r}
    BY DEF ConvertDeduct
  <1> QED
    BY <1>1, <1>2, MovedGrows DEF Converted, Credited

LEMMA CreditMoves ==
    ASSUME TypeOK, StepsFit, AppliedIInv, NEW r \in Requests, AddFundCredit(r),
           NEW c
    PROVE  /\ Credited(c)' = IF c = Cust(r) THEN Credited(c) + req[r].amount
                                            ELSE Credited(c)
           /\ Converted(c)' = Converted(c)
  <1>1. req[r].kind = "addFund" /\ r \notin applied
    BY DEF AddFundCredit, StepsFit, AppliedIInv, At
  <1>2. req' = req /\ applied' = applied \cup {r}
    BY DEF AddFundCredit
  <1> QED
    BY <1>1, <1>2, MovedGrows DEF Converted, Credited

LEMMA MovedKept ==
    ASSUME UNCHANGED <<req, applied>>, NEW c
    PROVE  Converted(c)' = Converted(c) /\ Credited(c)' = Credited(c)
  BY DEF Converted, Credited, Moved, Total, Applied, Cust

LEMMA SumsInt ==
    ASSUME TypeOK, AppliedIInv, NEW c
    PROVE  Converted(c) \in Int /\ Credited(c) \in Int
  BY MovedInt DEF Converted, Credited

\* The customer row, and what the requests have done to it, change in three
\* actions only.
LEMMA AccountSteps ==
    ASSUME TypeOK, [Next]_vars
    PROVE  \/ \E r \in Requests : ConvertDeduct(r)
           \/ \E r \in Requests : ConvertSettle(r)
           \/ \E r \in Requests : AddFundCredit(r)
           \/ UNCHANGED <<req, points, wallet, applied, stale>>
  BY DEF Next, vars, Step, AllAnswered, Arrive, ConvertRead, ConvertLoyalty,
     ReadLast, InsertRow, AddFundVictim, FundCreate, Fail, db, history

Exact(c) ==
    /\ wallet[c] = InitWallet + Converted(c) + Credited(c)
    /\ points[c] = InitPoints - Converted(c)

\* As long as no stale write happened, wallet and points are the start and the
\* amounts of the conversions and funds that entered them, each exactly once,
\* whatever failed half-way.
THEOREM AccountsExact == Spec => []ExactUnlessStale
  <1>1. Init => ExactUnlessStale
    <2> SUFFICES ASSUME Init, NEW c \in Customers PROVE Exact(c)
      BY DEF ExactUnlessStale, Exact
    <2>1. Applied(c, "convert") = {} /\ Applied(c, "addFund") = {}
      BY DEF Init, Applied
    <2>2. Converted(c) = 0 /\ Credited(c) = 0
      BY <2>1, SumEmpty DEF Converted, Credited, Moved, Total
    <2> QED
      BY <2>2, InitialAssumption DEF Init, Exact
  <1>2. TypeOK /\ StepsFit /\ AppliedIInv /\ ExactUnlessStale /\ [Next]_vars
          => ExactUnlessStale'
    <2> SUFFICES ASSUME TypeOK, StepsFit, AppliedIInv, ExactUnlessStale, [Next]_vars,
                        NEW c \in Customers, ~stale'[c]
                 PROVE  Exact(c)'
      BY DEF ExactUnlessStale, Exact
    <2> USE InitialAssumption, SumsInt DEF Exact
    <2>0. \A r \in Requests : /\ req[r].amount \in Int
                              /\ Cust(r) \in Customers
                              /\ rd[r].points \in Int
                              /\ rd[r].wallet \in Int
      BY RequestFields DEF Cust, TypeOK
    <2>00. ~stale[c] => Exact(c)
      BY DEF ExactUnlessStale
    <2>1. ASSUME NEW r \in Requests, ConvertDeduct(r), c = Cust(r)
          PROVE  Exact(c)'
      <3>1. ~stale[c] /\ points[c] = rd[r].points /\ wallet[c] = rd[r].wallet
        BY <2>1, <2>0 DEF ConvertDeduct, TypeOK
      <3>2. /\ wallet'[c] = wallet[c] + req[r].amount
            /\ points'[c] = points[c] - req[r].amount
        BY <2>1, <2>0, <3>1 DEF ConvertDeduct, TypeOK
      <3>3. /\ Converted(c)' = Converted(c) + req[r].amount
            /\ Credited(c)' = Credited(c)
        BY <2>1, DeductMoves
      <3> QED
        BY <2>0, <2>00, <3>1, <3>2, <3>3
    <2>2. ASSUME NEW r \in Requests, ConvertSettle(r), c = Cust(r)
          PROVE  Exact(c)'
      <3>1. ~stale[c] /\ points[c] = rd[r].points - req[r].amount
        BY <2>2, <2>0 DEF ConvertSettle, TypeOK
      <3>2. points'[c] = points[c] /\ wallet' = wallet
        BY <2>2, <3>1 DEF ConvertSettle, TypeOK
      <3>3. Converted(c)' = Converted(c) /\ Credited(c)' = Credited(c)
        BY <2>2, MovedKept DEF ConvertSettle
      <3> QED
        BY <2>00, <3>1, <3>2, <3>3
    <2>3. ASSUME NEW r \in Requests, AddFundCredit(r), c = Cust(r)
          PROVE  Exact(c)'
      <3>1. ~stale[c] /\ wallet'[c] = wallet[c] + req[r].amount /\ points' = points
        BY <2>3 DEF AddFundCredit, TypeOK
      <3>2. /\ Credited(c)' = Credited(c) + req[r].amount
            /\ Converted(c)' = Converted(c)
        BY <2>3, CreditMoves
      <3> QED
        BY <2>0, <2>00, <3>1, <3>2
    <2>4. ASSUME NEW r \in Requests,
                 ConvertDeduct(r) \/ ConvertSettle(r) \/ AddFundCredit(r),
                 c # Cust(r)
          PROVE  Exact(c)'
      <3>1. stale'[c] = stale[c] /\ points'[c] = points[c] /\ wallet'[c] = wallet[c]
        BY <2>4 DEF ConvertDeduct, ConvertSettle, AddFundCredit, TypeOK
      <3>2. Converted(c)' = Converted(c) /\ Credited(c)' = Credited(c)
        BY <2>4, DeductMoves, CreditMoves, MovedKept DEF ConvertSettle
      <3> QED
        BY <2>00, <3>1, <3>2
    <2>5. CASE UNCHANGED <<req, points, wallet, applied, stale>>
      BY <2>00, <2>5, MovedKept
    <2> QED
      BY <2>1, <2>2, <2>3, <2>4, <2>5, AccountSteps
  <1> QED
    BY <1>1, <1>2, TypeCorrect, StepsFitInvariant, AppliedInvariant, PTL DEF Spec

\* What a conversion holds to write next is a sum of amounts that entered the row,
\* without its own before it enters.
Promised(r) ==
    Converting(r) =>
        /\ pc[r] = "deduct" =>
              CreditedBy(Cust(r), rd[r].wallet) /\ TakenBy(Cust(r), rd[r].points)
        /\ pc[r] # "deduct" => TakenBy(Cust(r), rd[r].points - req[r].amount)

CountedIInv == NothingCountedTwice /\ \A r \in Requests : Promised(r)

\* A sum of amounts that entered stays one ...
LEMMA CountedKept ==
    ASSUME req' = req, applied \subseteq applied', NEW c, NEW value
    PROVE  /\ CreditedBy(c, value) => CreditedBy(c, value)'
           /\ TakenBy(c, value) => TakenBy(c, value)'
  <1>1. /\ {r \in applied : Cust(r) = c} \subseteq {r \in applied : Cust(r) = c}'
        /\ Applied(c, "convert") \subseteq Applied(c, "convert")'
    BY DEF Cust, Applied
  <1>2. \A rs : Total(rs)' = Total(rs)
    BY DEF Total
  <1> QED
    BY <1>1, <1>2 DEF CreditedBy, TakenBy

\* ... and is one more amount larger when a request enters that was not counted.
LEMMA TotalAdd ==
    ASSUME TypeOK, AppliedIInv, NEW r \in Requests, r \notin applied,
           NEW rs \in SUBSET applied
    PROVE  Total(rs) \in Int /\ Total(rs \cup {r}) = Total(rs) + req[r].amount
  <1>1. IsFiniteSet(rs) /\ r \notin rs /\ rs \cup {r} \subseteq Requests
    <2>1. rs \subseteq Begun
      BY DEF AppliedIInv, Begun, TypeOK
    <2> QED
      BY <2>1, FS_Subset DEF AppliedIInv, TypeOK
  <1>2. \A q \in Requests : AmountOf[q] = req[q].amount /\ AmountOf[q] \in Int
    BY RequestFields DEF AmountOf, TypeOK
  <1>3. \A q \in rs \cup {r} : AmountOf[q] \in Int
    BY <1>1, <1>2
  <1>4. SumFunctionOnSet(AmountOf, rs) \in Int
    BY <1>1, <1>3, SumInt
  <1>5. SumFunctionOnSet(AmountOf, rs \cup {r}) = SumFunctionOnSet(AmountOf, rs) + AmountOf[r]
    BY <1>1, <1>3, SumAdd
  <1>6. Total(rs) = SumFunctionOnSet(AmountOf, rs)
        /\ Total(rs \cup {r}) = SumFunctionOnSet(AmountOf, rs \cup {r})
    BY DEF Total, AmountOf
  <1> QED
    BY <1>2, <1>4, <1>5, <1>6

LEMMA EntersOnce ==
    ASSUME TypeOK, AppliedIInv, NEW r \in Requests, r \notin applied,
           req' = req, applied' = applied \cup {r}, NEW value
    PROVE  /\ CreditedBy(Cust(r), value) =>
                 CreditedBy(Cust(r), value + req[r].amount)'
           /\ req[r].kind = "convert" /\ TakenBy(Cust(r), value) =>
                 TakenBy(Cust(r), value - req[r].amount)'
  <1>0. /\ req[r].amount \in Int /\ InitWallet \in Int /\ InitPoints \in Int
        /\ Cust(r)' = Cust(r) /\ req[r]' = req[r]
        /\ \A rs : Total(rs)' = Total(rs)
    BY RequestFields, InitialAssumption DEF TypeOK, Cust, Total
  <1>1. ASSUME CreditedBy(Cust(r), value)
        PROVE  CreditedBy(Cust(r), value + req[r].amount)'
    <2>1. PICK rs \in SUBSET {q \in applied : Cust(q) = Cust(r)} :
             value = InitWallet + Total(rs)
      BY <1>1 DEF CreditedBy
    <2>2. Total(rs) \in Int /\ Total(rs \cup {r}) = Total(rs) + req[r].amount
      BY TotalAdd
    <2>3. rs \cup {r} \in SUBSET {q \in applied : Cust(q) = Cust(r)}'
      BY <1>0 DEF Cust
    <2>4. value + req[r].amount = InitWallet + Total(rs \cup {r})
      BY <1>0, <2>1, <2>2
    <2> QED
      BY <1>0, <2>3, <2>4 DEF CreditedBy
  <1>2. ASSUME req[r].kind = "convert", TakenBy(Cust(r), value)
        PROVE  TakenBy(Cust(r), value - req[r].amount)'
    <2>1. PICK rs \in SUBSET Applied(Cust(r), "convert") :
             value = InitPoints - Total(rs)
      BY <1>2 DEF TakenBy
    <2>2. Total(rs) \in Int /\ Total(rs \cup {r}) = Total(rs) + req[r].amount
      BY TotalAdd DEF Applied
    <2>3. rs \cup {r} \in SUBSET Applied(Cust(r), "convert")'
      BY <1>0, <1>2 DEF Applied, Cust
    <2>4. value - req[r].amount = InitPoints - Total(rs \cup {r})
      BY <1>0, <2>1, <2>2
    <2> QED
      BY <1>0, <2>3, <2>4 DEF TakenBy
  <1> QED
    BY <1>1, <1>2

\* A step that reads and writes no customer row, and lets no conversion past its
\* check.
LEMMA StillPromised ==
    ASSUME req' = req, applied \subseteq applied', NEW q \in Requests, Promised(q),
           rd'[q] = rd[q],
           Converting(q)' => Converting(q) /\ (pc'[q] = "deduct" <=> pc[q] = "deduct")
    PROVE  Promised(q)'
  <1>1. Cust(q)' = Cust(q)
    BY DEF Cust
  <1> QED
    BY <1>1, CountedKept DEF Promised

\* However requests overlap and fail, and whatever integers are asked for, both
\* columns hold the start and some of the amounts that entered them, each once.
THEOREM EachAmountOnce == Spec => []NothingCountedTwice
  <1>1. Init => CountedIInv
    <2> SUFFICES ASSUME Init PROVE CountedIInv
      OBVIOUS
    <2>1. Total({}) = 0
      BY SumEmpty DEF Total
    <2>2. \A c \in Customers : CreditedBy(c, wallet[c]) /\ TakenBy(c, points[c])
      BY <2>1, InitialAssumption DEF Init, CreditedBy, TakenBy
    <2> QED
      BY <2>2 DEF Init, CountedIInv, NothingCountedTwice, Promised, Converting
  <1>2. TypeOK /\ StepsFit /\ AppliedIInv /\ CountedIInv /\ [Next]_vars => CountedIInv'
    <2> SUFFICES ASSUME TypeOK, StepsFit, AppliedIInv, CountedIInv, [Next]_vars
                 PROVE  CountedIInv'
      OBVIOUS
    <2>0. /\ req' = req /\ \A r \in Requests : Cust(r)' = Cust(r)
          /\ \A r \in Requests : Cust(r) \in Customers
          /\ \A c \in Customers : CreditedBy(c, wallet[c]) /\ TakenBy(c, points[c])
          /\ \A q \in Requests : Promised(q)
      BY RequestsFixed, RequestFields DEF CountedIInv, NothingCountedTwice, Cust, TypeOK
    <2>1. ASSUME NEW r \in Requests, ConvertRead(r) PROVE CountedIInv'
      <3>1. /\ UNCHANGED <<req, points, wallet, applied>>
            /\ \A q \in Requests \ {r} : pc'[q] = pc[q] /\ rd'[q] = rd[q]
            /\ pc'[r] \in {"deduct", "rejected"}
            /\ pc'[r] = "deduct" => /\ rd'[r].points = points[Cust(r)]
                                    /\ rd'[r].wallet = wallet[Cust(r)]
        BY <2>1 DEF ConvertRead, db, history, Go, At, TypeOK
      <3>2. NothingCountedTwice'
        BY <2>0, <3>1, CountedKept DEF NothingCountedTwice
      <3>3. Promised(r)'
        BY <2>0, <3>1, CountedKept DEF Promised, Converting
      <3>4. ASSUME NEW q \in Requests \ {r} PROVE Promised(q)'
        <4>1. Converting(q)' => Converting(q) /\ (pc'[q] = "deduct" <=> pc[q] = "deduct")
          BY <3>1 DEF Converting
        <4> QED
          BY <2>0, <3>1, <4>1, StillPromised
      <3> QED
        BY <3>2, <3>3, <3>4 DEF CountedIInv
    <2>2. ASSUME NEW r \in Requests, ConvertDeduct(r) PROVE CountedIInv'
      <3>1. /\ r \notin applied /\ req[r].kind = "convert" /\ Converting(r)
            /\ pc[r] = "deduct" /\ applied' = applied \cup {r} /\ rd' = rd
            /\ pc' = [pc EXCEPT ![r] = "loyalty"]
            /\ points' = [points EXCEPT ![Cust(r)] = rd[r].points - req[r].amount]
            /\ wallet' = [wallet EXCEPT ![Cust(r)] = rd[r].wallet + req[r].amount]
        BY <2>2 DEF ConvertDeduct, StepsFit, AppliedIInv, Converting, At, Go
      <3>2. CreditedBy(Cust(r), rd[r].wallet) /\ TakenBy(Cust(r), rd[r].points)
        BY <2>0, <3>1 DEF Promised
      <3>3. /\ CreditedBy(Cust(r), rd[r].wallet + req[r].amount)'
            /\ TakenBy(Cust(r), rd[r].points - req[r].amount)'
        BY <2>0, <3>1, <3>2, EntersOnce
      <3>4. ASSUME NEW c \in Customers
            PROVE  CreditedBy(c, wallet[c])' /\ TakenBy(c, points[c])'
        <4>1. CASE c = Cust(r)
          BY <2>0, <3>1, <3>3, <4>1 DEF TypeOK
        <4>2. CASE c # Cust(r)
          <5>1. wallet'[c] = wallet[c] /\ points'[c] = points[c]
            BY <3>1, <4>2 DEF TypeOK
          <5> QED
            BY <2>0, <3>1, <5>1, CountedKept
        <4> QED
          BY <4>1, <4>2
      <3>5. Promised(r)'
        <4>1. pc'[r] = "loyalty"
          BY <3>1 DEF TypeOK
        <4> QED
          BY <2>0, <3>1, <3>3, <4>1 DEF Promised
      <3>6. ASSUME NEW q \in Requests \ {r} PROVE Promised(q)'
        <4>1. Converting(q)' => Converting(q) /\ (pc'[q] = "deduct" <=> pc[q] = "deduct")
          BY <2>0, <3>1 DEF Converting, TypeOK
        <4> QED
          BY <2>0, <3>1, <4>1, StillPromised
      <3> QED
        BY <3>4, <3>5, <3>6 DEF CountedIInv, NothingCountedTwice
    <2>3. ASSUME NEW r \in Requests, ConvertSettle(r) PROVE CountedIInv'
      <3>1. /\ pc[r] = "settle" /\ Converting(r)
            /\ UNCHANGED <<req, rd, wallet, applied>>
            /\ pc' = [pc EXCEPT ![r] = "done"]
            /\ points' = [points EXCEPT ![Cust(r)] = rd[r].points - req[r].amount]
        BY <2>3 DEF ConvertSettle, StepsFit, Converting, At, Go
      <3>2. TakenBy(Cust(r), rd[r].points - req[r].amount)
        BY <2>0, <3>1 DEF Promised
      <3>3. ASSUME NEW c \in Customers
            PROVE  CreditedBy(c, wallet[c])' /\ TakenBy(c, points[c])'
        <4>1. TakenBy(c, points'[c])
          BY <2>0, <3>1, <3>2 DEF TypeOK
        <4> QED
          BY <2>0, <3>1, <4>1, CountedKept
      <3>4. ASSUME NEW q \in Requests PROVE Promised(q)'
        <4>1. Converting(q)' => Converting(q) /\ (pc'[q] = "deduct" <=> pc[q] = "deduct")
          BY <3>1 DEF Converting, TypeOK
        <4> QED
          BY <2>0, <3>1, <4>1, StillPromised
      <3> QED
        BY <3>3, <3>4 DEF CountedIInv, NothingCountedTwice
    <2>4. ASSUME NEW r \in Requests, AddFundCredit(r) PROVE CountedIInv'
      <3>1. /\ r \notin applied /\ applied' = applied \cup {r}
            /\ UNCHANGED <<req, rd, points>>
            /\ pc' = [pc EXCEPT ![r] = "done"]
            /\ wallet' = [wallet EXCEPT ![Cust(r)] = wallet[Cust(r)] + req[r].amount]
        BY <2>4 DEF AddFundCredit, StepsFit, AppliedIInv, At, Go
      <3>2. ASSUME NEW value, value = wallet[Cust(r)] + req[r].amount
            PROVE  CreditedBy(Cust(r), value)'
        <4>1. Cust(r) \in Customers /\ CreditedBy(Cust(r), wallet[Cust(r)])
          BY <2>0
        <4>2. req'[r].amount = req[r].amount
          BY <3>1
        <4> QED
          BY <3>1, <3>2, <4>1, <4>2, EntersOnce
      <3>3. ASSUME NEW c \in Customers
            PROVE  CreditedBy(c, wallet[c])' /\ TakenBy(c, points[c])'
        <4>1. points'[c] = points[c] /\ TakenBy(c, points[c]) /\ CreditedBy(c, wallet[c])
          BY <2>0, <3>1
        <4>2. TakenBy(c, points[c])'
          BY <2>0, <3>1, <4>1, CountedKept
        <4>3. CASE c = Cust(r)
          <5>1. wallet'[c] = wallet[Cust(r)] + req[r].amount
            BY <3>1, <4>3 DEF TypeOK
          <5> QED
            BY <2>0, <3>2, <4>2, <4>3, <5>1
        <4>4. CASE c # Cust(r)
          <5>1. wallet'[c] = wallet[c]
            BY <3>1, <4>4 DEF TypeOK
          <5> QED
            BY <2>0, <3>1, <4>1, <4>2, <5>1, CountedKept
        <4> QED
          BY <4>3, <4>4
      <3>4. ASSUME NEW q \in Requests PROVE Promised(q)'
        <4>1. Converting(q)' => Converting(q) /\ (pc'[q] = "deduct" <=> pc[q] = "deduct")
          BY <3>1 DEF Converting, TypeOK
        <4> QED
          BY <2>0, <3>1, <4>1, StillPromised
      <3> QED
        BY <3>3, <3>4 DEF CountedIInv, NothingCountedTwice
    <2>5. ASSUME NEW r \in Requests,
                 \/ Arrive(r)
                 \/ ConvertLoyalty(r)
                 \/ ReadLast(r)
                 \/ InsertRow(r)
                 \/ AddFundVictim(r)
                 \/ FundCreate(r)
                 \/ Fail(r)
          PROVE  CountedIInv'
      <3>1. UNCHANGED <<req, rd, points, wallet, applied>>
        BY <2>5 DEF Arrive, ConvertLoyalty, ReadLast, InsertRow, AddFundVictim,
           FundCreate, Fail, db, history
      <3>2. \A q \in Requests : Converting(q)' =>
               Converting(q) /\ (pc'[q] = "deduct" <=> pc[q] = "deduct")
        BY <2>5 DEF Arrive, ConvertLoyalty, ReadLast, InsertRow, AddFundVictim,
           FundCreate, Fail, Go, At, Converting, Ended, StepsFit, TypeOK
      <3> QED
        BY <2>0, <3>1, <3>2, CountedKept, StillPromised DEF CountedIInv, NothingCountedTwice
    <2>6. CASE UNCHANGED vars
      <3>1. UNCHANGED <<req, rd, points, wallet, applied, pc>>
        BY <2>6 DEF vars
      <3>2. \A q \in Requests : Converting(q)' <=> Converting(q)
        BY <3>1 DEF Converting
      <3> QED
        BY <2>0, <3>1, <3>2, CountedKept, StillPromised DEF CountedIInv, NothingCountedTwice
    <2> QED
      BY <2>1, <2>2, <2>3, <2>4, <2>5, <2>6 DEF Next, Step, AllAnswered
  <1>3. CountedIInv => NothingCountedTwice
    BY DEF CountedIInv
  <1> QED
    BY <1>1, <1>2, <1>3, TypeCorrect, StepsFitInvariant, AppliedInvariant, PTL
       DEF Spec

-----------------------------------------------------------------------------
(* The ledger.                                                             *)

BeforeInsert == {"idle", "read", "deduct", "loyalty", "fund", "last", "insert"}

\* A request has no row before its insert, has one from there on unless it was
\* rolled back, and addFund's row and increment become visible together.
LedgerIInv ==
    \A r \in Requests :
        /\ pc[r] \in BeforeInsert => ~HasRow(r)
        /\ pc[r] \in {"settle", "credit", "done"} => HasRow(r)
        /\ req[r].kind = "addFund" =>
              (r \in applied <=> HasRow(r) /\ pc[r] # "credit")

\* The inductive invariant behind the ledger theorems.
LEMMA LedgerInvariant == Spec => []LedgerIInv
  <1>1. Init => LedgerIInv
    <2> SUFFICES ASSUME Init, NEW r \in Requests
                 PROVE  pc[r] = "idle" /\ ~HasRow(r) /\ r \notin applied
      BY DEF LedgerIInv, BeforeInsert
    <2>1. pc[r] = "idle" /\ applied = {}
      BY DEF Init
    <2>2. ledger[r].at = 0
      BY DEF Init, NoRow
    <2> QED
      BY <2>1, <2>2 DEF HasRow
  <1>2. TypeOK /\ StepsFit /\ LedgerIInv /\ [Next]_vars => LedgerIInv'
    <2> SUFFICES ASSUME TypeOK, StepsFit, LedgerIInv, [Next]_vars
                 PROVE  LedgerIInv'
      OBVIOUS
    <2> USE DEF LedgerIInv, TypeOK, StepsFit, HasRow, BeforeInsert, Go, At
    <2>0. \A r \in Requests : req[r].kind \in {"convert", "addFund", "fund"}
      BY RequestFields
    <2>1. ASSUME NEW r \in Requests, Arrive(r)
          PROVE  LedgerIInv'
      BY <2>1 DEF Arrive, db, history
    <2>2. ASSUME NEW r \in Requests, ConvertRead(r)
          PROVE  LedgerIInv'
      BY <2>2 DEF ConvertRead, db, history
    <2>3. ASSUME NEW r \in Requests, ConvertDeduct(r)
          PROVE  LedgerIInv'
      BY <2>3 DEF ConvertDeduct
    <2>4. ASSUME NEW r \in Requests, ConvertLoyalty(r)
          PROVE  LedgerIInv'
      BY <2>4 DEF ConvertLoyalty, history
    <2>5. ASSUME NEW r \in Requests, ConvertSettle(r)
          PROVE  LedgerIInv'
      BY <2>5 DEF ConvertSettle
    <2>6. ASSUME NEW r \in Requests, ReadLast(r)
          PROVE  LedgerIInv'
      BY <2>6 DEF ReadLast, db, history
    <2>7. ASSUME NEW r \in Requests, InsertRow(r)
          PROVE  LedgerIInv'
      BY <2>7, <2>0, NewRowType DEF InsertRow, history
    <2>8. ASSUME NEW r \in Requests, AddFundCredit(r)
          PROVE  LedgerIInv'
      BY <2>8 DEF AddFundCredit
    <2>9. ASSUME NEW r \in Requests, AddFundVictim(r)
          PROVE  LedgerIInv'
      BY <2>9 DEF AddFundVictim, NoRow, history
    <2>10. ASSUME NEW r \in Requests, FundCreate(r)
          PROVE  LedgerIInv'
      BY <2>10 DEF FundCreate, history
    <2>11. ASSUME NEW r \in Requests, Fail(r)
          PROVE  LedgerIInv'
      BY <2>11 DEF Fail, NoRow, history, Ended
    <2>12. CASE UNCHANGED vars
      BY <2>12 DEF vars
    <2> QED
      BY <2>1, <2>2, <2>3, <2>4, <2>5, <2>6, <2>7, <2>8, <2>9, <2>10, <2>11,
         <2>12 DEF Next, Step, AllAnswered
  <1> QED
    BY <1>1, <1>2, TypeCorrect, StepsFitInvariant, PTL DEF Spec

\* addFund is all or nothing: its ledger row is committed exactly when the
\* wallet has been incremented, also after a deadlock or a restart.
AddFundAtomic ==
    \A r \in Requests : req[r].kind = "addFund" =>
        (r \in Committed(Cust(r)) <=> r \in applied)

\* The ledger row of addFund is committed exactly when the wallet has its
\* increment, whatever deadlocks and restarts happened.
THEOREM AddFundIsAtomic == Spec => []AddFundAtomic
  <1>1. LedgerIInv => AddFundAtomic
    BY DEF LedgerIInv, AddFundAtomic, Committed, At
  <1> QED
    BY <1>1, LedgerInvariant, PTL

\* One step leaves every committed row committed, with the same content.
LEMMA CommittedStep ==
    ASSUME TypeOK, LedgerIInv, [Next]_vars,
           NEW c \in Customers, NEW r \in Committed(c)
    PROVE  r \in Committed(c)' /\ ledger'[r] = ledger[r]
  <1> USE DEF TypeOK, LedgerIInv, BeforeInsert, Committed, HasRow, Cust, Go, At
  <1>1. r \in Requests /\ HasRow(r) /\ pc[r] # "credit"
    OBVIOUS
  <1>2. ASSUME NEW q \in Requests, Arrive(q) \/ ConvertRead(q) \/ ReadLast(q)
        PROVE  r \in Committed(c)' /\ ledger'[r] = ledger[r]
    BY <1>1, <1>2 DEF Arrive, ConvertRead, ReadLast, db
  <1>3. ASSUME NEW q \in Requests,
               ConvertDeduct(q) \/ ConvertLoyalty(q) \/ ConvertSettle(q) \/ FundCreate(q)
        PROVE  r \in Committed(c)' /\ ledger'[r] = ledger[r]
    BY <1>1, <1>3 DEF ConvertDeduct, ConvertLoyalty, ConvertSettle, FundCreate
  <1>4. ASSUME NEW q \in Requests, InsertRow(q)
        PROVE  r \in Committed(c)' /\ ledger'[r] = ledger[r]
    <2>1. q # r
      BY <1>1, <1>4 DEF InsertRow
    <2> QED
      BY <1>1, <1>4, <2>1 DEF InsertRow
  <1>5. ASSUME NEW q \in Requests, AddFundCredit(q) \/ AddFundVictim(q) \/ Fail(q)
        PROVE  r \in Committed(c)' /\ ledger'[r] = ledger[r]
    BY <1>1, <1>5 DEF AddFundCredit, AddFundVictim, Fail
  <1>6. CASE UNCHANGED vars
    BY <1>1, <1>6 DEF vars
  <1> QED
    BY <1>2, <1>3, <1>4, <1>5, <1>6 DEF Next, Step, AllAnswered

-----------------------------------------------------------------------------
(* Where the balance of a ledger row comes from.                           *)

\* The balances a new row of r can be computed from.
Bases(r) == {0} \cup {ledger[q].balance : q \in Committed(Cust(r)) \ {r}}

\* A base that was read stays the balance of a committed row.
BaseCommitted == \A r \in Requests : pc[r] = "insert" => base[r] \in Bases(r)

\* One step keeps every base of every request.
LEMMA BasesStep ==
    ASSUME TypeOK, LedgerIInv, [Next]_vars, NEW r \in Requests
    PROVE  Bases(r) \subseteq Bases(r)'
  <1>1. Cust(r) \in Customers
    BY RequestFields DEF TypeOK, Cust
  <1>2. req' = req
    BY DEF Next, vars, Step, AllAnswered, Arrive, ConvertRead, ConvertDeduct,
       ConvertLoyalty, ConvertSettle, ReadLast, InsertRow, AddFundCredit,
       AddFundVictim, FundCreate, Fail
  <1>3. ASSUME NEW q \in Committed(Cust(r))
        PROVE  q \in Committed(Cust(r))' /\ ledger'[q] = ledger[q]
    <2>1. ASSUME NEW c \in Customers, c = Cust(r)
          PROVE  q \in Committed(c)' /\ ledger'[q] = ledger[q]
      BY <1>3, <2>1, CommittedStep
    <2> QED
      BY <1>1, <1>2, <2>1 DEF Committed, Cust
  <1> QED
    BY <1>3 DEF Bases

\* The balance of a row extends the balance of a row that is committed, or zero.
ExtendsCommitted ==
    \A r \in Requests : HasRow(r) =>
        \E b \in Bases(r) :
            ledger[r].balance = b + ledger[r].credit - ledger[r].debit

\* A row holds the amount of its request.
RowsMatch ==
    \A r \in Requests : HasRow(r) =>
        ledger[r].credit = Credit(r) /\ ledger[r].debit = Debit(r)

\* What every step keeps: bases that were read, and balances built on them.
Built == BaseCommitted /\ ExtendsCommitted /\ RowsMatch

LEMMA BuiltInvariant == Spec => []Built
  <1>1. Init => Built
    BY DEF Init, Built, BaseCommitted, ExtendsCommitted, RowsMatch, HasRow, NoRow
  <1>2. TypeOK /\ LedgerIInv /\ Built /\ [Next]_vars => Built'
    <2> SUFFICES ASSUME TypeOK, LedgerIInv, Built, [Next]_vars
                 PROVE  Built'
      OBVIOUS
    <2>1. ASSUME NEW r \in Requests, pc'[r] = "insert"
          PROVE  base'[r] \in Bases(r)'
      <3>1. CASE pc[r] = "insert" /\ base'[r] = base[r]
        BY <3>1, BasesStep DEF Built, BaseCommitted
      <3>2. CASE ReadLast(r)
        <4>1. base'[r] \in Bases(r)
          BY <3>2 DEF ReadLast, Bases, Newest, Committed, LedgerIInv, BeforeInsert,
             At, TypeOK
        <4> QED
          BY <4>1, BasesStep
      <3> QED
        BY <2>1, <3>1, <3>2 DEF Next, vars, Step, AllAnswered, Arrive,
           ConvertRead, ConvertDeduct, ConvertLoyalty, ConvertSettle, ReadLast,
           InsertRow, AddFundCredit, AddFundVictim, FundCreate, Fail, Go, At,
           TypeOK, Ended, db
    <2>2. ASSUME NEW r \in Requests, HasRow(r)'
          PROVE  \E b \in Bases(r)' :
                    ledger'[r].balance = b + ledger'[r].credit - ledger'[r].debit
      <3>1. CASE HasRow(r) /\ ledger'[r] = ledger[r]
        <4>1. PICK b \in Bases(r) :
                 ledger[r].balance = b + ledger[r].credit - ledger[r].debit
          BY <3>1 DEF Built, ExtendsCommitted
        <4> QED
          BY <3>1, <4>1, BasesStep
      <3>2. CASE InsertRow(r)
        <4>1. base[r] \in Bases(r)'
          BY <3>2, BasesStep DEF Built, BaseCommitted, InsertRow, At
        <4>2. ledger'[r].balance = base[r] + ledger'[r].credit - ledger'[r].debit
          BY <3>2 DEF InsertRow, NewRow, TypeOK
        <4> QED
          BY <4>1, <4>2
      <3> QED
        BY <2>2, <3>1, <3>2 DEF Next, vars, Step, AllAnswered, Arrive,
           ConvertRead, ConvertDeduct, ConvertLoyalty, ConvertSettle, ReadLast,
           InsertRow, AddFundCredit, AddFundVictim, FundCreate, Fail, Go, At,
           TypeOK, db, HasRow, NoRow
    <2>3. RowsMatch'
      <3>1. req' = req
        BY DEF Next, vars, Step, AllAnswered, Arrive, ConvertRead, ConvertDeduct,
           ConvertLoyalty, ConvertSettle, ReadLast, InsertRow, AddFundCredit,
           AddFundVictim, FundCreate, Fail
      <3> SUFFICES ASSUME NEW r \in Requests, HasRow(r)'
                   PROVE  ledger'[r].credit = Credit(r) /\ ledger'[r].debit = Debit(r)
        BY <3>1 DEF RowsMatch, Credit, Debit
      <3>2. CASE HasRow(r) /\ ledger'[r] = ledger[r]
        BY <3>2 DEF Built, RowsMatch
      <3>3. CASE InsertRow(r)
        BY <3>3 DEF InsertRow, NewRow, TypeOK
      <3> QED
        BY <3>2, <3>3 DEF Next, vars, Step, AllAnswered, Arrive,
           ConvertRead, ConvertDeduct, ConvertLoyalty, ConvertSettle, ReadLast,
           InsertRow, AddFundCredit, AddFundVictim, FundCreate, Fail, Go, At,
           TypeOK, db, HasRow, NoRow
    <2> QED
      BY <2>1, <2>2, <2>3 DEF Built, BaseCommitted, ExtendsCommitted
  <1> QED
    BY <1>1, <1>2, TypeCorrect, LedgerInvariant, PTL DEF Spec

-----------------------------------------------------------------------------
(* The balances of rows that were made one after the other add up.         *)

\* What findFirst gives the request r: the balance of a newest row of those it
\* chose from, or 0.
FromNewest(r) ==
    \/ saw[r] = {} /\ base[r] = 0
    \/ \E n \in saw[r] : /\ base[r] = ledger[n].balance
                         /\ \A q \in saw[r] : ledger[q].at <= ledger[n].at

\* What a request saw was committed and stays so, together with all that was
\* seen there; rows are made in the order of their createdAt.
SawIInv ==
    \A r \in Requests :
        /\ pc[r] \in BeforeInsert \ {"insert"} => saw[r] = {}
        /\ pc[r] = "insert" \/ HasRow(r) => FromNewest(r)
        /\ HasRow(r) => /\ ledger[r].balance = base[r] + Credit(r) - Debit(r)
                        /\ ledger[r].at <= now
        /\ \A q \in saw[r] : /\ q # r /\ q \in Committed(Cust(r))
                             /\ saw[q] \subseteq saw[r]
                             /\ HasRow(r) => ledger[q].at <= ledger[r].at

\* Only findFirst writes base and saw, only the insert makes a row, and the
\* clock does not run backwards.
LEMMA LedgerSteps ==
    ASSUME TypeOK, LedgerIInv, [Next]_vars, NEW r \in Requests
    PROVE  /\ ReadLast(r) \/ (base'[r] = base[r] /\ saw'[r] = saw[r])
           /\ HasRow(r)' => (HasRow(r) /\ ledger'[r] = ledger[r]) \/ InsertRow(r)
           /\ pc'[r] = "insert" => pc[r] = "insert" \/ ReadLast(r)
           /\ pc'[r] \in BeforeInsert \ {"insert"} => pc[r] \in BeforeInsert \ {"insert"}
           /\ now' >= now
  <1> USE DEF TypeOK, Go, At, HasRow, BeforeInsert, Ended
  <1>1. ASSUME NEW q \in Requests, Arrive(q) \/ ConvertRead(q) \/ ConvertLoyalty(q)
        PROVE  /\ base'[r] = base[r] /\ saw'[r] = saw[r] /\ ledger'[r] = ledger[r]
               /\ now' = now
               /\ pc'[r] = "insert" => pc[r] = "insert"
               /\ pc'[r] \in BeforeInsert \ {"insert"} => pc[r] \in BeforeInsert \ {"insert"}
    BY <1>1 DEF Arrive, ConvertRead, ConvertLoyalty, db, history
  <1>2. ASSUME NEW q \in Requests,
               ConvertDeduct(q) \/ ConvertSettle(q) \/ FundCreate(q) \/ AddFundCredit(q)
        PROVE  /\ base'[r] = base[r] /\ saw'[r] = saw[r] /\ ledger'[r] = ledger[r]
               /\ now' = now
               /\ pc'[r] = "insert" => pc[r] = "insert"
               /\ pc'[r] \in BeforeInsert \ {"insert"} => pc[r] \in BeforeInsert \ {"insert"}
    BY <1>2 DEF ConvertDeduct, ConvertSettle, FundCreate, AddFundCredit, history
  <1>3. ASSUME NEW q \in Requests, AddFundVictim(q) \/ Fail(q)
        PROVE  /\ base'[r] = base[r] /\ saw'[r] = saw[r]
               /\ ledger'[r] = ledger[r] \/ ledger'[r] = NoRow
               /\ now' = now
               /\ pc'[r] = "insert" => pc[r] = "insert"
               /\ pc'[r] \in BeforeInsert \ {"insert"} => pc[r] \in BeforeInsert \ {"insert"}
    BY <1>3 DEF AddFundVictim, Fail, history
  <1>4. ASSUME NEW q \in Requests, ReadLast(q)
        PROVE  /\ ReadLast(r) \/ (base'[r] = base[r] /\ saw'[r] = saw[r])
               /\ ledger'[r] = ledger[r] /\ now' = now
               /\ pc'[r] = "insert" => pc[r] = "insert" \/ ReadLast(r)
               /\ pc'[r] \in BeforeInsert \ {"insert"} => pc[r] \in BeforeInsert \ {"insert"}
    <2>1. ledger'[r] = ledger[r] /\ now' = now
      BY <1>4 DEF ReadLast, db
    <2>2. CASE q = r
      BY <1>4, <2>1, <2>2 DEF ReadLast
    <2>3. CASE q # r
      <3>1. base'[r] = base[r] /\ saw'[r] = saw[r] /\ pc'[r] = pc[r]
        BY <1>4, <2>3 DEF ReadLast
      <3> QED
        BY <2>1, <3>1
    <2> QED
      BY <2>2, <2>3
  <1>5. ASSUME NEW q \in Requests, InsertRow(q)
        PROVE  /\ base'[r] = base[r] /\ saw'[r] = saw[r]
               /\ ledger'[r] = ledger[r] \/ InsertRow(r)
               /\ pc'[r] = "insert" => pc[r] = "insert"
               /\ pc'[r] \in BeforeInsert \ {"insert"} => pc[r] \in BeforeInsert \ {"insert"}
               /\ now' >= now
    <2>1. base'[r] = base[r] /\ saw'[r] = saw[r] /\ now' >= now
      BY <1>5 DEF InsertRow, history
    <2>2. ledger'[r] = ledger[r] \/ InsertRow(r)
      BY <1>5 DEF InsertRow
    <2>3. /\ \A p \in Requests \ {q} : pc'[p] = pc[p]
          /\ pc'[q] \in {"settle", "done", "credit"}
      BY <1>5 DEF InsertRow
    <2> QED
      BY <2>1, <2>2, <2>3
  <1>6. CASE UNCHANGED vars
    BY <1>6 DEF vars
  <1>7. NoRow.at = 0
    BY DEF NoRow
  <1> QED
    BY <1>1, <1>2, <1>3, <1>4, <1>5, <1>6, <1>7 DEF Next, Step, AllAnswered

\* A committed row keeps its content, and what its request saw.
LEMMA CommittedFrame ==
    ASSUME TypeOK, LedgerIInv, [Next]_vars, NEW r \in Requests,
           NEW q \in Committed(Cust(r))
    PROVE  /\ q \in Requests /\ HasRow(q) /\ HasRow(q)' /\ Cust(q) = Cust(r)
           /\ q \in Committed(Cust(r))'
           /\ ledger'[q] = ledger[q] /\ saw'[q] = saw[q]
  <1>1. q \in Requests /\ HasRow(q) /\ Cust(q) = Cust(r)
    BY DEF Committed
  <1>2. Cust(r) \in Customers
    BY RequestFields DEF TypeOK, Cust
  <1>3. ASSUME NEW c \in Customers, c = Cust(r)
        PROVE  q \in Committed(c)' /\ ledger'[q] = ledger[q]
    BY <1>3, CommittedStep
  <1>4. q \in Committed(Cust(r))' /\ ledger'[q] = ledger[q]
    BY <1>2, <1>3, RequestsFixed DEF Committed
  <1>5. ~ReadLast(q)
    BY <1>1 DEF ReadLast, LedgerIInv, BeforeInsert, At
  <1>6. HasRow(q)'
    BY <1>1, <1>4 DEF HasRow
  <1> QED
    BY <1>1, <1>4, <1>5, <1>6, LedgerSteps

LEMMA SawInvariant == Spec => []SawIInv
  <1>1. Init => SawIInv
    BY DEF Init, SawIInv, HasRow, NoRow
  <1>2. TypeOK /\ LedgerIInv /\ SawIInv /\ [Next]_vars => SawIInv'
    <2> SUFFICES ASSUME TypeOK, LedgerIInv, SawIInv, [Next]_vars, NEW r \in Requests
                 PROVE  /\ pc'[r] \in BeforeInsert \ {"insert"} => saw'[r] = {}
                        /\ pc'[r] = "insert" \/ HasRow(r)' => FromNewest(r)'
                        /\ HasRow(r)' =>
                             /\ ledger'[r].balance = base'[r] + Credit(r)' - Debit(r)'
                             /\ ledger'[r].at <= now'
                        /\ \A q \in saw'[r] :
                             /\ q # r /\ q \in Committed(Cust(r))'
                             /\ saw'[q] \subseteq saw'[r]
                             /\ HasRow(r)' => ledger'[q].at <= ledger'[r].at
      BY DEF SawIInv
    <2>0. /\ now \in Nat /\ now' \in Nat
          /\ \A q \in Requests : ledger[q].at \in Nat /\ ledger'[q].at \in Nat
      <3>1. now \in Nat /\ \A q \in Requests : ledger[q].at \in Nat
        BY DEF TypeOK, Row
      <3>2. TypeOK'
        BY StepTyped
      <3>3. now' \in Nat /\ \A q \in Requests : ledger'[q].at \in Nat
        BY <3>2 DEF TypeOK, Row
      <3> QED
        BY <3>1, <3>3
    <2>1. /\ Credit(r)' = Credit(r) /\ Debit(r)' = Debit(r) /\ Cust(r)' = Cust(r)
      BY RequestsFixed DEF Credit, Debit
    <2>2. CASE ReadLast(r)
      <3>1. /\ saw'[r] = Committed(Cust(r)) /\ ledger' = ledger /\ ~HasRow(r)
            /\ pc'[r] = "insert"
        BY <2>2 DEF ReadLast, TypeOK, LedgerIInv, BeforeInsert, At, Go, db
      <3>2. ~HasRow(r)' /\ r \notin Committed(Cust(r))
        BY <3>1 DEF HasRow, Committed
      <3>3. FromNewest(r)'
        <4>1. CASE Committed(Cust(r)) = {}
          <5>1. base'[r] = 0
            BY <2>2, <4>1 DEF ReadLast, Newest, TypeOK
          <5> QED
            BY <3>1, <4>1, <5>1 DEF FromNewest
        <4>2. CASE Committed(Cust(r)) # {}
          <5>1. PICK n \in Newest(Cust(r)) : base'[r] = ledger[n].balance
            BY <2>2, <4>2 DEF ReadLast, TypeOK
          <5> QED
            BY <3>1, <5>1 DEF FromNewest, Newest
        <4> QED
          BY <4>1, <4>2
      <3>4. ASSUME NEW q \in Committed(Cust(r))
            PROVE  /\ q # r /\ q \in Committed(Cust(r))'
                   /\ saw'[q] \subseteq Committed(Cust(r))
        <4>1. saw[q] \subseteq Committed(Cust(q)) /\ Cust(q) = Cust(r)
          BY <3>4 DEF SawIInv, Committed
        <4> QED
          BY <3>2, <3>4, <4>1, CommittedFrame
      <3> QED
        BY <3>1, <3>2, <3>3, <3>4 DEF BeforeInsert
    <2>3. CASE ~ReadLast(r)
      <3>1. saw'[r] = saw[r] /\ base'[r] = base[r]
        BY <2>3, LedgerSteps
      <3>2. ASSUME NEW q \in saw[r]
            PROVE  /\ q # r /\ q \in Requests /\ q \in Committed(Cust(r))'
                   /\ HasRow(q) /\ ledger'[q] = ledger[q] /\ saw'[q] = saw[q]
                   /\ saw[q] \subseteq saw[r]
        BY <3>2, CommittedFrame DEF SawIInv
      <3>3. FromNewest(r) => FromNewest(r)'
        BY <3>1, <3>2 DEF FromNewest
      <3>4. pc'[r] \in BeforeInsert \ {"insert"} => saw'[r] = {}
        BY <3>1, LedgerSteps DEF SawIInv
      <3>5. CASE ~HasRow(r)'
        <4>1. pc'[r] = "insert" => FromNewest(r)'
          BY <2>3, <3>3, LedgerSteps DEF SawIInv
        <4> QED
          BY <3>1, <3>2, <3>4, <3>5, <4>1
      <3>6. CASE HasRow(r) /\ ledger'[r] = ledger[r]
        <4>1. FromNewest(r)'
          BY <3>3, <3>6 DEF SawIInv
        <4>2. ledger'[r].balance = base'[r] + Credit(r)' - Debit(r)'
          BY <2>1, <3>1, <3>6 DEF SawIInv
        <4>3. ledger'[r].at <= now'
          <5>1. ledger[r].at <= now
            BY <3>6 DEF SawIInv
          <5> QED
            BY <2>0, <3>6, <5>1, LedgerSteps
        <4>4. \A q \in saw[r] : ledger'[q].at <= ledger'[r].at
          BY <3>2, <3>6 DEF SawIInv
        <4> QED
          BY <3>1, <3>2, <3>4, <4>1, <4>2, <4>3, <4>4
      <3>7. CASE InsertRow(r)
        <4>1. ledger'[r] = NewRow(r) /\ pc[r] = "insert"
          BY <3>7 DEF InsertRow, TypeOK, At
        <4>2. FromNewest(r)'
          BY <3>3, <4>1 DEF SawIInv
        <4>3. /\ ledger'[r].at = now
              /\ ledger'[r].balance = base[r] + Credit(r) - Debit(r)
          BY <4>1 DEF NewRow
        <4>4. ledger'[r].at <= now'
          BY <2>0, <4>3, LedgerSteps
        <4>5. \A q \in saw[r] : ledger'[q].at <= ledger'[r].at
          BY <3>2, <4>3 DEF SawIInv
        <4> QED
          BY <2>1, <3>1, <3>2, <3>4, <4>2, <4>3, <4>4, <4>5
      <3> QED
        BY <3>5, <3>6, <3>7, LedgerSteps
    <2> QED
      BY <2>2, <2>3
  <1> QED
    BY <1>1, <1>2, TypeCorrect, LedgerInvariant, PTL DEF Spec

ChangeOf == [q \in Requests |-> Credit(q) - Debit(q)]

LEMMA ChangeInt ==
    ASSUME TypeOK, NEW r \in Requests
    PROVE  /\ Credit(r) \in Int /\ Debit(r) \in Int
           /\ ChangeOf[r] = Credit(r) - Debit(r) /\ ChangeOf[r] \in Int
  <1>1. req[r].amount \in Int /\ OrderPoints \in Int
    BY RequestFields, AmountsAssumption DEF TypeOK
  <1>2. req[r].amount * OrderPoints \in Int
    BY <1>1
  <1>3. Credit(r) \in Int /\ Debit(r) \in Int
    BY <1>1, <1>2 DEF Credit, Debit
  <1> QED
    BY <1>3 DEF ChangeOf

\* Rows made one after the other form a chain: the newest one's request saw all
\* the others, so its balance is the sum of all of them.
LEMMA BaseIsSum ==
    ASSUME TypeOK, AppliedIInv, LedgerIInv, SawIInv, BalancesAddUp,
           NEW r \in Requests, FromNewest(r), OneByOne(saw[r])
    PROVE  base[r] = SumFunctionOnSet(ChangeOf, saw[r])
  <1>1. CASE saw[r] = {}
    BY <1>1, SumEmpty DEF FromNewest
  <1>2. ASSUME NEW n \in saw[r], base[r] = ledger[n].balance,
               \A q \in saw[r] : ledger[q].at <= ledger[n].at
        PROVE  base[r] = SumFunctionOnSet(ChangeOf, saw[r])
    <2>1. /\ saw[n] \subseteq saw[r] /\ n \in Requests /\ HasRow(n)
          /\ \A m \in saw[r] : m \in Requests /\ HasRow(m)
      BY DEF SawIInv, Committed
    <2>2. ASSUME NEW m \in saw[r], m # n PROVE m \in saw[n]
      <3>1. m \in saw[n] \/ n \in saw[m]
        BY <2>2 DEF OneByOne
      <3>2. ledger[m].at # ledger[n].at /\ ledger[m].at <= ledger[n].at
        BY <1>2, <2>2 DEF OneByOne
      <3>3. n \in saw[m] => ledger[n].at <= ledger[m].at
        BY <2>1, <2>2 DEF SawIInv
      <3>4. ledger[m].at \in Nat /\ ledger[n].at \in Nat
        BY <2>1 DEF TypeOK, Row
      <3> QED
        BY <3>1, <3>2, <3>3, <3>4
    <2>3. saw[r] = saw[n] \cup {n}
      BY <2>1, <2>2
    <2>4. OneByOne(saw[n])
      BY <2>1 DEF OneByOne
    <2>5. ledger[n].balance = SumFunctionOnSet(ChangeOf, saw[n] \cup {n})
      BY <2>1, <2>4 DEF BalancesAddUp, ChangeOf
    <2> QED
      BY <1>2, <2>3, <2>5
  <1> QED
    BY <1>1, <1>2 DEF FromNewest

\* The ledger adds up for every customer whose requests did not overlap between
\* the two statements of createTransaction and addFund, nor share a
\* millisecond: any number of conversions and funds, failures and rollbacks.
THEOREM BalancesAreSums == Spec => []BalancesAddUp
  <1>1. Init => BalancesAddUp
    BY DEF Init, BalancesAddUp, HasRow, NoRow
  <1>2. /\ TypeOK /\ AppliedIInv /\ LedgerIInv /\ SawIInv /\ SawIInv'
        /\ BalancesAddUp /\ [Next]_vars
        => BalancesAddUp'
    <2> SUFFICES ASSUME TypeOK, AppliedIInv, LedgerIInv, SawIInv, SawIInv',
                        BalancesAddUp, [Next]_vars,
                        NEW r \in Requests, HasRow(r)', OneByOne(saw[r])'
                 PROVE  ledger'[r].balance
                          = SumFunctionOnSet(ChangeOf', saw'[r] \cup {r})
      BY DEF BalancesAddUp, ChangeOf
    <2>1. ChangeOf' = ChangeOf
      BY RequestsFixed DEF ChangeOf, Credit, Debit
    <2>2. ASSUME NEW q \in saw[r]
          PROVE  ledger'[q] = ledger[q] /\ saw'[q] = saw[q]
      BY <2>2, CommittedFrame DEF SawIInv
    <2>3. saw'[r] = saw[r]
      <3>1. ~ReadLast(r)
        <4>1. ReadLast(r) => ~HasRow(r) /\ ledger' = ledger
          BY DEF ReadLast, LedgerIInv, BeforeInsert, At, db
        <4> QED
          BY <4>1 DEF HasRow
      <3> QED
        BY <3>1, LedgerSteps
    <2>4. OneByOne(saw[r])
      BY <2>2, <2>3 DEF OneByOne
    <2>5. CASE HasRow(r) /\ ledger'[r] = ledger[r]
      BY <2>1, <2>3, <2>4, <2>5 DEF BalancesAddUp, ChangeOf
    <2>6. CASE InsertRow(r)
      <3>1. /\ ledger'[r].balance = base[r] + Credit(r) - Debit(r)
            /\ pc[r] = "insert" /\ base[r] \in Int
        BY <2>6 DEF InsertRow, NewRow, TypeOK, At
      <3>2. base[r] = SumFunctionOnSet(ChangeOf, saw[r])
        BY <2>4, <3>1, BaseIsSum DEF SawIInv
      <3>3. /\ IsFiniteSet(saw[r]) /\ r \notin saw[r]
            /\ \A q \in saw[r] \cup {r} : ChangeOf[q] \in Int
        <4>1. \A q \in saw[r] : q \in Requests /\ HasRow(q) /\ q # r
          BY DEF SawIInv, Committed
        <4>2. saw[r] \subseteq Begun
          BY <4>1 DEF Begun, LedgerIInv, BeforeInsert
        <4>3. IsFiniteSet(saw[r])
          BY <4>2, FS_Subset DEF AppliedIInv
        <4> QED
          BY <4>1, <4>3, ChangeInt
      <3>4. SumFunctionOnSet(ChangeOf, saw[r] \cup {r})
              = SumFunctionOnSet(ChangeOf, saw[r]) + ChangeOf[r]
        BY <3>3, SumAdd
      <3> QED
        BY <2>1, <2>3, <3>1, <3>2, <3>4, ChangeInt
    <2> QED
      BY <2>5, <2>6, LedgerSteps
  <1> QED
    BY <1>1, <1>2, TypeCorrect, AppliedInvariant, LedgerInvariant, SawInvariant,
       PTL DEF Spec

-----------------------------------------------------------------------------
(* The ledger implements Passbook.                                         *)

IsCommitted(r) == HasRow(r) /\ pc[r] # "credit"

\* A step that commits no row and moves no increment is a stutter.
LEMMA BookStays ==
    ASSUME TypeOK, req' = req,
           \A r \in Requests :
              /\ ledger'[r].at > 0 /\ pc'[r] # "credit"
                     <=> ledger[r].at > 0 /\ pc[r] # "credit"
              /\ ledger[r].at > 0 /\ pc[r] # "credit" => ledger'[r] = ledger[r],
           \A r \in Requests : req[r].kind = "addFund" =>
                                (r \in applied' <=> r \in applied),
           applied \subseteq Requests, applied' \subseteq Requests
    PROVE  UNCHANGED <<Book, Paid>>
  <1>1. \A r \in Requests : r \in Committed(Cust(r))
                              <=> ledger[r].at > 0 /\ pc[r] # "credit"
    BY DEF Committed, HasRow, At
  <1>2. \A r \in Requests : (r \in Committed(Cust(r)))'
                              <=> ledger'[r].at > 0 /\ pc'[r] # "credit"
    BY DEF Committed, HasRow, At, Cust
  <1>3. Book' = Book
    BY <1>1, <1>2 DEF Book, Entry, Cust
  <1>4. Paid' = Paid
    BY DEF Paid
  <1> QED
    BY <1>3, <1>4

\* A step that commits the row of one request is an entry.
LEMMA BookGrows ==
    ASSUME TypeOK, req' = req, NEW r \in Requests,
           ~IsCommitted(r), IsCommitted(r)',
           \A q \in Requests \ {r} : /\ IsCommitted(q)' <=> IsCommitted(q)
                                    /\ ledger'[q] = ledger[q],
           applied' = IF req[r].kind = "addFund" THEN applied \cup {r} ELSE applied,
           ledger'[r].credit = Credit(r), ledger'[r].debit = Debit(r),
           ledger'[r].balance \in Int,
           \E b \in Bases(r) : ledger'[r].balance = b + Credit(r) - Debit(r)
    PROVE  Statement!Next
  <1> DEFINE change == Credit(r) - Debit(r)
             pays == req[r].kind = "addFund"
  <1>1. req[r] \in Request /\ Cust(r) \in Customers /\ pays \in BOOLEAN
    BY RequestFields DEF TypeOK, Cust
  <1>2. change \in FundAmounts \cup {-(p * OrderPoints) : p \in PointAmounts}
    <2>1. CASE req[r].kind = "convert"
      <3>1. req[r].amount \in PointAmounts
        BY <1>1, <2>1 DEF Request
      <3>2. req[r].amount * OrderPoints \in Int
        <4>1. req[r].amount \in Int /\ OrderPoints \in Int
          BY <3>1, AmountsAssumption
        <4> QED
          BY <4>1
      <3>3. change = -(req[r].amount * OrderPoints)
        BY <2>1, <3>2 DEF Credit, Debit
      <3> QED
        BY <3>1, <3>3
    <2>2. CASE req[r].kind # "convert"
      <3>1. req[r].amount \in FundAmounts /\ req[r].amount \in Int
        BY <1>1, <2>2, AmountsAssumption DEF Request
      <3> QED
        BY <2>2, <3>1 DEF Credit, Debit
    <2> QED
      BY <2>1, <2>2
  <1>3. \A q \in Requests : q \in Committed(Cust(q)) <=> IsCommitted(q)
    BY DEF Committed, IsCommitted, At
  <1>4. \A q \in Requests : (q \in Committed(Cust(q)))' <=> IsCommitted(q)'
    BY DEF Committed, IsCommitted, At, Cust
  <1>5. \A e \in Book : e.id # r
    BY <1>3 DEF Book, Entry
  <1>6. PICK b \in Bases(r) : ledger'[r].balance = b + Credit(r) - Debit(r)
    OBVIOUS
  <1>7. b \in Statement!Balances(Cust(r))
    <2>1. CASE b = 0
      BY <2>1 DEF Statement!Balances
    <2>2. ASSUME NEW q \in Committed(Cust(r)) \ {r}, b = ledger[q].balance
          PROVE  b \in Statement!Balances(Cust(r))
      <3>1. q \in Requests /\ Cust(q) = Cust(r) /\ q \in Committed(Cust(q))
        BY <2>2 DEF Committed
      <3>2. Entry(q) \in Book /\ Entry(q).cust = Cust(r) /\ Entry(q).balance = b
        BY <2>2, <3>1 DEF Book, Entry
      <3> QED
        BY <3>2 DEF Statement!Balances
    <2> QED
      BY <1>6, <2>1, <2>2 DEF Bases
  <1>8. Entry(r)' = [id |-> r, cust |-> Cust(r), pays |-> pays, change |-> change,
                     balance |-> b + change]
    <2>1. Credit(r) \in Int /\ Debit(r) \in Int
      <3>1. req[r].amount \in Int /\ OrderPoints \in Int
        BY <1>1, RequestFields, AmountsAssumption
      <3>2. req[r].amount * OrderPoints \in Int
        BY <3>1
      <3> QED
        BY <3>1, <3>2 DEF Credit, Debit
    <2>2. b \in Int
      BY <1>6 DEF Bases, Committed, TypeOK, Row
    <2>3. ledger'[r].balance = b + change
      BY <1>6, <2>1, <2>2
    <2> QED
      BY <2>3 DEF Entry, Cust
  <1>9. \A q \in Requests \ {r} : Entry(q)' = Entry(q)
    BY DEF Entry, Cust
  <1>10. Book' = Book \cup {Entry(r)'}
    BY <1>3, <1>4, <1>9 DEF Book
  <1>11. Paid' = IF pays THEN Paid \cup {r} ELSE Paid
    BY DEF Paid
  <1> HIDE DEF change, pays
  <1>12. Statement!Enter(r, Cust(r), pays, change)
    BY <1>5, <1>7, <1>8, <1>10, <1>11 DEF Statement!Enter
  <1> QED
    BY <1>1, <1>2, <1>12 DEF Statement!Next

\* Every step of the ledger is an entry of the passbook or a stutter.
LEMMA StepIsEntry ==
    ASSUME TypeOK, StepsFit, LedgerIInv, Built, [Next]_vars
    PROVE  [Statement!Next]_<<Book, Paid>>
  <1>0. \A r \in Requests : req[r].kind \in {"convert", "addFund", "fund"}
    BY RequestFields DEF TypeOK
  <1>1. ASSUME NEW r \in Requests,
               \/ Arrive(r) \/ ConvertRead(r) \/ ConvertLoyalty(r) \/ ConvertSettle(r)
               \/ ReadLast(r) \/ FundCreate(r) \/ ConvertDeduct(r)
        PROVE  UNCHANGED <<Book, Paid>>
    <2>1. /\ req' = req /\ ledger' = ledger
          /\ applied' = IF ConvertDeduct(r) THEN applied \cup {r} ELSE applied
          /\ \A q \in Requests : pc'[q] = "credit" <=> pc[q] = "credit"
      BY <1>1 DEF Arrive, ConvertRead, ConvertLoyalty, ConvertSettle, ReadLast,
         FundCreate, ConvertDeduct, db, history, Go, At, TypeOK
    <2>2. ConvertDeduct(r) => req[r].kind # "addFund"
      BY DEF ConvertDeduct, At, StepsFit
    <2> QED
      BY <2>1, <2>2, BookStays DEF IsCommitted, HasRow, TypeOK
  <1>2. ASSUME NEW r \in Requests, AddFundVictim(r) \/ Fail(r)
        PROVE  UNCHANGED <<Book, Paid>>
    <2>1. /\ req' = req /\ applied' = applied
          /\ \A q \in Requests : q # r => pc'[q] = pc[q] /\ ledger'[q] = ledger[q]
          /\ pc'[r] = "failed"
          /\ ledger'[r] = IF pc[r] = "credit" THEN NoRow ELSE ledger[r]
      BY <1>2 DEF AddFundVictim, Fail, history, Go, At, TypeOK
    <2>2. IsCommitted(r)' <=> IsCommitted(r)
      BY <2>1 DEF IsCommitted, HasRow, NoRow
    <2> QED
      BY <2>1, <2>2, BookStays DEF IsCommitted, HasRow, TypeOK
  <1>3. ASSUME NEW r \in Requests, InsertRow(r)
        PROVE  Statement!Next \/ UNCHANGED <<Book, Paid>>
    <2>1. /\ req' = req /\ applied' = applied
          /\ \A q \in Requests \ {r} : pc'[q] = pc[q] /\ ledger'[q] = ledger[q]
          /\ ledger'[r] = NewRow(r) /\ pc[r] = "insert" /\ ~HasRow(r)
      BY <1>3 DEF InsertRow, history, Go, At, TypeOK, LedgerIInv, BeforeInsert
    <2>2. CASE req[r].kind = "addFund"
      <3>1. pc'[r] = "credit"
        BY <2>2, <1>3 DEF InsertRow, Go, TypeOK
      <3> QED
        BY <2>1, <3>1, BookStays DEF IsCommitted, HasRow, TypeOK
    <2>3. CASE req[r].kind # "addFund"
      <3>1. pc'[r] # "credit"
        BY <2>3, <1>3 DEF InsertRow, Go, TypeOK
      <3>2. IsCommitted(r)' /\ ~IsCommitted(r)
        BY <2>1, <3>1, NewRowType DEF IsCommitted, HasRow
      <3>3. base[r] \in Bases(r)
        BY <2>1 DEF Built, BaseCommitted
      <3>4. /\ ledger'[r].credit = Credit(r) /\ ledger'[r].debit = Debit(r)
            /\ ledger'[r].balance = base[r] + Credit(r) - Debit(r)
        BY <2>1 DEF NewRow
      <3>5. ledger'[r].balance \in Int
        BY <2>1, NewRowType DEF Row
      <3>6. \A q \in Requests \ {r} : IsCommitted(q)' <=> IsCommitted(q)
        BY <2>1 DEF IsCommitted, HasRow
      <3> QED
        BY <2>1, <2>3, <3>2, <3>3, <3>4, <3>5, <3>6, BookGrows
    <2> QED
      BY <2>2, <2>3
  <1>4. ASSUME NEW r \in Requests, AddFundCredit(r)
        PROVE  Statement!Next
    <2>1. /\ req' = req /\ applied' = applied \cup {r} /\ ledger' = ledger
          /\ \A q \in Requests \ {r} : pc'[q] = pc[q]
          /\ pc'[r] = "done" /\ pc[r] = "credit" /\ HasRow(r)
          /\ req[r].kind = "addFund"
      BY <1>4 DEF AddFundCredit, Go, At, TypeOK, LedgerIInv, StepsFit
    <2>2. IsCommitted(r)' /\ ~IsCommitted(r)
      BY <2>1 DEF IsCommitted, HasRow
    <2>3. ledger[r].credit = Credit(r) /\ ledger[r].debit = Debit(r)
      BY <2>1 DEF Built, RowsMatch
    <2>4. \E b \in Bases(r) : ledger[r].balance = b + Credit(r) - Debit(r)
      BY <2>1, <2>3 DEF Built, ExtendsCommitted
    <2>5. \A q \in Requests \ {r} : IsCommitted(q)' <=> IsCommitted(q)
      BY <2>1 DEF IsCommitted, HasRow
    <2>6. ledger'[r].balance \in Int
      BY <2>1 DEF TypeOK, Row
    <2> QED
      BY <2>1, <2>2, <2>3, <2>4, <2>5, <2>6, BookGrows
  <1>5. CASE UNCHANGED vars
    BY <1>5, BookStays DEF vars, IsCommitted, HasRow, TypeOK
  <1> QED
    BY <1>1, <1>2, <1>3, <1>4, <1>5 DEF Next, Step, AllAnswered

\* However requests overlap, fail and are rolled back, the table of ledger rows
\* and addFund's increments behave as a passbook.
THEOREM LedgerIsPassbook == Spec => ImplementsPassbook
  <1>1. Init => Statement!Init
    BY DEF Init, Statement!Init, Book, Paid, Committed, HasRow, NoRow
  <1> QED
    BY <1>1, StepIsEntry, TypeCorrect, StepsFitInvariant, LedgerInvariant,
       BuiltInvariant, PTL DEF Spec, ImplementsPassbook, Statement!Spec

-----------------------------------------------------------------------------
(* What a request that stopped half-way has done.                          *)

HasLine(r) == \E l \in loyalty : l.req = r

\* The effects a request has had before each of its steps.
OrderIInv ==
    \A r \in Requests :
        /\ req[r].kind = "convert" =>
              /\ pc[r] \in {"loyalty", "last", "insert", "settle"} => r \in applied
              /\ pc[r] \in {"last", "insert", "settle"} => HasLine(r)
              /\ HasLine(r) => r \in applied
              /\ HasRow(r) => HasLine(r)
        /\ req[r].kind = "fund" =>
              /\ pc[r] \in {"last", "insert"} => r \in funds
              /\ HasRow(r) => r \in funds

\* A request that stops half-way leaves a prefix of its effects.
THEOREM EffectsAreOrdered == Spec => []EffectsInOrder
  <1>1. Init => OrderIInv
    <2> SUFFICES ASSUME Init, NEW r \in Requests
                 PROVE  pc[r] = "idle" /\ ~HasRow(r) /\ ~HasLine(r)
      BY DEF OrderIInv
    <2>1. pc[r] = "idle" /\ loyalty = {}
      BY DEF Init
    <2>2. ledger[r].at = 0
      BY DEF Init, NoRow
    <2> QED
      BY <2>1, <2>2 DEF HasRow, HasLine
  <1>2. TypeOK /\ StepsFit /\ OrderIInv /\ [Next]_vars => OrderIInv'
    <2> SUFFICES ASSUME TypeOK, StepsFit, OrderIInv, [Next]_vars
                 PROVE  OrderIInv'
      OBVIOUS
    <2> USE DEF OrderIInv, TypeOK, StepsFit, HasRow, HasLine, Go, At
    <2>1. ASSUME NEW r \in Requests, Arrive(r) \/ ConvertRead(r) \/ ReadLast(r)
          PROVE  OrderIInv'
      BY <2>1 DEF Arrive, ConvertRead, ReadLast, db, history
    <2>2. ASSUME NEW r \in Requests, ConvertDeduct(r)
          PROVE  OrderIInv'
      BY <2>2 DEF ConvertDeduct
    <2>3. ASSUME NEW r \in Requests, ConvertLoyalty(r)
          PROVE  OrderIInv'
      <3>1. r \in applied
        BY <2>3 DEF ConvertLoyalty
      <3>2. HasLine(r)' /\ \A q \in Requests \ {r} : HasLine(q)' <=> HasLine(q)
        <4> DEFINE line == [req |-> r, converted |-> req[r].amount,
                            current |-> rd[r].points - req[r].amount]
        <4>1. loyalty' = loyalty \cup {line} /\ line.req = r
          BY <2>3 DEF ConvertLoyalty
        <4> HIDE DEF line
        <4> QED
          BY <4>1
      <3> QED
        BY <2>3, <3>1, <3>2 DEF ConvertLoyalty, history
    <2>4. ASSUME NEW r \in Requests, ConvertSettle(r)
          PROVE  OrderIInv'
      BY <2>4 DEF ConvertSettle
    <2>5. ASSUME NEW r \in Requests, InsertRow(r)
          PROVE  OrderIInv'
      BY <2>5, NewRowType DEF InsertRow, history
    <2>6. ASSUME NEW r \in Requests, AddFundCredit(r) \/ FundCreate(r)
          PROVE  OrderIInv'
      BY <2>6 DEF AddFundCredit, FundCreate, history
    <2>7. ASSUME NEW r \in Requests, AddFundVictim(r) \/ Fail(r)
          PROVE  OrderIInv'
      BY <2>7 DEF AddFundVictim, Fail, NoRow, history
    <2>8. CASE UNCHANGED vars
      BY <2>8 DEF vars
    <2> QED
      BY <2>1, <2>2, <2>3, <2>4, <2>5, <2>6, <2>7, <2>8
         DEF Next, Step, AllAnswered
  <1>3. OrderIInv /\ LedgerIInv => EffectsInOrder
    BY DEF OrderIInv, LedgerIInv, EffectsInOrder, HasLine, At
  <1> QED
    BY <1>1, <1>2, <1>3, TypeCorrect, StepsFitInvariant, LedgerInvariant, PTL
       DEF Spec

-----------------------------------------------------------------------------
(* The connection pool.                                                    *)

\* However few connections there are, and whatever is closed by a timeout, what
\* requests do is what they may do in CustomerLedger: every theorem above holds
\* of createTransactionAndLoyaltyPoint's nested transactions on a crowded pool.
THEOREM PoolIsLedger == PoolSpec => Spec
  <1>1. PoolInit => Init
    BY DEF PoolInit
  <1>2. [PoolNext]_poolVars => [Next]_vars
    <2> SUFFICES ASSUME PoolNext
                 PROVE  Next \/ UNCHANGED vars
      BY DEF poolVars
    <2>1. ASSUME NEW r \in Requests, PoolArrive(r)
          PROVE  Next
      BY <2>1 DEF PoolArrive, Next
    <2>2. ASSUME NEW r \in Requests, BeginOuter(r) \/ CloseOuter(r)
          PROVE  UNCHANGED vars
      BY <2>2 DEF BeginOuter, CloseOuter
    <2>3. ASSUME NEW r \in Requests, PoolStep(r)
          PROVE  Next
      BY <2>3 DEF PoolStep, Next
    <2>4. ASSUME NEW r \in Requests, Throw(r) \/ Starve(r) \/ UseClosed(r)
          PROVE  Next
      BY <2>4 DEF Throw, Starve, UseClosed, Next
    <2>5. CASE AllAnswered /\ UNCHANGED outer
      BY <2>5 DEF Next
    <2> QED
      BY <2>1, <2>2, <2>3, <2>4, <2>5 DEF PoolNext, Resume
  <1> QED
    BY <1>1, <1>2, PTL DEF PoolSpec, Spec

\* How much of its handler a request has before it at most: label is its
\* counter, state its outer transaction.
Length(label, state) ==
    CASE label = "idle" -> 9
      [] label = "read" -> 8
      [] label \in {"deduct", "fund"} -> 7
      [] label = "loyalty" -> IF state = "none" THEN 6 ELSE 5
      [] label = "last" -> 4
      [] label = "insert" -> 3
      [] label = "settle" -> 2
      [] label = "credit" -> 1
      [] label \in Ended -> 0

Left(r) == Length(pc[r], outer[r])

States == {"none", "open", "closed"}

PoolTyped ==
    /\ pc \in [Requests -> PCs]
    /\ outer \in [Requests -> States]

OnlyForward ==
    \A r \in Requests : /\ Left(r)' <= Left(r)
                        /\ Resume(r) \/ Throw(r) => Left(r)' < Left(r)

Advances(r, label, state) ==
    /\ pc' = [pc EXCEPT ![r] = label]
    /\ outer' = [outer EXCEPT ![r] = state]
    /\ Length(label, state) < Left(r)

\* What a step of one request does to the counters, in one place.
LEMMA Moves ==
    ASSUME PoolTyped, NEW r \in Requests,
           \/ PoolArrive(r) \/ BeginOuter(r) \/ PoolStep(r) \/ Starve(r)
           \/ UseClosed(r) \/ Throw(r)
    PROVE  \E label \in PCs, state \in States : Advances(r, label, state)
<1>1. CASE PoolArrive(r)
  <2>1. PICK label \in {"rejected", "read", "last", "fund"} :
           /\ pc' = [pc EXCEPT ![r] = label]
           /\ outer' = [outer EXCEPT ![r] = outer[r]]
    BY <1>1 DEF PoolArrive, Arrive, Go, PoolTyped
  <2>2. pc[r] = "idle" /\ outer[r] \in States
    BY <1>1 DEF PoolArrive, Arrive, At, PoolTyped, States
  <2>3. Length(label, outer[r]) < Left(r)
    BY <2>2 DEF Left, Length, Ended
  <2>4. label \in PCs
    BY DEF PCs, Ended
  <2> QED
    BY <2>1, <2>2, <2>3, <2>4 DEF Advances
<1>2. CASE BeginOuter(r)
  <2>1. /\ pc' = [pc EXCEPT ![r] = "loyalty"]
        /\ outer' = [outer EXCEPT ![r] = "open"]
        /\ pc[r] = "loyalty" /\ outer[r] = "none"
    BY <1>2 DEF BeginOuter, vars, PoolTyped, At
  <2>2. Length("loyalty", "open") < Left(r)
    BY <2>1 DEF Left, Length, Ended
  <2>3. "loyalty" \in PCs /\ "open" \in States
    BY DEF PCs, States
  <2> QED
    BY <2>1, <2>2, <2>3 DEF Advances
<1>3. CASE PoolStep(r)
  <2>1. PICK state \in States : outer' = [outer EXCEPT ![r] = state]
    BY <1>3 DEF PoolStep, PoolTyped, States
  <2>2. PICK label \in PCs :
           /\ pc' = [pc EXCEPT ![r] = label]
           /\ \/ pc[r] = "read" /\ label \in {"rejected", "deduct"}
              \/ pc[r] = "deduct" /\ label = "loyalty"
              \/ pc[r] = "loyalty" /\ label = "last"
              \/ pc[r] = "settle" /\ label = "done"
              \/ pc[r] = "last" /\ label = "insert"
              \/ pc[r] = "insert" /\ label \in {"settle", "done", "credit"}
              \/ pc[r] = "credit" /\ label \in {"done", "failed"}
              \/ pc[r] = "fund" /\ label = "last"
    BY <1>3 DEF PoolStep, Step, ConvertRead, ConvertDeduct, ConvertLoyalty, ConvertSettle,
                ReadLast, InsertRow, AddFundCredit, AddFundVictim, FundCreate, Go, At,
                PCs, Ended
  <2>3. Length(label, state) < Left(r)
    BY <2>2 DEF Left, Length, Ended
  <2> QED
    BY <2>1, <2>2, <2>3 DEF Advances
<1>4. CASE Starve(r) \/ UseClosed(r) \/ Throw(r)
  <2>1. Fail(r) /\ outer' = [outer EXCEPT ![r] = "closed"]
    BY <1>4 DEF Starve, UseClosed, Throw
  <2>2. pc' = [pc EXCEPT ![r] = "failed"] /\ pc[r] \in PCs \ (Ended \cup {"idle"})
    BY <2>1 DEF Fail, Go, PoolTyped
  <2>3. Length("failed", "closed") < Left(r)
    BY <2>2 DEF Left, Length, Ended, PCs
  <2>4. "failed" \in PCs /\ "closed" \in States
    BY DEF PCs, Ended, States
  <2> QED
    BY <2>1, <2>2, <2>3, <2>4 DEF Advances
<1> QED
  BY <1>1, <1>2, <1>3, <1>4

LEMMA LengthNatural ==
    ASSUME NEW label \in PCs, NEW state \in States
    PROVE  Length(label, state) \in Nat
  BY DEF Length, PCs, Ended

LEMMA LeftNatural == PoolTyped => \A r \in Requests : Left(r) \in Nat
  BY LengthNatural DEF PoolTyped, Left

\* No handler repeats anything, and no other request, failure or timeout gives
\* it more to do: every step a handler takes, on its own or by throwing, leaves it
\* less.  With EveryRequestEnds' fairness, what remains to be seen is that someone
\* can always go on.
THEOREM RequestsRunOut == PoolSpec => [][OnlyForward]_poolVars
<1>1. PoolInit => PoolTyped
  BY DEF PoolInit, Init, PoolTyped, PCs, States
<1>2. ASSUME PoolTyped, [PoolNext]_poolVars
      PROVE  PoolTyped' /\ (OnlyForward \/ UNCHANGED poolVars)
  <2>1. ASSUME NEW r \in Requests,
               \/ PoolArrive(r) \/ BeginOuter(r) \/ PoolStep(r) \/ Starve(r)
               \/ UseClosed(r) \/ Throw(r)
        PROVE  PoolTyped' /\ OnlyForward
    <3>1. PICK label \in PCs, state \in States : Advances(r, label, state)
      BY <1>2, <2>1, Moves
    <3>2. PoolTyped'
      BY <1>2, <3>1 DEF PoolTyped, Advances
    <3>3. Left(r)' < Left(r)
      BY <1>2, <3>1 DEF Left, Advances, PoolTyped
    <3>4. \A q \in Requests : Left(q) \in Nat
      BY <1>2, LeftNatural
    <3>5. ASSUME NEW q \in Requests, q # r
          PROVE  Left(q)' = Left(q) /\ ~(Resume(q) \/ Throw(q))
      <4>1. Left(q)' = Left(q)
        BY <1>2, <3>1, <3>5 DEF Left, Advances, PoolTyped
      <4>2. ASSUME Resume(q) \/ Throw(q) PROVE FALSE
        <5>1. PICK l \in PCs, o \in States : Advances(q, l, o)
          BY <1>2, <4>2, Moves DEF Resume
        <5>2. Left(q)' < Left(q)
          BY <1>2, <5>1 DEF Left, Advances, PoolTyped
        <5> QED
          BY <3>4, <4>1, <5>2
      <4> QED
        BY <4>1, <4>2
    <3>6. Left(r)' \in Nat
      BY <3>2, LengthNatural DEF Left, PoolTyped
    <3> QED
      BY <3>2, <3>3, <3>4, <3>5, <3>6 DEF OnlyForward
  <2>2. ASSUME NEW r \in Requests, CloseOuter(r)
        PROVE  PoolTyped' /\ OnlyForward
    <3>1. pc' = pc /\ outer' = [outer EXCEPT ![r] = "closed"] /\ outer[r] = "open"
      BY <2>2 DEF CloseOuter, vars
    <3>2. PoolTyped'
      BY <1>2, <3>1 DEF PoolTyped, States
    <3>3. \A q \in Requests : Left(q) \in Nat /\ Left(q)' = Left(q)
      <4>1. \A q \in Requests :
               pc'[q] = pc[q] /\ (outer'[q] = "none" <=> outer[q] = "none")
        BY <1>2, <3>1 DEF PoolTyped
      <4> QED
        BY <1>2, <4>1, LeftNatural DEF Left, Length
    <3>4. ASSUME NEW q \in Requests, Resume(q) \/ Throw(q) PROVE FALSE
      <4>1. PICK l \in PCs, o \in States : Advances(q, l, o)
        BY <1>2, <3>4, Moves DEF Resume
      <4>2. Left(q)' < Left(q)
        BY <1>2, <4>1 DEF Left, Advances, PoolTyped
      <4> QED
        BY <3>3, <4>2
    <3> QED
      BY <3>2, <3>3, <3>4 DEF OnlyForward
  <2>3. ASSUME UNCHANGED poolVars PROVE PoolTyped'
    BY <1>2, <2>3 DEF PoolTyped, poolVars, vars, db, history
  <2>4. ASSUME AllAnswered, UNCHANGED outer PROVE UNCHANGED poolVars
    BY <2>4 DEF AllAnswered, poolVars
  <2> QED
    BY <1>2, <2>1, <2>2, <2>3, <2>4 DEF PoolNext, Resume
<1> QED
  BY <1>1, <1>2, PTL DEF PoolSpec

=============================================================================
