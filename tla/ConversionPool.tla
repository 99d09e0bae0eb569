--------------------------- MODULE ConversionPool ---------------------------
(***************************************************************************)
(* CustomerLedger with the connections its statements run on.  Prisma hands *)
(* out at most PoolSize connections: a statement outside a transaction      *)
(* borrows one, a transaction keeps one until it ends.  convertPoints holds *)
(* the connection of its $transaction while the calls inside it, which use  *)
(* this.prisma, ask the pool for another one.  Waiting ends by a timeout:   *)
(* pool_timeout for a statement, maxWait for the start of a transaction;    *)
(* an open transaction is closed after its own timeout.                     *)
(***************************************************************************)
EXTENDS CustomerLedger, FiniteSets

CONSTANT PoolSize   \* connection_limit; without one, two per CPU and one more

ASSUME PoolAssumption == PoolSize \in Nat \ {0}

VARIABLE outer      \* the $transaction of createTransactionAndLoyaltyPoint

poolVars == <<vars, outer>>

-----------------------------------------------------------------------------
\* createTransaction's and addFund's own transaction is open.
InsideOwn == {r \in Requests : pc[r] \in {"insert", "credit"}}

InsideOuter == {r \in Requests : outer[r] = "open"}

Free == Cardinality(InsideOwn) + Cardinality(InsideOuter) < PoolSize

\* The next statement of r runs on a connection that r does not hold yet.
Borrows(r) == pc[r] \in {"read", "deduct", "fund", "loyalty", "last"}

PoolInit == Init /\ outer = [r \in Requests |-> "none"]

PoolArrive(r) == Arrive(r) /\ UNCHANGED outer

\* this.prisma.$transaction, after the update of the customer.
BeginOuter(r) ==
    /\ At(r, "loyalty") /\ outer[r] = "none"
    /\ Free
    /\ outer' = [outer EXCEPT ![r] = "open"]
    /\ UNCHANGED vars

\* A statement of a handler.  The commit of the outer transaction gives its
\* connection back.
PoolStep(r) ==
    /\ Borrows(r) => Free
    /\ At(r, "loyalty") => outer[r] # "none"
    /\ At(r, "settle") => outer[r] = "open"
    /\ Step(r)
    /\ outer' = [outer EXCEPT ![r] = IF At(r, "settle") THEN "closed" ELSE @]

\* A handler throws: the outer transaction, if there is one, is rolled back.
Throw(r) == Fail(r) /\ outer' = [outer EXCEPT ![r] = "closed"]

\* Mutant: only the start of a transaction gives up, by maxWait.
Starve_MaxWaitOnly(r) ==
    At(r, "last") /\ req[r].kind # "convert" /\ ~Free /\ Throw(r)

\* pool_timeout or maxWait.
Starve(r) == Borrows(r) /\ ~Free /\ Throw(r)

\* The timeout of the outer transaction: the handler goes on until it uses it.
CloseOuter(r) ==
    /\ outer[r] = "open"
    /\ outer' = [outer EXCEPT ![r] = "closed"]
    /\ UNCHANGED vars

\* tx.customer.update on a transaction that is closed already.
UseClosed(r) == At(r, "settle") /\ outer[r] # "open" /\ Throw(r)

Resume(r) == BeginOuter(r) \/ PoolStep(r) \/ Starve(r) \/ UseClosed(r)

PoolNext ==
    \/ \E r \in Requests :
          PoolArrive(r) \/ Resume(r) \/ Throw(r) \/ CloseOuter(r)
    \/ AllAnswered /\ UNCHANGED outer

PoolSpec == PoolInit /\ [][PoolNext]_poolVars

\* The event loop resumes every handler whose statement can run, the database
\* grants a free lock or picks a victim at once, and a wait for a connection ends,
\* with one or by its timeout.
PoolFairSpec == PoolSpec /\ \A r \in Requests : WF_poolVars(Resume(r))

=============================================================================
