--------------------------- MODULE CustomerLedger ---------------------------
(***************************************************************************)
(* A customer's money: the loyalty points and wallet columns of the        *)
(* customer row, the ledger (table transactions), the loyalty_point and    *)
(* the fund tables, and the three endpoints that write them               *)
(*   convert   POST /convert-points    TransactionService.convertPoints    *)
(*   addFund   POST /wallet/add-fund   WalletService.addFund               *)
(*   fund      POST /fund              FundService.create                  *)
(*                                                                         *)
(* Each request is a process.  An action is the code between two awaits    *)
(* whose order other requests can observe: a statement outside a           *)
(* transaction, or a statement of a transaction together with its commit   *)
(* when the transaction ends there.  The database is MySQL under           *)
(* REPEATABLE READ: a plain read sees committed rows only and takes no     *)
(* lock; inserting a ledger row takes a shared lock on the customer row    *)
(* (foreign key) and updating the customer an exclusive one.               *)
(***************************************************************************)
EXTENDS Integers, Functions

CONSTANTS
    Requests,           \* the HTTP requests that ever arrive
    Customers,          \* customer ids
    PointAmounts,       \* values of body.points
    FundAmounts,        \* values of body.amount and body.price
    LoyaltyOn,          \* setting customerLoyaltyPoints, read as a BOOLEAN
    OrderPoints,        \* setting customerOrderPoints
    InitPoints,         \* earningPoints of every customer at the start
    InitWallet          \* wallet of every customer at the start

ASSUME AmountsAssumption ==
    /\ PointAmounts \subseteq Int
    /\ FundAmounts \subseteq Int
    /\ LoyaltyOn \in BOOLEAN
    /\ OrderPoints \in Int

ASSUME InitialAssumption == InitPoints \in Nat /\ InitWallet \in Int

VARIABLES
    pc,         \* the next step of each request
    req,        \* what each request asks for
    rd,         \* the customer row each conversion has read and still uses
    base,       \* the ledger balance each request has read
    points,     \* Customer.earningPoints
    wallet,     \* Customer.wallet
    ledger,     \* the row of table transactions each request inserted
    now,        \* the clock behind createdAt
    loyalty,    \* rows of table loyalty_point
    funds,      \* rows of table fund, by the request that created them
    applied,    \* auxiliary: requests whose amount is in the customer row
    stale,      \* auxiliary: a conversion wrote over a value it had not read
    saw         \* auxiliary: the ledger rows each request's findFirst chose from

history == <<applied, stale, saw>>

vars == <<pc, req, rd, base, points, wallet, ledger, now, loyalty, funds,
          applied, stale, saw>>

db == <<points, wallet, ledger, now, loyalty, funds>>

-----------------------------------------------------------------------------
Request ==
    [kind : {"convert"}, cust : Customers, amount : PointAmounts]
        \cup [kind : {"addFund", "fund"}, cust : Customers, amount : FundAmounts]

Ended == {"done", "rejected", "failed"}

PCs == {"idle", "read", "deduct", "loyalty", "fund", "last", "insert",
        "settle", "credit"} \cup Ended

\* A ledger row; at = 0 stands for no row.
Row == [at : Nat, credit : Int, debit : Int, balance : Int]

NoRow == [at |-> 0, credit |-> 0, debit |-> 0, balance |-> 0]

Loyalty == [req : Requests, converted : Int, current : Int]

Init ==
    /\ pc = [r \in Requests |-> "idle"]
    /\ req \in [Requests -> Request]
    /\ rd = [r \in Requests |-> [points |-> 0, wallet |-> 0]]
    /\ base = [r \in Requests |-> 0]
    /\ points = [c \in Customers |-> InitPoints]
    /\ wallet = [c \in Customers |-> InitWallet]
    /\ ledger = [r \in Requests |-> NoRow]
    /\ now = 1
    /\ loyalty = {}
    /\ funds = {}
    /\ applied = {}
    /\ stale = [c \in Customers |-> FALSE]
    /\ saw = [r \in Requests |-> {}]

Cust(r) == req[r].cust

Go(r, label) == pc' = [pc EXCEPT ![r] = label]

At(r, label) == pc[r] = label

HasRow(r) == ledger[r].at > 0

\* Requests inside addFund's transaction after its insert: their ledger row is
\* not committed and they share the lock on the customer row.
InTransaction(c) == {r \in Requests : At(r, "credit") /\ Cust(r) = c}

\* The ledger rows of a customer that a plain read can see.
Committed(c) == {r \in Requests : HasRow(r) /\ Cust(r) = c /\ ~At(r, "credit")}

\* Mutant: findFirst without the order.
Newest_Unordered(c) == Committed(c)

\* Mutant: the newest row may belong to a transaction that is still open.
Newest_Dirty(c) ==
    LET rows == {r \in Requests : HasRow(r) /\ Cust(r) = c} IN
    {r \in rows : \A q \in rows : ledger[q].at <= ledger[r].at}

\* findFirst(orderBy createdAt desc): rows of one millisecond tie.
Newest(c) == {r \in Committed(c) :
                 \A q \in Committed(c) : ledger[q].at <= ledger[r].at}

-----------------------------------------------------------------------------
(* The request arrives and its endpoint's handler is called.               *)

\* customerLoyaltyPoints is stored with dataType BOOLEAN, so getSettings
\* returns true or false and `body.points > true` compares with 1.
Limit == IF LoyaltyOn THEN 1 ELSE 0

Arrive(r) ==
    /\ At(r, "idle")
    /\ \/ /\ req[r].kind = "convert"
          /\ Go(r, IF req[r].amount > Limit THEN "rejected" ELSE "read")
       \/ req[r].kind = "addFund" /\ Go(r, "last")
       \/ req[r].kind = "fund" /\ Go(r, "fund")
    /\ UNCHANGED <<req, rd, base, db, history>>

-----------------------------------------------------------------------------
(* convertPoints                                                           *)

\* Mutant: the comparison with earningPoints is dropped.
ConvertRead_Unchecked(r) ==
    /\ At(r, "read")
    /\ Go(r, "deduct")
    /\ rd' = [rd EXCEPT ![r] = [points |-> points[Cust(r)],
                                wallet |-> wallet[Cust(r)]]]
    /\ UNCHANGED <<req, base, db, history>>

\* Mutant: the loyalty_point row is written before the customer.
ConvertRead_LoyaltyFirst(r) ==
    /\ At(r, "read")
    /\ req[r].amount <= points[Cust(r)]
    /\ Go(r, "loyalty")
    /\ rd' = [rd EXCEPT ![r] = [points |-> points[Cust(r)],
                                wallet |-> wallet[Cust(r)]]]
    /\ UNCHANGED <<req, base, db, history>>

\* The customer row is read once; every later write is computed from it.
ConvertRead(r) ==
    /\ At(r, "read")
    /\ LET c == Cust(r) IN
       IF req[r].amount > points[c]
       THEN Go(r, "rejected") /\ rd' = rd
       ELSE /\ Go(r, "deduct")
            /\ rd' = [rd EXCEPT ![r] = [points |-> points[c],
                                         wallet |-> wallet[c]]]
    /\ UNCHANGED <<req, base, db, history>>

\* Mutant: the wallet is credited with the ledger's amount.
ConvertDeduct_Priced(r) ==
    LET c == Cust(r)
        a == req[r].amount
    IN  /\ At(r, "deduct")
        /\ InTransaction(c) = {}
        /\ points' = [points EXCEPT ![c] = rd[r].points - a]
        /\ wallet' = [wallet EXCEPT ![c] = rd[r].wallet + a * OrderPoints]
        /\ applied' = applied \cup {r}
        /\ stale' = [stale EXCEPT ![c] = \/ @
                                         \/ points[c] # rd[r].points
                                         \/ wallet[c] # rd[r].wallet]
        /\ Go(r, "loyalty")
        /\ UNCHANGED <<req, rd, base, ledger, now, loyalty, funds, saw>>

\* The update outside any transaction: absolute values of both columns.  It
\* waits for the lock of the addFund transactions of this customer.
ConvertDeduct(r) ==
    LET c == Cust(r)
        a == req[r].amount
    IN  /\ At(r, "deduct")
        /\ InTransaction(c) = {}
        /\ points' = [points EXCEPT ![c] = rd[r].points - a]
        /\ wallet' = [wallet EXCEPT ![c] = rd[r].wallet + a]
        /\ applied' = applied \cup {r}
        /\ stale' = [stale EXCEPT ![c] = \/ @
                                         \/ points[c] # rd[r].points
                                         \/ wallet[c] # rd[r].wallet]
        /\ Go(r, "loyalty")
        /\ UNCHANGED <<req, rd, base, ledger, now, loyalty, funds, saw>>

\* Mutant: the column current is left out.
ConvertLoyalty_NoCurrent(r) ==
    /\ At(r, "loyalty")
    /\ loyalty' = loyalty \cup {[req |-> r, converted |-> req[r].amount]}
    /\ Go(r, "last")
    /\ UNCHANGED <<req, rd, base, points, wallet, ledger, now, funds, history>>

\* createLoyaltyPoint, on its own connection although the caller is inside
\* $transaction: it is committed at once.
ConvertLoyalty(r) ==
    /\ At(r, "loyalty")
    /\ loyalty' = loyalty \cup {[req |-> r, converted |-> req[r].amount,
                                 current |-> rd[r].points - req[r].amount]}
    /\ Go(r, "last")
    /\ UNCHANGED <<req, rd, base, points, wallet, ledger, now, funds, history>>

\* The last statement of createTransactionAndLoyaltyPoint: earningPoints is
\* written a second time, from the read that began the conversion.
ConvertSettle(r) ==
    LET c == Cust(r)
        left == rd[r].points - req[r].amount
    IN  /\ At(r, "settle")
        /\ InTransaction(c) = {}
        /\ points' = [points EXCEPT ![c] = left]
        /\ stale' = [stale EXCEPT ![c] = @ \/ points[c] # left]
        /\ Go(r, "done")
        /\ UNCHANGED <<req, rd, base, wallet, ledger, now, loyalty, funds,
                       applied, saw>>

-----------------------------------------------------------------------------
(* Ledger rows: createTransaction, and the same two statements in addFund. *)

ReadLast(r) ==
    /\ At(r, "last")
    /\ \/ Committed(Cust(r)) = {} /\ base' = [base EXCEPT ![r] = 0]
       \/ \E q \in Newest(Cust(r)) :
             base' = [base EXCEPT ![r] = ledger[q].balance]
    /\ saw' = [saw EXCEPT ![r] = Committed(Cust(r))]
    /\ Go(r, "insert")
    /\ UNCHANGED <<req, rd, db, applied, stale>>

Credit(r) == IF req[r].kind = "convert" THEN 0 ELSE req[r].amount

Debit(r) == IF req[r].kind = "convert" THEN req[r].amount * OrderPoints ELSE 0

NewRow(r) == [at |-> now, credit |-> Credit(r), debit |-> Debit(r),
              balance |-> base[r] + Credit(r) - Debit(r)]

\* The insert ends createTransaction's transaction; addFund goes on to credit
\* the wallet in the same transaction.
InsertRow(r) ==
    /\ At(r, "insert")
    /\ ledger' = [ledger EXCEPT ![r] = NewRow(r)]
    /\ now' \in {now, now + 1}
    /\ \/ req[r].kind = "convert" /\ Go(r, "settle")
       \/ req[r].kind = "fund" /\ Go(r, "done")
       \/ req[r].kind = "addFund" /\ Go(r, "credit")
    /\ UNCHANGED <<req, rd, base, points, wallet, loyalty, funds, history>>

-----------------------------------------------------------------------------
(* addFund and FundService.create                                          *)

\* Mutant: the wallet is set instead of incremented.
AddFundCredit_Set(r) ==
    LET c == Cust(r)
        a == req[r].amount
    IN  /\ At(r, "credit")
        /\ InTransaction(c) = {r}
        /\ wallet' = [wallet EXCEPT ![c] = a]
        /\ applied' = applied \cup {r}
        /\ Go(r, "done")
        /\ UNCHANGED <<req, rd, base, points, ledger, now, loyalty, funds,
                       stale, saw>>

\* The increment and the commit, once no other transaction shares the lock.
AddFundCredit(r) ==
    LET c == Cust(r)
        a == req[r].amount
    IN  /\ At(r, "credit")
        /\ InTransaction(c) = {r}
        /\ wallet' = [wallet EXCEPT ![c] = @ + a]
        /\ applied' = applied \cup {r}
        /\ Go(r, "done")
        /\ UNCHANGED <<req, rd, base, points, ledger, now, loyalty, funds,
                       stale, saw>>

\* Mutant: two transactions that share the lock are never separated.
AddFundVictim_ConversionsOnly(r) ==
    /\ At(r, "credit")
    /\ \E q \in Requests : Cust(q) = Cust(r) /\ pc[q] \in {"deduct", "settle"}
    /\ ledger' = [ledger EXCEPT ![r] = NoRow]
    /\ Go(r, "failed")
    /\ UNCHANGED <<req, rd, base, points, wallet, now, loyalty, funds, history>>

\* Two requests want the customer row exclusively and one shares it already:
\* the database picks a victim and rolls its transaction back.
AddFundVictim(r) ==
    /\ At(r, "credit")
    /\ \/ InTransaction(Cust(r)) # {r}
       \/ \E q \in Requests : Cust(q) = Cust(r) /\ pc[q] \in {"deduct", "settle"}
    /\ ledger' = [ledger EXCEPT ![r] = NoRow]
    /\ Go(r, "failed")
    /\ UNCHANGED <<req, rd, base, points, wallet, now, loyalty, funds, history>>

FundCreate(r) ==
    /\ At(r, "fund")
    /\ funds' = funds \cup {r}
    /\ Go(r, "last")
    /\ UNCHANGED <<req, rd, base, points, wallet, ledger, now, loyalty, history>>

\* Mutant: addFund's statements do not share a transaction.
Fail_NoRollback(r) ==
    /\ pc[r] \notin Ended \cup {"idle"}
    /\ Go(r, "failed")
    /\ UNCHANGED <<req, rd, base, db, history>>

\* The process restarts or the connection is lost: what is committed stays, an
\* open transaction is rolled back, nothing is undone by the program.
Fail(r) ==
    /\ pc[r] \notin Ended \cup {"idle"}
    /\ ledger' = [ledger EXCEPT ![r] = IF At(r, "credit") THEN NoRow ELSE @]
    /\ Go(r, "failed")
    /\ UNCHANGED <<req, rd, base, points, wallet, now, loyalty, funds, history>>

-----------------------------------------------------------------------------
Step(r) ==
    \/ ConvertRead(r)
    \/ ConvertDeduct(r)
    \/ ConvertLoyalty(r)
    \/ ConvertSettle(r)
    \/ ReadLast(r)
    \/ InsertRow(r)
    \/ AddFundCredit(r)
    \/ AddFundVictim(r)
    \/ FundCreate(r)

\* Every request has been answered: the server idles.
AllAnswered == (\A r \in Requests : pc[r] \in Ended) /\ UNCHANGED vars

Next == (\E r \in Requests : Arrive(r) \/ Step(r) \/ Fail(r)) \/ AllAnswered

Spec == Init /\ [][Next]_vars

-----------------------------------------------------------------------------
(* Properties                                                              *)

\* Type correctness: ids, statuses and rows keep the shape of the schema.
TypeOK ==
    /\ pc \in [Requests -> PCs]
    /\ req \in [Requests -> Request]
    /\ rd \in [Requests -> [points : Int, wallet : Int]]
    /\ base \in [Requests -> Int]
    /\ points \in [Customers -> Int]
    /\ wallet \in [Customers -> Int]
    /\ ledger \in [Requests -> Row]
    /\ now \in Nat \ {0}
    /\ loyalty \subseteq Loyalty
    /\ funds \subseteq Requests
    /\ applied \subseteq Requests
    /\ stale \in [Customers -> BOOLEAN]
    /\ saw \in [Requests -> SUBSET Requests]

\* The amounts of a customer's requests that the customer row was changed by:
\* the points converted, and what addFund added to the wallet.
Applied(c, kind) == {r \in applied : Cust(r) = c /\ req[r].kind = kind}

Total(rs) == SumFunctionOnSet([r \in Requests |-> req[r].amount], rs)

Moved(c, kind) == Total(Applied(c, kind))

Converted(c) == Moved(c, "convert")

Credited(c) == Moved(c, "addFund")

\* However conversions overlap, and whatever integer body.points holds, no
\* write of convertPoints leaves a customer, or a loyalty_point statement line,
\* with fewer than zero points: both writes use the value that was checked.
PointsNeverNegative ==
    /\ \A c \in Customers : points[c] >= 0
    /\ \A l \in loyalty : l.current >= 0

\* What is on a wallet, and what is left of the points, by some of the requests
\* that wrote the customer row, each counted once.
CreditedBy(c, value) ==
    \E rs \in SUBSET {r \in applied : Cust(r) = c} : value = InitWallet + Total(rs)

TakenBy(c, value) ==
    \E rs \in SUBSET Applied(c, "convert") : value = InitPoints - Total(rs)

\* Overlapping requests can lose a write of convertPoints or addFund, stale values
\* can come back, and amounts may be negative: but no interleaving counts the amount
\* of a request twice, or with another value, in either column.
NothingCountedTwice ==
    \A c \in Customers : CreditedBy(c, wallet[c]) /\ TakenBy(c, points[c])

\* The accounts are exact as long as convertPoints never wrote over a value
\* that changed since it was read: a stale write is the only way a conversion
\* or a fund is lost or a point is spent twice, failures included.
ExactUnlessStale ==
    \A c \in Customers : ~stale[c] =>
        /\ wallet[c] = InitWallet + Converted(c) + Credited(c)
        /\ points[c] = InitPoints - Converted(c)

\* Requests whose rows were made one after the other: of any two, one chose
\* from rows that already held the other's, and in a later millisecond.
OneByOne(rows) ==
    \A p, q \in rows : p # q =>
        /\ p \in saw[q] \/ q \in saw[p]
        /\ ledger[p].at # ledger[q].at

\* When the rows a request built on were made one after the other, its balance
\* is the sum of everything these requests and its own moved, whatever was
\* rolled back, failed or ran in between: only requests of one customer that
\* overlap between createTransaction's two statements, or share a millisecond,
\* can make the statement of the customer add up wrong.
BalancesAddUp ==
    \A r \in Requests : HasRow(r) /\ OneByOne(saw[r]) =>
        ledger[r].balance =
            SumFunctionOnSet([q \in Requests |-> Credit(q) - Debit(q)], saw[r] \cup {r})

\* A conversion that stops half-way has done a prefix of deduct, loyalty row,
\* ledger row; a fund that stops half-way a prefix of fund row, ledger row.
\* Only a finished request has them all.
EffectsInOrder ==
    \A r \in Requests :
        LET lines == {l \in loyalty : l.req = r} IN
        /\ req[r].kind = "convert" =>
              /\ lines # {} => r \in applied
              /\ HasRow(r) => lines # {}
        /\ req[r].kind = "fund" => (HasRow(r) => r \in funds)
        /\ At(r, "done") => HasRow(r)

\* The entry a committed ledger row is.
Entry(r) ==
    [id |-> r, cust |-> Cust(r), pays |-> req[r].kind = "addFund",
     change |-> ledger[r].credit - ledger[r].debit, balance |-> ledger[r].balance]

Book == {Entry(r) : r \in {q \in Requests : q \in Committed(Cust(q))}}

Paid == {r \in applied : req[r].kind = "addFund"}

Statement ==
    INSTANCE Passbook WITH
        Ids <- Requests,
        Changes <- FundAmounts \cup {-(p * OrderPoints) : p \in PointAmounts},
        book <- Book,
        paid <- Paid

\* Seen from outside, the table is a passbook: whatever requests overlap, fail
\* and are rolled back, committed rows are only ever added, one at a time, each
\* on the balance of a row that is committed, and addFund's together with the
\* increment of the wallet.
ImplementsPassbook == Statement!Spec

\* Every request that arrived is answered: requests that wait for each other's
\* lock on the customer row are separated by the choice of a victim, conversions
\* that wait for each other's connection (ConversionPool) by a timeout.
EveryRequestEnds ==
    \A r \in Requests : (pc[r] # "idle") ~> (pc[r] \in Ended)

=============================================================================
