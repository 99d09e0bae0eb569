------------------------------ MODULE Passbook ------------------------------
(***************************************************************************)
(* What the statement of a customer promises, without the requests,        *)
(* connections and transactions behind it: entries are only ever added,    *)
(* each continues from the balance of an entry of the same customer or     *)
(* from zero, and an entry that pays into the wallet does so at the moment *)
(* it appears.  CustomerLedger implements it.                              *)
(***************************************************************************)
EXTENDS Integers

CONSTANTS
    Ids,        \* one for each entry that may be made
    Customers,
    Changes     \* what an entry may add to the balance

VARIABLES
    book,       \* the entries made so far
    paid        \* the ids whose amount is in the wallet

Init == book = {} /\ paid = {}

\* The balances a new entry of a customer may continue from.
Balances(cust) == {0} \cup {e.balance : e \in {f \in book : f.cust = cust}}

\* pays tells whether the entry pays into the wallet.
Enter(id, cust, pays, change) ==
    /\ \A e \in book : e.id # id
    /\ \E balance \in Balances(cust) :
          book' = book \cup {[id |-> id, cust |-> cust, pays |-> pays,
                              change |-> change, balance |-> balance + change]}
    /\ paid' = IF pays THEN paid \cup {id} ELSE paid

Next ==
    \E id \in Ids, cust \in Customers, pays \in BOOLEAN, change \in Changes :
        Enter(id, cust, pays, change)

Spec == Init /\ [][Next]_<<book, paid>>

=============================================================================
