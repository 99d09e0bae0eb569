-------------------------- MODULE MCCustomerLedger --------------------------
(* CustomerLedger with small sets of requests and customers for TLC.       *)
EXTENDS CustomerLedger, TLC

\* Requests differ only in what they ask for, which Init chooses freely.
RequestSymmetry == Permutations(Requests)

\* Amounts around the checks: 1 passes the limit, 2 does not; the body may hold a
\* negative one.
MCPointAmounts == {-1, 1, 2}

MCFundAmounts == {-1, 2}

\* Bound: one request has a negative amount, and fund, which only inserts rows, is
\* called with one amount.
FewAmounts ==
    /\ \A q, r \in Requests : req[q].amount < 0 /\ req[r].amount < 0 => q = r
    /\ \A r \in Requests : req[r].kind = "fund" => req[r].amount = 2

=============================================================================
