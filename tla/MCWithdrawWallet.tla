-------------------------- MODULE MCWithdrawWallet --------------------------
(* WithdrawWallet with small sets of owners and requests for TLC.          *)
EXTENDS WithdrawWallet, TLC

\* Requests differ only in what Init lets them ask for; the stores, and the
\* delivery men, are interchangeable.
OwnerSymmetry ==
    Permutations(Requests) \cup Permutations(Stores) \cup Permutations(Couriers)

=============================================================================
