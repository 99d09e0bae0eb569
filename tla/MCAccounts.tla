----------------------------- MODULE MCAccounts -----------------------------
(***************************************************************************)
(* Three overlapping and successive requests of two customers, either of    *)
(* whom may be new, still to be verified, or verified with a device.  Both  *)
(* phones are also used by a store, which only adds verifications to those  *)
(* with a code of the customer, and keeps the customers symmetric.          *)
(***************************************************************************)
EXTENDS Accounts, TLC

\* At most one request is cut off.
Bound == Cardinality(failed) <= 1

Symmetry == Permutations(Calls) \cup Permutations(Accounts)
=============================================================================
