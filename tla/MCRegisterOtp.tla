---------------------------- MODULE MCRegisterOtp ----------------------------
(* RegisterOtp with small sets of calls for TLC.                           *)
EXTENDS RegisterOtp, TLC

\* Slots are named by their role: one phone as a customer, and another slot
\* of the same phone as a vendor.
MCPhones == {"phone"}

MCOnePhone == [s \in Slots |-> "phone"]

CallSymmetry == Permutations(Generations) \cup Permutations(Verifications)

\* Bound: four requests only for one slot and one code, and next to one
\* verification; two requests once two slots or two codes are involved.
Requested == {g \in Generations : gpc[g] # "idle"}

Unlike == {g \in Generations : slot[g] # "customer" \/ code[g] # "a"}

Verifying == {v \in Verifications : vpc[v] # "idle"}

FewCalls ==
    /\ Unlike = {} \/ Cardinality(Unlike \cup Requested) <= 2
    /\ Cardinality(Requested) <= 3 \/ Cardinality(Verifying) <= 1

=============================================================================
