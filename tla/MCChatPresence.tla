--------------------------- MODULE MCChatPresence ---------------------------
(* ChatPresence with a handful of sockets for TLC.                         *)
EXTENDS ChatPresence

MCUsers == {"courier", "customer"}

MCRoles == {"DELIVERY", "CUSTOMER"}

MCCouriers == {"courier"}

Account(u, r) == [user |-> u, role |-> r]

\* The courier is a customer with another session as well.
MCOwner == [j \in Sessions |->
    Account("courier", IF j = "work" THEN "DELIVERY" ELSE "CUSTOMER")]

\* The third socket is of the customer session.
MCTokens == [s \in Sockets |-> IF s = "s3" THEN "home" ELSE "work"]

\* Bound: s1 meets s2 or s3; next to s3 only the session of s3 ends, and only
\* after s3 connects.
TwoSockets ==
    \/ transport["s2"] = "new" /\ transport["s3"] # "new" /\ session["work"] = "valid"
    \/ transport["s3"] = "new" /\ session["home"] = "valid"

=============================================================================
