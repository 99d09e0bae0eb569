--------------------------- MODULE MCConversations ---------------------------
(* Conversations with one order and three accounts of two users for TLC.   *)
EXTENDS Conversations, TLC

MCUsers == {"ann", "bob"}

MCRoles == {"CUSTOMER", "DELIVERY"}

\* Bob is a courier and a customer.
MCAccounts ==
    {As("ann", "CUSTOMER"), As("bob", "DELIVERY"), As("bob", "CUSTOMER")}

\* Order o2 has no courier yet.
MCCustomer == [o \in Orders |-> "ann"]

MCDeliveryMan == [o \in Orders |-> IF o = "o1" THEN "bob" ELSE Nobody]

MCPosts == [kind : {"post"}, by : MCAccounts, to : MCAccounts]

RequestSymmetry == Permutations(Requests)

=============================================================================
