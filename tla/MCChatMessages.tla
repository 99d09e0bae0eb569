--------------------------- MODULE MCChatMessages ---------------------------
(* Conversations and their messages with the accounts of MCConversations.  *)
EXTENDS ChatMessages, MCConversations

\* Posts of an account to itself are left to the run on posts alone; an order
\* without a courier refuses whoever asks, so one caller is enough.
MCRequests ==
    {i \in Request : IF i.kind = "post" THEN i.by # i.to
                     ELSE i.order = "o2" => i.by = As("ann", "CUSTOMER")}

ChatSymmetry ==
    RequestSymmetry \cup Permutations(Messages) \cup Permutations(Fetches)
=============================================================================
