---------------------------- MODULE Conversations ----------------------------
(***************************************************************************)
(* How conversations come into being (ChatService):                        *)
(*   createConversationWithDto   POST /chat, for any receiver              *)
(*   findConversationByOrderId   GET /chat?orderId, for the other side of  *)
(*                               an order                                  *)
(* Both look a conversation up and make one when there is none.  The first *)
(* inserts it with its two members in one statement, the second inserts an *)
(* empty conversation and then its members.  Neither takes a lock or has a *)
(* unique index behind it.                                                 *)
(*                                                                         *)
(* A request makes at most one conversation, so the request that makes it  *)
(* is its id.                                                              *)
(***************************************************************************)
EXTENDS FiniteSets

CONSTANTS
    Requests,
    Users,
    Roles,
    Accounts,    \* the accounts [user, role] that log in or are written to
    Orders,      \* rows of table order, with a customer and a delivery man
    Customer,
    DeliveryMan, \* the courier of each order, Nobody until it has one
    Nobody,      \* no user
    Inputs,      \* the requests a client may make
    None         \* no conversation

Account == [user : Users, role : Roles]

Request ==
    [kind : {"post"}, by : Accounts, to : Accounts]
        \cup [kind : {"order"}, by : Accounts, order : Orders]

ASSUME RolesAssumption ==
    {"CUSTOMER", "DELIVERY"} \subseteq Roles /\ Accounts \subseteq Account

ASSUME OrdersAssumption ==
    /\ Customer \in [Orders -> Users]
    /\ DeliveryMan \in [Orders -> Users \cup {Nobody}]
    /\ Nobody \notin Users

ASSUME InputsAssumption == Inputs \subseteq Request /\ None \notin Requests

VARIABLES
    made,     \* the rows of table conversation
    members,  \* the accounts with a row in user_conversation, for each
    req,      \* what each request asks for
    pc,       \* the next step of each request
    answer,   \* the conversation each request found or made
    seen      \* auxiliary: the conversations there when each looked one up

vars == <<made, members, req, pc, answer, seen>>

-----------------------------------------------------------------------------
Init ==
    /\ made = {}
    /\ members = [c \in Requests |-> {}]
    /\ req \in [Requests -> Inputs]
    /\ pc = [r \in Requests |-> "find"]
    /\ answer = [r \in Requests |-> None]
    /\ seen = [r \in Requests |-> {}]

As(user, role) == [user |-> user, role |-> role]

\* Mutant: the lookup asks for the receiver's row only.
PostMatches_ReceiverOnly(r) == {c \in made : req[r].to \in members[c]}

\* The conversations the where clause of createConversationWithDto selects.
PostMatches(r) == {c \in made : {req[r].to, req[r].by} \subseteq members[c]}

\* Mutant: only the clause meant for couriers is left.
OrderMatches_SecondOnly(r) ==
    LET me == req[r].by.user
        o == req[r].order IN
    {c \in made : {As(Customer[o], "DELIVERY"), As(me, "CUSTOMER")}
                      \subseteq members[c]}

\* The same for findConversationByOrderId: both alternatives ask for the
\* caller as a customer, whatever the caller's role.
OrderMatches(r) ==
    LET me == req[r].by.user
        o == req[r].order IN
    {c \in made : \E other \in {DeliveryMan[o], Customer[o]} :
        {As(me, "CUSTOMER"), As(other, "DELIVERY")} \subseteq members[c]}

\* The members of the conversation each of the two makes.
PostMembers(r) == {req[r].by, req[r].to}

OrderMembers(r) ==
    LET me == req[r].by.user
        o == req[r].order IN
    IF req[r].by.role = "CUSTOMER"
    THEN {As(me, "CUSTOMER"), As(DeliveryMan[o], "DELIVERY")}
    ELSE {As(me, "DELIVERY"), As(Customer[o], "CUSTOMER")}

-----------------------------------------------------------------------------
(* createConversationWithDto.                                              *)

PostFind(r) ==
    /\ pc[r] = "find"
    /\ req[r].kind = "post"
    /\ IF PostMatches(r) = {}
       THEN /\ pc' = [pc EXCEPT ![r] = "create"]
            /\ UNCHANGED answer
       ELSE /\ pc' = [pc EXCEPT ![r] = "done"]
            /\ \E c \in PostMatches(r) : answer' = [answer EXCEPT ![r] = c]
    /\ seen' = [seen EXCEPT ![r] = {c \in made : members[c] # {}}]
    /\ UNCHANGED <<made, members, req>>

PostCreate(r) ==
    /\ pc[r] = "create"
    /\ req[r].kind = "post"
    /\ made' = made \cup {r}
    /\ members' = [members EXCEPT ![r] = PostMembers(r)]
    /\ answer' = [answer EXCEPT ![r] = r]
    /\ pc' = [pc EXCEPT ![r] = "done"]
    /\ UNCHANGED <<req, seen>>

-----------------------------------------------------------------------------
(* findConversationByOrderId.                                              *)

\* Mutant: an order without a delivery man is not refused.
OrderFind_NoCourier(r) ==
    /\ pc[r] = "find"
    /\ req[r].kind = "order"
    /\ OrderMatches(r) = {}
    /\ pc' = [pc EXCEPT ![r] = "create"]
    /\ seen' = [seen EXCEPT ![r] = {c \in made : members[c] # {}}]
    /\ UNCHANGED <<made, members, req, answer>>

\* The first query reads the order, which nothing in the program changes.
\* `secondUser.DeliveryMan.id` throws for an order without a delivery man.
OrderFind(r) ==
    /\ pc[r] = "find"
    /\ req[r].kind = "order"
    /\ DeliveryMan[req[r].order] # Nobody
    /\ IF OrderMatches(r) = {}
       THEN /\ pc' = [pc EXCEPT ![r] = "create"]
            /\ UNCHANGED answer
       ELSE /\ pc' = [pc EXCEPT ![r] = "done"]
            /\ \E c \in OrderMatches(r) : answer' = [answer EXCEPT ![r] = c]
    /\ seen' = [seen EXCEPT ![r] = {c \in made : members[c] # {}}]
    /\ UNCHANGED <<made, members, req>>

\* Mutant: the members are inserted by the same call.
OrderCreate_Forgets(r) ==
    /\ pc[r] = "create"
    /\ req[r].kind = "order"
    /\ made' = made \cup {r}
    /\ pc' = [pc EXCEPT ![r] = "done"]
    /\ answer' = [answer EXCEPT ![r] = r]
    /\ UNCHANGED <<members, req, seen>>

\* `conversation.create({})`.
OrderCreate(r) ==
    /\ pc[r] = "create"
    /\ req[r].kind = "order"
    /\ made' = made \cup {r}
    /\ pc' = [pc EXCEPT ![r] = "fill"]
    /\ UNCHANGED <<members, req, answer, seen>>

\* `userConversation.createMany`; the query after it only reads the answer.
OrderFill(r) ==
    /\ pc[r] = "fill"
    /\ members' = [members EXCEPT ![r] = OrderMembers(r)]
    /\ answer' = [answer EXCEPT ![r] = r]
    /\ pc' = [pc EXCEPT ![r] = "done"]
    /\ UNCHANGED <<made, req, seen>>

\* An error, a restart or a lost connection before any statement.
Fail(r) ==
    /\ pc[r] \in {"find", "create", "fill"}
    /\ pc' = [pc EXCEPT ![r] = "failed"]
    /\ UNCHANGED <<made, members, req, answer, seen>>

Next ==
    \E r \in Requests :
        \/ PostFind(r) \/ PostCreate(r)
        \/ OrderFind(r) \/ OrderCreate(r) \/ OrderFill(r)
        \/ Fail(r)

Spec == Init /\ [][Next]_vars

-----------------------------------------------------------------------------
(* Properties.                                                             *)

\* Every variable has its type.
TypeOK ==
    /\ made \subseteq Requests
    /\ members \in [Requests -> SUBSET Account]
    /\ req \in [Requests -> Inputs]
    /\ pc \in [Requests -> {"find", "create", "fill", "done", "failed"}]
    /\ answer \in [Requests -> Requests \cup {None}]
    /\ seen \in [Requests -> SUBSET Requests]

\* A request that would find the conversation it makes: every POST, and a
\* customer's request for an order.  A courier's request for an order looks
\* for the courier as a customer, and makes a new conversation every time.
FindsItsOwn(r) == req[r].kind = "order" => req[r].by.role = "CUSTOMER"

\* A second conversation of the same accounts is made only by a request that
\* looked before the first one had its members, or by a courier's.
DuplicateOnlyFromOverlap ==
    \A c, d \in made :
        /\ c # d
        /\ members[c] = members[d]
        /\ members[d] # {}
        /\ FindsItsOwn(d)
        => c \notin seen[d]

\* A conversation without members is about to get them, or its request failed
\* between the two statements.
EmptyOnlyUnfilled ==
    \A c \in made :
        members[c] = {} =>
            req[c].kind = "order" /\ pc[c] \in {"fill", "failed"}

\* Whoever is answered is in the conversation: with the receiver of a POST; for
\* an order with a participant of it, one of them as the customer and the
\* other as the courier.
AnswerIsTheirs ==
    \A r \in Requests : pc[r] = "done" =>
        /\ answer[r] \in made
        /\ IF req[r].kind = "post"
           THEN PostMembers(r) \subseteq members[answer[r]]
           ELSE \E a, b \in members[answer[r]] :
                    /\ {a.role, b.role} = {"CUSTOMER", "DELIVERY"}
                    /\ a.user = req[r].by.user
                    /\ b.user \in {Customer[req[r].order],
                                   DeliveryMan[req[r].order]}

\* Violated by the code, see README: a conversation is made only if the same
\* two have none.
OneConversationPerPair ==
    \A c, d \in made :
        members[c] = members[d] /\ members[c] # {} => c = d

=============================================================================
