------------------------------- MODULE Mailbox -------------------------------
(***************************************************************************)
(* What the chat promises those who use it, without look-ups, sockets and   *)
(* statements: the members of a conversation are fixed when it opens, every *)
(* message is for one of them and stays what it was sent as, it becomes     *)
(* unread only while it is being delivered, and read only at the request    *)
(* of whom it is for.  ChatMessages implements it.                          *)
(***************************************************************************)
CONSTANTS
    Ids,        \* of conversations
    Messages,
    Accounts,   \* records with a field user
    Users

VARIABLES
    members,    \* the accounts of each conversation, none before it opens
    mail,       \* the messages sent, each with its conversation and receiver
    delivering, \* the messages whose receiver may still be told of them
    unread,
    asks        \* who has asked for the messages of which conversation

Init ==
    /\ members = [c \in Ids |-> {}]
    /\ mail = {}
    /\ delivering = {}
    /\ unread = {}
    /\ asks = {}

Open(c) ==
    /\ members[c] = {}
    /\ \E a, b \in Accounts : members' = [members EXCEPT ![c] = {a, b}]
    /\ UNCHANGED <<mail, delivering, unread, asks>>

Send(m, c) ==
    /\ \A sent \in mail : sent.id # m
    /\ \E a \in members[c] : mail' = mail \cup {[id |-> m, in |-> c, to |-> a.user]}
    /\ delivering' = delivering \cup {m}
    /\ UNCHANGED <<members, unread, asks>>

MarkUnread(m) ==
    /\ m \in delivering
    /\ unread' = unread \cup {m}
    /\ delivering' \in {delivering, delivering \ {m}}
    /\ UNCHANGED <<members, mail, asks>>

Deliver(m) ==
    /\ delivering' = delivering \ {m}
    /\ UNCHANGED <<members, mail, unread, asks>>

Ask(c, u) ==
    /\ asks' = asks \cup {[in |-> c, by |-> u]}
    /\ UNCHANGED <<members, mail, delivering, unread>>

\* Everything for u in the conversation is read at once.
Read(c, u) ==
    /\ [in |-> c, by |-> u] \in asks
    /\ unread' = {m \in unread : [id |-> m, in |-> c, to |-> u] \notin mail}
    /\ UNCHANGED <<members, mail, delivering, asks>>

Next ==
    \/ \E m \in Messages : Deliver(m) \/ MarkUnread(m)
    \/ \E c \in Ids :
          \/ Open(c)
          \/ \E m \in Messages : Send(m, c)
          \/ \E u \in Users : Ask(c, u) \/ Read(c, u)

Spec == Init /\ [][Next]_<<members, mail, delivering, unread, asks>>

=============================================================================
