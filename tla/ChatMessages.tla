---------------------------- MODULE ChatMessages ----------------------------
(***************************************************************************)
(* Messages in the conversations of Conversations, and their read flag:     *)
(*   createMessage   send_message: inserts the message as read, then marks  *)
(*                   it unread once for each participant whose socket is    *)
(*                   not in the room (ChatGateway.notifyOtherParticipants)  *)
(*   findMessages    GET /chat/:id: returns the messages, then marks those  *)
(*                   to the caller as read                                  *)
(* Sockets and rooms are ChatPresence's: here a participant is found        *)
(* outside the room or not.                                                 *)
(***************************************************************************)
EXTENDS Conversations

CONSTANTS
    Messages,   \* calls of createMessage
    Fetches     \* calls of findMessages

VARIABLES
    conv,       \* Message.conversationId, None until the message is inserted
    to,         \* Message.receiverId
    unread,     \* the messages whose column read is false
    looking,    \* for each message, the participants still to be looked for
    marking,    \* and those found outside the room, the update to come
    marked,     \* auxiliary: the messages ever marked as unread
    asked,      \* the conversation each fetch is for, None before it
    reader,     \* the caller of each fetch
    returned,   \* the messages each fetch has read
    fetched,    \* the fetches that have made their update
    late        \* auxiliary: the messages being notified when they made it

message == <<conv, to, unread, looking, marking, marked>>

fetch == <<asked, reader, returned, fetched, late>>

chat == <<message, fetch>>

allVars == <<vars, chat>>

-----------------------------------------------------------------------------
Inserted(m) == conv[m] # None

Notifying(m) == looking[m] \cup marking[m] # {}

ChatInit ==
    /\ Init
    /\ conv = [m \in Messages |-> None]
    /\ to = [m \in Messages |-> Nobody]
    /\ unread = {}
    /\ looking = [m \in Messages |-> {}]
    /\ marking = [m \in Messages |-> {}]
    /\ marked = {}
    /\ asked = [f \in Fetches |-> None]
    /\ reader = [f \in Fetches |-> Nobody]
    /\ returned = [f \in Fetches |-> {}]
    /\ fetched = {}
    /\ late = [f \in Fetches |-> {}]

-----------------------------------------------------------------------------
(* createMessage.                                                          *)

\* The receiver is some row of the conversation other than the sender's; without
\* one (an order's conversation before OrderFill, one of an account with itself)
\* the call throws.  The rows it reads, and those getConversationUserIds reads
\* after the insert, never change once there: the queries are one step with it.
CreateMessage(m, c, from) ==
    /\ ~Inserted(m)
    /\ c \in made
    /\ \E other \in members[c] \ {from} : to' = [to EXCEPT ![m] = other.user]
    /\ conv' = [conv EXCEPT ![m] = c]
    /\ looking' = [looking EXCEPT ![m] = members[c]]
    /\ UNCHANGED <<unread, marking, marked, fetch>>

\* getClients and isClientInRoom for one participant, the sender included.
LookFor(m, p) ==
    /\ p \in looking[m]
    /\ looking' = [looking EXCEPT ![m] = @ \ {p}]
    /\ \E outside \in BOOLEAN :
          marking' = [marking EXCEPT ![m] = IF outside THEN @ \cup {p} ELSE @]
    /\ UNCHANGED <<conv, to, unread, marked, fetch>>

MarkMessageAsUnRead(m, p) ==
    /\ p \in marking[m]
    /\ marking' = [marking EXCEPT ![m] = @ \ {p}]
    /\ unread' = unread \cup {m}
    /\ marked' = marked \cup {m}
    /\ UNCHANGED <<conv, to, looking, fetch>>

\* A restart, or a lost connection: whoever was not notified yet is not.
CutOff(m) ==
    /\ Notifying(m)
    /\ looking' = [looking EXCEPT ![m] = {}]
    /\ marking' = [marking EXCEPT ![m] = {}]
    /\ UNCHANGED <<conv, to, unread, marked, fetch>>

-----------------------------------------------------------------------------
(* findMessages, of any conversation.                                      *)

FindMessages(f, c, u) ==
    /\ asked[f] = None
    /\ c \in made
    /\ asked' = [asked EXCEPT ![f] = c]
    /\ reader' = [reader EXCEPT ![f] = u]
    /\ returned' = [returned EXCEPT ![f] = {m \in Messages : conv[m] = c}]
    /\ UNCHANGED <<message, fetched, late>>

\* Mutant: the condition on receiverId is left out.
MarkRead_Anyone(f) ==
    /\ asked[f] # None
    /\ f \notin fetched
    /\ unread' = {m \in unread : conv[m] # asked[f]}
    /\ fetched' = fetched \cup {f}
    /\ late' = [late EXCEPT ![f] = {m \in Messages : Notifying(m)}]
    /\ UNCHANGED <<conv, to, looking, marking, marked, asked, reader, returned>>

\* Mutant: the condition on conversationId is left out.
MarkRead_EveryConversation(f) ==
    /\ asked[f] # None
    /\ f \notin fetched
    /\ unread' = {m \in unread : to[m] # reader[f]}
    /\ fetched' = fetched \cup {f}
    /\ late' = [late EXCEPT ![f] = {m \in Messages : Notifying(m)}]
    /\ UNCHANGED <<conv, to, looking, marking, marked, asked, reader, returned>>

\* updateMany; the count after it only reads.
MarkRead(f) ==
    /\ asked[f] # None
    /\ f \notin fetched
    /\ unread' = {m \in unread : ~(conv[m] = asked[f] /\ to[m] = reader[f])}
    /\ fetched' = fetched \cup {f}
    /\ late' = [late EXCEPT ![f] = {m \in Messages : Notifying(m)}]
    /\ UNCHANGED <<conv, to, looking, marking, marked, asked, reader, returned>>

ChatStep ==
    \/ \E m \in Messages :
          \/ \E c \in Requests, from \in Accounts : CreateMessage(m, c, from)
          \/ \E p \in Account : LookFor(m, p) \/ MarkMessageAsUnRead(m, p)
          \/ CutOff(m)
    \/ \E f \in Fetches :
          \/ \E c \in Requests, u \in Users : FindMessages(f, c, u)
          \/ MarkRead(f)

ChatNext ==
    \/ Next /\ UNCHANGED chat
    \/ ChatStep /\ UNCHANGED vars

ChatSpec == ChatInit /\ [][ChatNext]_allVars

-----------------------------------------------------------------------------
(* Properties.                                                             *)

\* The type invariant: messages, notifications and fetches have the shape of
\* their models; only inserted messages are notified, marked or returned.
ChatTypeOK ==
    /\ TypeOK
    /\ conv \in [Messages -> Requests \cup {None}]
    /\ to \in [Messages -> Users \cup {Nobody}]
    /\ looking \in [Messages -> SUBSET Account]
    /\ marking \in [Messages -> SUBSET Account]
    /\ marked \in SUBSET {m \in Messages : Inserted(m)}
    /\ unread \in SUBSET marked
    /\ \A m \in Messages : Notifying(m) => Inserted(m)
    /\ asked \in [Fetches -> Requests \cup {None}]
    /\ reader \in [Fetches -> Users \cup {Nobody}]
    /\ returned \in [Fetches -> SUBSET {m \in Messages : Inserted(m)}]
    /\ fetched \in SUBSET {f \in Fetches : asked[f] # None}
    /\ late \in [Fetches -> SUBSET Messages]

FetchedBy(f, m) == f \in fetched /\ asked[f] = conv[m] /\ reader[f] = to[m]

\* A message marked unread becomes read by nobody's fetch but its receiver's, and
\* a receiver whose fetch has returned it finds it unread only if its sender was
\* still notifying when that fetch marked it read: the mark comes after the
\* notification, and the insert before both says read.
UnreadUntilFetched ==
    /\ \A m \in marked \ unread : \E f \in Fetches : FetchedBy(f, m)
    /\ \A f \in Fetches : \A m \in returned[f] \cap unread :
          FetchedBy(f, m) => m \in late[f]

Mail == {[id |-> m, in |-> conv[m], to |-> to[m]] : m \in {n \in Messages : Inserted(n)}}

Delivering == {m \in Messages : Notifying(m)}

Asks == {[in |-> asked[f], by |-> reader[f]] : f \in {g \in Fetches : asked[g] # None}}

Box ==
    INSTANCE Mailbox WITH
        Ids <- Requests,
        Accounts <- Account,
        mail <- Mail,
        delivering <- Delivering,
        asks <- Asks

\* Conversations and messages are a mailbox: whatever look-ups, fills and
\* notifications overlap or are cut off, nobody joins, leaves or empties an open
\* conversation, no message is sent to one that is still being filled, none
\* turns unread once its delivery has ended, and none turns read but at the
\* request of its receiver for its conversation.
ImplementsMailbox == Box!Spec

=============================================================================
