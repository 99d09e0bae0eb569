---------------------------- MODULE ChatPresence ----------------------------
(***************************************************************************)
(* Who is connected: the sockets of ChatGateway and LocationGateway, the   *)
(* guard both run on a connection and on every message (WsJwtGuard), and   *)
(* the three places that remember a socket: column sessions.socketId,      *)
(* column delivery.online, and a map in the memory of ConnectionService,   *)
(* of which each gateway's module has an instance of its own.              *)
(*                                                                         *)
(* handleConnection is not awaited by the framework: messages of the       *)
(* socket and its disconnection are handled while it runs.  Each database  *)
(* call is an action, and so is what a handler does in memory after one.   *)
(***************************************************************************)
EXTENDS Naturals, FiniteSets

CONSTANTS
    Sockets,    \* socket.io connections; an id is never used again
    Chat,       \* those to namespace chat, the others are to location
    Sessions,   \* rows of table sessions, by jti
    Token,      \* the session whose token each socket presents
    Users,
    Roles,
    Owner,      \* the account [user, role] of each session
    Couriers,   \* the users with a row in table delivery, whatever their role
    NoSocket    \* socketId null

Accounts == [user : Users, role : Roles]

ASSUME SocketsAssumption ==
    /\ Chat \subseteq Sockets
    /\ Token \in [Sockets -> Sessions]
    /\ NoSocket \notin Sockets

ASSUME UsersAssumption ==
    /\ Owner \in [Sessions -> Accounts]
    /\ Couriers \subseteq Users

VARIABLES
    session,    \* of each session: a valid or expired token, or no row
    socketId,   \* column socketId of each session
    online,     \* column online of each courier
    registered, \* the sockets in the clients maps of both gateways
    transport,  \* each connection, as socket.io has it
    known,      \* the sockets whose client.user is set
    pc,         \* the next step of a socket's handleConnection and message
    disc,       \* the next step of a socket's handleDisconnect
    late        \* auxiliary: sockets a connect handler wrote for once closed

vars == <<session, socketId, online, registered, transport, known, pc, disc,
          late>>

-----------------------------------------------------------------------------
User(s) == Owner[Token[s]].user

Tasks == {"connect", "message"}

Steps == {"idle", "read", "write", "identify", "add", "register", "done",
          "failed"}

Init ==
    /\ session = [j \in Sessions |-> "valid"]
    /\ socketId = [j \in Sessions |-> NoSocket]
    /\ online = [u \in Couriers |-> FALSE]
    /\ registered = {}
    /\ transport = [s \in Sockets |-> "new"]
    /\ known = {}
    /\ pc = [t \in Tasks |-> [s \in Sockets |-> "idle"]]
    /\ disc = [s \in Sockets |-> "none"]
    /\ late = {}

\* What pc becomes when the guard refuses, or an error ends the handler.
Ended(t) == IF t = "connect" THEN "failed" ELSE "idle"

Goto(t, s, step) == pc' = [pc EXCEPT ![t][s] = step]

\* client.disconnect() or the end of the connection: handleDisconnect is
\* called once, and whatever handler runs for the socket goes on.  removeClient
\* reads client.user.userId before its first await: when client.user is not set
\* by then it throws, whatever the connect handler sets later.
Disconnect(s) ==
    IF transport[s] = "open"
    THEN /\ transport' = [transport EXCEPT ![s] = "closed"]
         /\ disc' = [disc EXCEPT ![s] = IF s \in known THEN "remove" ELSE "unknown"]
    ELSE UNCHANGED <<transport, disc>>

-----------------------------------------------------------------------------
(* A client connects, sends a message (join_room, leave_room,              *)
(* send_message, request_locations, update_location) or goes away.         *)

Open(s) ==
    /\ transport[s] = "new"
    /\ transport' = [transport EXCEPT ![s] = "open"]
    /\ Goto("connect", s, "read")
    /\ UNCHANGED <<session, socketId, online, registered, known, disc, late>>

Message(s) ==
    /\ transport[s] = "open"
    /\ pc["message"][s] = "idle"
    /\ Goto("message", s, "read")
    /\ UNCHANGED <<session, socketId, online, registered, transport, known,
                   disc, late>>

Close(s) ==
    /\ transport[s] = "open"
    /\ Disconnect(s)
    /\ UNCHANGED <<session, socketId, online, registered, known, pc, late>>

-----------------------------------------------------------------------------
(* WsJwtGuard.canActivate.                                                 *)

\* jwt.verify throws for an expired token and the socket is disconnected;
\* a deleted session makes the guard return false, on which only
\* handleConnection disconnects.
GuardRefuse(t, s) ==
    /\ pc[t][s] = "read"
    /\ session[Token[s]] # "valid"
    /\ Goto(t, s, Ended(t))
    /\ IF session[Token[s]] = "expired" \/ t = "connect"
       THEN Disconnect(s)
       ELSE UNCHANGED <<transport, disc>>
    /\ UNCHANGED <<session, socketId, online, registered, known, late>>

\* A session that has the socket already is not assigned to client.user.
GuardRead(t, s) ==
    /\ pc[t][s] = "read"
    /\ session[Token[s]] = "valid"
    /\ Goto(t, s, IF socketId[Token[s]] # s THEN "write"
                  ELSE IF t = "connect" THEN "add" ELSE "idle")
    /\ UNCHANGED <<session, socketId, online, registered, transport, known,
                   disc, late>>

\* Mutant: the socket is let in without being written to its session.
GuardWrite_Skips(t, s) ==
    /\ pc[t][s] = "write"
    /\ Goto(t, s, "identify")
    /\ UNCHANGED <<session, socketId, online, registered, transport, known,
                   disc, late>>

\* The update of a deleted row throws, and the guard disconnects the socket.
GuardWrite(t, s) ==
    /\ pc[t][s] = "write"
    /\ IF session[Token[s]] = "deleted"
       THEN /\ Goto(t, s, Ended(t))
            /\ Disconnect(s)
            /\ UNCHANGED socketId
       ELSE /\ Goto(t, s, "identify")
            /\ socketId' = [socketId EXCEPT ![Token[s]] = s]
            /\ UNCHANGED <<transport, disc>>
    /\ UNCHANGED <<session, online, registered, known, late>>

\* `client.user = session`, when the answer of the update arrives.
GuardIdentify(t, s) ==
    /\ pc[t][s] = "identify"
    /\ known' = known \cup {s}
    /\ Goto(t, s, IF t = "connect" THEN "add" ELSE "idle")
    /\ UNCHANGED <<session, socketId, online, registered, transport, disc,
                   late>>

\* The database refuses a call of the guard, which disconnects the socket.
GuardFail(t, s) ==
    /\ pc[t][s] \in {"read", "write", "identify"}
    /\ Goto(t, s, Ended(t))
    /\ Disconnect(s)
    /\ UNCHANGED <<session, socketId, online, registered, known, late>>

-----------------------------------------------------------------------------
(* ConnectionService.addClient.                                            *)

\* Mutant: the delivery row is found and not updated.
AddClient_NotOnline(s) ==
    /\ pc["connect"][s] = "add"
    /\ s \in known
    /\ Goto("connect", s, "register")
    /\ UNCHANGED <<session, socketId, online, registered, transport, known,
                   disc, late>>

\* The delivery row of the user is set online.  Without client.user the
\* handler fails, and the socket stays open.
AddClient(s) ==
    /\ pc["connect"][s] = "add"
    /\ s \in known
    /\ Goto("connect", s, "register")
    /\ online' = [u \in Couriers |-> u = User(s) \/ online[u]]
    /\ late' = IF transport[s] = "open" THEN late ELSE late \cup {s}
    /\ UNCHANGED <<session, socketId, registered, transport, known, disc>>

\* Mutant: the map is keyed by the session.
Register_BySession(s) ==
    /\ pc["connect"][s] = "register"
    /\ Goto("connect", s, "done")
    /\ registered' = registered \cup {Token[s]}
    /\ UNCHANGED <<session, socketId, online, transport, known, disc, late>>

\* `this.clients.set(client.id, client)`.
Register(s) ==
    /\ pc["connect"][s] = "register"
    /\ Goto("connect", s, "done")
    /\ registered' = registered \cup {s}
    /\ late' = IF transport[s] = "open" THEN late ELSE late \cup {s}
    /\ UNCHANGED <<session, socketId, online, transport, known, disc>>

\* client.user is undefined, or the database refuses a call: handleError
\* answers with an error and leaves the socket open and out of the map.
AddClientFail(s) ==
    /\ pc["connect"][s] \in {"add", "register"}
    /\ Goto("connect", s, "failed")
    /\ UNCHANGED <<session, socketId, online, registered, transport, known,
                   disc, late>>

-----------------------------------------------------------------------------
(* ConnectionService.removeClient.                                         *)

\* Mutant: the delivery row is found and stays online.
RemoveClient_KeepsOnline(s) ==
    /\ disc[s] = "remove"
    /\ disc' = [disc EXCEPT ![s] = "unregister"]
    /\ UNCHANGED <<session, socketId, online, registered, transport, known, pc,
                   late>>

\* The delivery row of the user is set offline.
RemoveClient(s) ==
    /\ disc[s] = "remove"
    /\ disc' = [disc EXCEPT ![s] = "unregister"]
    /\ online' = [u \in Couriers |-> u # User(s) /\ online[u]]
    /\ UNCHANGED <<session, socketId, registered, transport, known, pc, late>>

\* Mutant: the socket is not taken out of the map.
Unregister_Keeps(s) ==
    /\ disc[s] = "unregister"
    /\ disc' = [disc EXCEPT ![s] = "done"]
    /\ UNCHANGED <<session, socketId, online, registered, transport, known, pc,
                   late>>

\* `socketId: undefined` updates nothing: the column keeps the id.
Unregister(s) ==
    /\ disc[s] = "unregister"
    /\ disc' = [disc EXCEPT ![s] = "done"]
    /\ registered' = registered \ {s}
    /\ UNCHANGED <<session, socketId, online, transport, known, pc, late>>

RemoveFail(s) ==
    /\ disc[s] \in {"remove", "unregister"}
    /\ disc' = [disc EXCEPT ![s] = "failed"]
    /\ UNCHANGED <<session, socketId, online, registered, transport, known, pc,
                   late>>

-----------------------------------------------------------------------------
(* Around the gateways: a logout or clean-up deletes a session, a token    *)
(* expires, the process restarts.                                          *)

DeleteSession(j) ==
    /\ session[j] # "deleted"
    /\ session' = [session EXCEPT ![j] = "deleted"]
    /\ UNCHANGED <<socketId, online, registered, transport, known, pc, disc,
                   late>>

Expire(j) ==
    /\ session[j] = "valid"
    /\ session' = [session EXCEPT ![j] = "expired"]
    /\ UNCHANGED <<socketId, online, registered, transport, known, pc, disc,
                   late>>

\* The tables stay as they are; every socket and every handler is gone.
Restart ==
    /\ \E s \in Sockets : transport[s] \in {"open", "closed"}
    /\ transport' = [s \in Sockets |->
           IF transport[s] = "new" THEN "new" ELSE "lost"]
    /\ registered' = {}
    /\ pc' = [t \in Tasks |-> [s \in Sockets |->
           IF pc[t][s] \in {"idle", "done"} THEN pc[t][s] ELSE Ended(t)]]
    /\ disc' = [s \in Sockets |->
           IF disc[s] \in {"remove", "unregister"} THEN "failed" ELSE disc[s]]
    /\ UNCHANGED <<session, socketId, online, known, late>>

-----------------------------------------------------------------------------
Next ==
    \/ \E s \in Sockets :
         \/ Open(s) \/ Message(s) \/ Close(s)
         \/ \E t \in Tasks :
              \/ GuardRefuse(t, s) \/ GuardRead(t, s) \/ GuardWrite(t, s)
              \/ GuardIdentify(t, s) \/ GuardFail(t, s)
         \/ AddClient(s) \/ Register(s) \/ AddClientFail(s)
         \/ RemoveClient(s) \/ Unregister(s) \/ RemoveFail(s)
    \/ \E j \in Sessions : DeleteSession(j) \/ Expire(j)
    \/ Restart

Spec == Init /\ [][Next]_vars

-----------------------------------------------------------------------------
(* ConnectionService.getClients.                                           *)

\* Mutant: the role of the session is not asked for.
Reached_AnyRole(a) ==
    {socketId[j] : j \in {i \in Sessions : /\ session[i] # "deleted"
                                           /\ Owner[i].user = a.user}}
        \cap registered \cap Chat

\* The sockets a notification of account a may go to: findFirst takes any of
\* its sessions that has a socketId, and the id is looked up among the chat
\* sockets of this process.
Reached(a) ==
    {socketId[j] : j \in {i \in Sessions : /\ session[i] # "deleted"
                                           /\ Owner[i] = a}}
        \cap registered \cap Chat

-----------------------------------------------------------------------------
(* Properties.                                                             *)

\* Every variable has its type.
TypeOK ==
    /\ session \in [Sessions -> {"valid", "expired", "deleted"}]
    /\ socketId \in [Sessions -> Sockets \cup {NoSocket}]
    /\ online \in [Couriers -> BOOLEAN]
    /\ registered \subseteq Sockets
    /\ transport \in [Sockets -> {"new", "open", "closed", "lost"}]
    /\ known \subseteq Sockets
    /\ pc \in [Tasks -> [Sockets -> Steps]]
    /\ disc \in [Sockets -> {"none", "remove", "unregister", "unknown", "done",
                             "failed"}]
    /\ late \subseteq Sockets

\* A courier that is shown online has a socket that is open or whose
\* disconnection is being handled, or one for which the flag could not be
\* cleared: its connect handler wrote after the socket closed, the
\* disconnect handler failed, or the process was restarted.
OnlineIsExplained ==
    \A u \in Couriers : online[u] =>
        \E s \in Sockets :
            /\ User(s) = u
            /\ \/ transport[s] \in {"open", "lost"}
               \/ disc[s] \in {"remove", "failed"}
               \/ s \in late

\* A courier with an open, registered socket is shown offline only after
\* another socket of the same user disconnected.
OfflineIsExplained ==
    \A s \in Sockets :
        /\ s \in registered
        /\ transport[s] = "open"
        /\ User(s) \in Couriers
        /\ ~online[User(s)]
        => \E r \in Sockets \ {s} :
               /\ User(r) = User(s)
               /\ disc[r] \in {"unregister", "done", "failed"}

\* A socket that is closed stays in a clients map only while its
\* disconnection is being handled, after that handler failed, or when the
\* connect handler registered it after it had closed.
LeakIsExplained ==
    \A s \in registered :
        \/ transport[s] = "open"
        \/ disc[s] \in {"remove", "unregister", "failed"}
        \/ s \in late

\* Whatever sockets take over a session from each other, a notification goes
\* to a socket that presented a token of the account it is meant for.
AddressedRight ==
    \A a \in Accounts : \A s \in Reached(a) : Owner[Token[s]] = a

\* An account that ever opened one socket only, to the chat, is reached
\* through it from the moment it is registered until its session is deleted.
ReachableUnlessTaken ==
    \A s \in registered \cap Chat :
        /\ session[Token[s]] # "deleted"
        /\ \A r \in Sockets \ {s} :
               Owner[Token[r]] = Owner[Token[s]] => transport[r] = "new"
        => Reached(Owner[Token[s]]) = {s}

\* Every handler that ran for the socket has ended, without an error.
Settled(s) ==
    /\ pc["connect"][s] \in {"idle", "done"}
    /\ pc["message"][s] = "idle"
    /\ disc[s] \in {"none", "done"}

\* Violated by the code, see README: when every handler of every socket has
\* ended, and none with an error, a courier with an open, registered socket is
\* online.
OnlineWhileConnected ==
    \A s \in Sockets :
        /\ s \in registered
        /\ transport[s] = "open"
        /\ User(s) \in Couriers
        /\ \A r \in Sockets : Settled(r)
        => online[User(s)]

=============================================================================
