------------------------- MODULE ChatPresenceProofs -------------------------
(***************************************************************************)
(* Theorems about ChatPresence for any sockets, sessions and accounts.     *)
(***************************************************************************)
EXTENDS ChatPresence, TLAPS

LEMMA StepTyped == TypeOK /\ [Next]_vars => TypeOK'
<1> SUFFICES ASSUME TypeOK, [Next]_vars PROVE TypeOK'
  OBVIOUS
<1>1. ASSUME NEW s \in Sockets, Open(s) PROVE TypeOK'
  BY <1>1 DEF TypeOK, Steps, Tasks, Open, Goto
<1>2. ASSUME NEW s \in Sockets, Message(s) PROVE TypeOK'
  BY <1>2 DEF TypeOK, Steps, Tasks, Message, Goto
<1>3. ASSUME NEW s \in Sockets, Close(s) PROVE TypeOK'
  BY <1>3 DEF TypeOK, Steps, Tasks, Close, Disconnect
<1>4. ASSUME NEW t \in Tasks, NEW s \in Sockets, GuardRefuse(t, s)
      PROVE  TypeOK'
  BY <1>4 DEF TypeOK, Steps, Tasks, GuardRefuse, Disconnect, Goto, Ended
<1>5. ASSUME NEW t \in Tasks, NEW s \in Sockets, GuardRead(t, s) PROVE TypeOK'
  BY <1>5 DEF TypeOK, Steps, Tasks, GuardRead, Goto
<1>6. ASSUME NEW t \in Tasks, NEW s \in Sockets, GuardWrite(t, s)
      PROVE  TypeOK'
  BY <1>6 DEF TypeOK, Steps, Tasks, GuardWrite, Disconnect, Goto, Ended
<1>7. ASSUME NEW t \in Tasks, NEW s \in Sockets, GuardIdentify(t, s)
      PROVE  TypeOK'
  BY <1>7 DEF TypeOK, Steps, Tasks, GuardIdentify, Goto
<1>8. ASSUME NEW t \in Tasks, NEW s \in Sockets, GuardFail(t, s) PROVE TypeOK'
  BY <1>8 DEF TypeOK, Steps, Tasks, GuardFail, Disconnect, Goto, Ended
<1>9. ASSUME NEW s \in Sockets, AddClient(s) PROVE TypeOK'
  BY <1>9 DEF TypeOK, Steps, Tasks, AddClient, Goto
<1>10. ASSUME NEW s \in Sockets, Register(s) PROVE TypeOK'
  BY <1>10 DEF TypeOK, Steps, Tasks, Register, Goto
<1>11. ASSUME NEW s \in Sockets, AddClientFail(s) PROVE TypeOK'
  BY <1>11 DEF TypeOK, Steps, Tasks, AddClientFail, Goto
<1>12. ASSUME NEW s \in Sockets, RemoveClient(s) PROVE TypeOK'
  BY <1>12 DEF TypeOK, Steps, Tasks, RemoveClient
<1>14. ASSUME NEW s \in Sockets, Unregister(s) PROVE TypeOK'
  BY <1>14 DEF TypeOK, Steps, Tasks, Unregister
<1>15. ASSUME NEW s \in Sockets, RemoveFail(s) PROVE TypeOK'
  BY <1>15 DEF TypeOK, Steps, Tasks, RemoveFail
<1>16. ASSUME NEW j \in Sessions, DeleteSession(j) PROVE TypeOK'
  BY <1>16 DEF TypeOK, Steps, Tasks, DeleteSession
<1>17. ASSUME NEW j \in Sessions, Expire(j) PROVE TypeOK'
  BY <1>17 DEF TypeOK, Steps, Tasks, Expire
<1>18. CASE Restart
  BY <1>18 DEF TypeOK, Steps, Tasks, Restart, Ended
<1>19. CASE UNCHANGED vars
  BY <1>19 DEF TypeOK, Steps, Tasks, vars
<1> QED
  BY <1>1, <1>2, <1>3, <1>4, <1>5, <1>6, <1>7, <1>8, <1>9, <1>10,
     <1>11, <1>12, <1>14, <1>15, <1>16, <1>17, <1>18, <1>19 DEF Next

\* Type correctness of the sessions, the maps and the handlers.
THEOREM TypeCorrect == Spec => []TypeOK
<1>1. Init => TypeOK
  BY DEF Init, TypeOK, Steps
<1> QED
  BY <1>1, StepTyped, PTL DEF Spec

-----------------------------------------------------------------------------
\* A session holds the id of a socket that presented its token, and does so
\* from the first time a guard knew a socket of the session; what registers a
\* socket runs after that.
KnownInvariant ==
    /\ \A j \in Sessions : socketId[j] # NoSocket =>
           Token[socketId[j]] = j /\ transport[socketId[j]] # "new"
    /\ \A s \in Sockets : transport[s] = "new" =>
           /\ disc[s] = "none"
           /\ s \notin known
           /\ \A t \in Tasks : pc[t][s] = "idle"
    /\ \A s \in known : socketId[Token[s]] # NoSocket
    /\ \A s \in Sockets : \A t \in Tasks :
           pc[t][s] = "identify" => socketId[Token[s]] # NoSocket
    /\ registered \subseteq known
    /\ \A s \in Sockets :
           pc["connect"][s] \in {"register", "done"} => s \in known

LEMMA StepKnown ==
    TypeOK /\ TypeOK' /\ KnownInvariant /\ [Next]_vars
    => KnownInvariant'
<1> SUFFICES ASSUME TypeOK, TypeOK', KnownInvariant, [Next]_vars
    PROVE  KnownInvariant'
  OBVIOUS
<1> USE SocketsAssumption
<1>1. ASSUME NEW s \in Sockets, Open(s) PROVE KnownInvariant'
  BY <1>1 DEF TypeOK, KnownInvariant, Tasks, Open, Goto
<1>2. ASSUME NEW s \in Sockets, Message(s) PROVE KnownInvariant'
  BY <1>2 DEF TypeOK, KnownInvariant, Tasks, Message, Goto
<1>3. ASSUME NEW s \in Sockets, Close(s) PROVE KnownInvariant'
  BY <1>3 DEF TypeOK, KnownInvariant, Tasks, Close, Disconnect
<1>4. ASSUME NEW t \in Tasks, NEW s \in Sockets, GuardRefuse(t, s)
      PROVE  KnownInvariant'
  BY <1>4 DEF TypeOK, KnownInvariant, Tasks, GuardRefuse, Disconnect, Goto, Ended
<1>5. ASSUME NEW t \in Tasks, NEW s \in Sockets, GuardRead(t, s)
      PROVE  KnownInvariant'
  BY <1>5 DEF TypeOK, KnownInvariant, Tasks, GuardRead, Goto
<1>6. ASSUME NEW t \in Tasks, NEW s \in Sockets, GuardWrite(t, s)
      PROVE  KnownInvariant'
  BY <1>6 DEF TypeOK, KnownInvariant, Tasks, GuardWrite, Disconnect, Goto, Ended
<1>7. ASSUME NEW t \in Tasks, NEW s \in Sockets, GuardIdentify(t, s)
      PROVE  KnownInvariant'
  BY <1>7 DEF TypeOK, KnownInvariant, Tasks, GuardIdentify, Goto
<1>8. ASSUME NEW t \in Tasks, NEW s \in Sockets, GuardFail(t, s)
      PROVE  KnownInvariant'
  BY <1>8 DEF TypeOK, KnownInvariant, Tasks, GuardFail, Disconnect, Goto, Ended
<1>9. ASSUME NEW s \in Sockets, AddClient(s) PROVE KnownInvariant'
  BY <1>9 DEF TypeOK, KnownInvariant, Tasks, AddClient, Goto
<1>10. ASSUME NEW s \in Sockets, Register(s) PROVE KnownInvariant'
  BY <1>10 DEF TypeOK, KnownInvariant, Tasks, Register, Goto
<1>11. ASSUME NEW s \in Sockets, AddClientFail(s) PROVE KnownInvariant'
  BY <1>11 DEF TypeOK, KnownInvariant, Tasks, AddClientFail, Goto
<1>12. ASSUME NEW s \in Sockets, RemoveClient(s) PROVE KnownInvariant'
  BY <1>12 DEF TypeOK, KnownInvariant, Tasks, RemoveClient
<1>14. ASSUME NEW s \in Sockets, Unregister(s) PROVE KnownInvariant'
  BY <1>14 DEF TypeOK, KnownInvariant, Tasks, Unregister
<1>15. ASSUME NEW s \in Sockets, RemoveFail(s) PROVE KnownInvariant'
  BY <1>15 DEF TypeOK, KnownInvariant, Tasks, RemoveFail
<1>16. ASSUME NEW j \in Sessions, DeleteSession(j) PROVE KnownInvariant'
  BY <1>16 DEF TypeOK, KnownInvariant, Tasks, DeleteSession
<1>17. ASSUME NEW j \in Sessions, Expire(j) PROVE KnownInvariant'
  BY <1>17 DEF TypeOK, KnownInvariant, Tasks, Expire
<1>18. CASE Restart
  BY <1>18 DEF TypeOK, KnownInvariant, Tasks, Restart, Ended
<1>19. CASE UNCHANGED vars
  BY <1>19 DEF TypeOK, KnownInvariant, Tasks, vars
<1> QED
  BY <1>1, <1>2, <1>3, <1>4, <1>5, <1>6, <1>7, <1>8, <1>9, <1>10,
     <1>11, <1>12, <1>14, <1>15, <1>16, <1>17, <1>18, <1>19 DEF Next

LEMMA KnownAlways == Spec => []KnownInvariant
<1>1. Init => KnownInvariant
  BY DEF Init, KnownInvariant, Tasks
<1> QED
  BY <1>1, TypeCorrect, StepKnown, PTL DEF Spec

\* A notification goes to a socket of the account it is meant for.
THEOREM AddressedIsRight == Spec => []AddressedRight
<1>1. TypeOK /\ KnownInvariant => AddressedRight
  BY SocketsAssumption DEF TypeOK, KnownInvariant, AddressedRight, Reached
<1> QED
  BY <1>1, TypeCorrect, KnownAlways, PTL

\* A registered socket that no other socket of the account ever competed with
\* is the one that is reached: its session holds an id since the socket is
\* known, and no other socket can have put its own there.
THEOREM ReachableAlone == Spec => []ReachableUnlessTaken
<1>1. ASSUME TypeOK, KnownInvariant, NEW s \in registered \cap Chat,
             session[Token[s]] # "deleted",
             \A r \in Sockets \ {s} :
                 Owner[Token[r]] = Owner[Token[s]] => transport[r] = "new"
      PROVE  Reached(Owner[Token[s]]) = {s}
  <2>1. s \in Sockets /\ s # NoSocket /\ Token[s] \in Sessions
    BY <1>1, SocketsAssumption DEF TypeOK
  <2>2. ASSUME NEW j \in Sessions, Owner[j] = Owner[Token[s]],
               socketId[j] # NoSocket
        PROVE  socketId[j] = s
    <3>1. socketId[j] \in Sockets
      BY <1>1, <2>2 DEF TypeOK
    <3> QED
      BY <1>1, <2>2, <3>1 DEF KnownInvariant
  <2>3. socketId[Token[s]] = s
    BY <1>1, <2>1, <2>2 DEF KnownInvariant
  <2>4. NoSocket \notin registered
    BY <1>1, SocketsAssumption DEF TypeOK
  <2> QED
    BY <1>1, <2>1, <2>2, <2>3, <2>4 DEF Reached
<1>2. TypeOK /\ KnownInvariant => ReachableUnlessTaken
  BY <1>1 DEF ReachableUnlessTaken
<1> QED
  BY <1>2, TypeCorrect, KnownAlways, PTL

-----------------------------------------------------------------------------
\* handleDisconnect runs for a socket once it has closed, not before.
LeakInvariant ==
    /\ \A s \in Sockets : transport[s] = "open" => disc[s] = "none"
    /\ LeakIsExplained

LEMMA StepLeak ==
    TypeOK /\ KnownInvariant /\ LeakInvariant /\ [Next]_vars => LeakInvariant'
<1> SUFFICES ASSUME TypeOK, KnownInvariant, LeakInvariant, [Next]_vars
    PROVE  LeakInvariant'
  OBVIOUS
<1>1. ASSUME NEW s \in Sockets, Open(s) PROVE LeakInvariant'
  BY <1>1 DEF TypeOK, KnownInvariant, Tasks, LeakInvariant,
     LeakIsExplained, Open, Goto
<1>2. ASSUME NEW s \in Sockets, Message(s) PROVE LeakInvariant'
  BY <1>2 DEF TypeOK, KnownInvariant, Tasks, LeakInvariant,
     LeakIsExplained, Message, Goto
<1>3. ASSUME NEW s \in Sockets, Close(s) PROVE LeakInvariant'
  BY <1>3 DEF TypeOK, KnownInvariant, Tasks, LeakInvariant,
     LeakIsExplained, Close, Disconnect
<1>4. ASSUME NEW t \in Tasks, NEW s \in Sockets, GuardRefuse(t, s)
      PROVE  LeakInvariant'
  BY <1>4 DEF TypeOK, KnownInvariant, Tasks, LeakInvariant,
     LeakIsExplained, GuardRefuse, Disconnect, Goto, Ended
<1>5. ASSUME NEW t \in Tasks, NEW s \in Sockets, GuardRead(t, s)
      PROVE  LeakInvariant'
  BY <1>5 DEF TypeOK, KnownInvariant, Tasks, LeakInvariant,
     LeakIsExplained, GuardRead, Goto
<1>6. ASSUME NEW t \in Tasks, NEW s \in Sockets, GuardWrite(t, s)
      PROVE  LeakInvariant'
  BY <1>6 DEF TypeOK, KnownInvariant, Tasks, LeakInvariant,
     LeakIsExplained, GuardWrite, Disconnect, Goto, Ended
<1>7. ASSUME NEW t \in Tasks, NEW s \in Sockets, GuardIdentify(t, s)
      PROVE  LeakInvariant'
  BY <1>7 DEF TypeOK, KnownInvariant, Tasks, LeakInvariant,
     LeakIsExplained, GuardIdentify, Goto
<1>8. ASSUME NEW t \in Tasks, NEW s \in Sockets, GuardFail(t, s)
      PROVE  LeakInvariant'
  BY <1>8 DEF TypeOK, KnownInvariant, Tasks, LeakInvariant,
     LeakIsExplained, GuardFail, Disconnect, Goto, Ended
<1>9. ASSUME NEW s \in Sockets, AddClient(s) PROVE LeakInvariant'
  BY <1>9 DEF TypeOK, KnownInvariant, Tasks, LeakInvariant,
     LeakIsExplained, AddClient, Goto
<1>10. ASSUME NEW s \in Sockets, Register(s) PROVE LeakInvariant'
  BY <1>10 DEF TypeOK, KnownInvariant, Tasks, LeakInvariant,
     LeakIsExplained, Register, Goto
<1>11. ASSUME NEW s \in Sockets, AddClientFail(s) PROVE LeakInvariant'
  BY <1>11 DEF TypeOK, KnownInvariant, Tasks, LeakInvariant,
     LeakIsExplained, AddClientFail, Goto
<1>12. ASSUME NEW s \in Sockets, RemoveClient(s) PROVE LeakInvariant'
  BY <1>12 DEF TypeOK, KnownInvariant, Tasks, LeakInvariant,
     LeakIsExplained, RemoveClient
<1>14. ASSUME NEW s \in Sockets, Unregister(s) PROVE LeakInvariant'
  BY <1>14 DEF TypeOK, KnownInvariant, Tasks, LeakInvariant,
     LeakIsExplained, Unregister
<1>15. ASSUME NEW s \in Sockets, RemoveFail(s) PROVE LeakInvariant'
  BY <1>15 DEF TypeOK, KnownInvariant, Tasks, LeakInvariant,
     LeakIsExplained, RemoveFail
<1>16. ASSUME NEW j \in Sessions, DeleteSession(j) PROVE LeakInvariant'
  BY <1>16 DEF TypeOK, KnownInvariant, Tasks, LeakInvariant,
     LeakIsExplained, DeleteSession
<1>17. ASSUME NEW j \in Sessions, Expire(j) PROVE LeakInvariant'
  BY <1>17 DEF TypeOK, KnownInvariant, Tasks, LeakInvariant,
     LeakIsExplained, Expire
<1>18. CASE Restart
  BY <1>18 DEF TypeOK, KnownInvariant, Tasks, LeakInvariant,
     LeakIsExplained, Restart, Ended
<1>19. CASE UNCHANGED vars
  BY <1>19 DEF TypeOK, KnownInvariant, Tasks, LeakInvariant,
     LeakIsExplained, vars
<1> QED
  BY <1>1, <1>2, <1>3, <1>4, <1>5, <1>6, <1>7, <1>8, <1>9, <1>10,
     <1>11, <1>12, <1>14, <1>15, <1>16, <1>17, <1>18, <1>19 DEF Next

LEMMA LeakAlways == Spec => []LeakInvariant
<1>1. Init => LeakInvariant
  BY DEF Init, LeakInvariant, LeakIsExplained
<1> QED
  BY <1>1, TypeCorrect, KnownAlways, StepLeak, PTL DEF Spec

\* Every closed socket left in a clients map is there for one of the reasons
\* LeakIsExplained lists.
THEOREM LeaksAreExplained == Spec => []LeakIsExplained
<1>1. LeakInvariant => LeakIsExplained
  BY DEF LeakInvariant
<1> QED
  BY <1>1, LeakAlways, PTL

-----------------------------------------------------------------------------
\* The socket that explains an online flag is one that client.user was set
\* for: the disconnect handler of any other socket touches no flag.
OnlineInvariant ==
    \A u \in Couriers : online[u] =>
        \E s \in known :
            /\ User(s) = u
            /\ \/ transport[s] \in {"open", "lost"}
               \/ disc[s] \in {"remove", "failed"}
               \/ s \in late

LEMMA StepOnline ==
    TypeOK /\ KnownInvariant /\ OnlineInvariant /\ [Next]_vars => OnlineInvariant'
<1> SUFFICES ASSUME TypeOK, KnownInvariant, OnlineInvariant, [Next]_vars
    PROVE  OnlineInvariant'
  OBVIOUS
<1>1. ASSUME NEW s \in Sockets, Open(s) PROVE OnlineInvariant'
  BY <1>1 DEF TypeOK, KnownInvariant, Tasks, OnlineInvariant,
     User, Open, Goto
<1>2. ASSUME NEW s \in Sockets, Message(s) PROVE OnlineInvariant'
  BY <1>2 DEF TypeOK, KnownInvariant, Tasks, OnlineInvariant,
     User, Message, Goto
<1>3. ASSUME NEW s \in Sockets, Close(s) PROVE OnlineInvariant'
  BY <1>3 DEF TypeOK, KnownInvariant, Tasks, OnlineInvariant,
     User, Close, Disconnect
<1>4. ASSUME NEW t \in Tasks, NEW s \in Sockets, GuardRefuse(t, s)
      PROVE  OnlineInvariant'
  BY <1>4 DEF TypeOK, KnownInvariant, Tasks, OnlineInvariant,
     User, GuardRefuse, Disconnect, Goto, Ended
<1>5. ASSUME NEW t \in Tasks, NEW s \in Sockets, GuardRead(t, s)
      PROVE  OnlineInvariant'
  BY <1>5 DEF TypeOK, KnownInvariant, Tasks, OnlineInvariant,
     User, GuardRead, Goto
<1>6. ASSUME NEW t \in Tasks, NEW s \in Sockets, GuardWrite(t, s)
      PROVE  OnlineInvariant'
  BY <1>6 DEF TypeOK, KnownInvariant, Tasks, OnlineInvariant,
     User, GuardWrite, Disconnect, Goto, Ended
<1>7. ASSUME NEW t \in Tasks, NEW s \in Sockets, GuardIdentify(t, s)
      PROVE  OnlineInvariant'
  BY <1>7 DEF TypeOK, KnownInvariant, Tasks, OnlineInvariant,
     User, GuardIdentify, Goto
<1>8. ASSUME NEW t \in Tasks, NEW s \in Sockets, GuardFail(t, s)
      PROVE  OnlineInvariant'
  BY <1>8 DEF TypeOK, KnownInvariant, Tasks, OnlineInvariant,
     User, GuardFail, Disconnect, Goto, Ended
<1>9. ASSUME NEW s \in Sockets, AddClient(s) PROVE OnlineInvariant'
  BY <1>9 DEF TypeOK, KnownInvariant, Tasks, OnlineInvariant,
     User, AddClient, Goto
<1>10. ASSUME NEW s \in Sockets, Register(s) PROVE OnlineInvariant'
  BY <1>10 DEF TypeOK, KnownInvariant, Tasks, OnlineInvariant,
     User, Register, Goto
<1>11. ASSUME NEW s \in Sockets, AddClientFail(s) PROVE OnlineInvariant'
  BY <1>11 DEF TypeOK, KnownInvariant, Tasks, OnlineInvariant,
     User, AddClientFail, Goto
<1>12. ASSUME NEW s \in Sockets, RemoveClient(s) PROVE OnlineInvariant'
  <2>1. /\ \A u \in Couriers : online'[u] => u # User(s) /\ online[u]
        /\ \A r \in Sockets \ {s} : disc'[r] = disc[r]
        /\ UNCHANGED <<known, transport, late>>
    BY <1>12 DEF RemoveClient, TypeOK
  <2> SUFFICES ASSUME NEW u \in Couriers, online'[u]
               PROVE  \E r \in known :
                          /\ User(r) = u
                          /\ \/ transport[r] \in {"open", "lost"}
                             \/ disc'[r] \in {"remove", "failed"}
                             \/ r \in late
    BY <2>1 DEF OnlineInvariant, User
  <2>2. PICK r \in known : /\ User(r) = u
                           /\ \/ transport[r] \in {"open", "lost"}
                              \/ disc[r] \in {"remove", "failed"}
                              \/ r \in late
    BY <2>1 DEF OnlineInvariant
  <2>3. r \in Sockets \ {s}
    BY <2>1, <2>2 DEF TypeOK
  <2> QED
    BY <2>1, <2>2, <2>3
<1>14. ASSUME NEW s \in Sockets, Unregister(s) PROVE OnlineInvariant'
  BY <1>14 DEF TypeOK, KnownInvariant, Tasks, OnlineInvariant,
     User, Unregister
<1>15. ASSUME NEW s \in Sockets, RemoveFail(s) PROVE OnlineInvariant'
  BY <1>15 DEF TypeOK, KnownInvariant, Tasks, OnlineInvariant,
     User, RemoveFail
<1>16. ASSUME NEW j \in Sessions, DeleteSession(j) PROVE OnlineInvariant'
  BY <1>16 DEF TypeOK, KnownInvariant, Tasks, OnlineInvariant,
     User, DeleteSession
<1>17. ASSUME NEW j \in Sessions, Expire(j) PROVE OnlineInvariant'
  BY <1>17 DEF TypeOK, KnownInvariant, Tasks, OnlineInvariant,
     User, Expire
<1>18. CASE Restart
  BY <1>18 DEF TypeOK, KnownInvariant, Tasks, OnlineInvariant,
     User, Restart, Ended
<1>19. CASE UNCHANGED vars
  BY <1>19 DEF TypeOK, KnownInvariant, Tasks, OnlineInvariant,
     User, vars
<1> QED
  BY <1>1, <1>2, <1>3, <1>4, <1>5, <1>6, <1>7, <1>8, <1>9, <1>10,
     <1>11, <1>12, <1>14, <1>15, <1>16, <1>17, <1>18, <1>19 DEF Next

\* An online flag always has a socket that explains it, in any interleaving
\* of any number of connections of the courier.
THEOREM OnlineHasReason == Spec => []OnlineIsExplained
<1>1. Init => OnlineInvariant
  BY DEF Init, OnlineInvariant
<1>2. TypeOK /\ OnlineInvariant => OnlineIsExplained
  BY DEF TypeOK, OnlineInvariant, OnlineIsExplained
<1> QED
  BY <1>1, <1>2, TypeCorrect, KnownAlways, StepOnline, PTL DEF Spec

-----------------------------------------------------------------------------
\* The same for a socket whose connect handler has set the flag and is about
\* to register it; a registered socket is one of these.
OfflineInvariant ==
    /\ \A s \in Sockets : transport[s] = "open" => disc[s] = "none"
    /\ \A s \in registered : pc["connect"][s] = "done"
    /\ \A s \in Sockets :
           /\ pc["connect"][s] \in {"register", "done"}
           /\ transport[s] = "open"
           /\ User(s) \in Couriers
           /\ ~online[User(s)]
           => \E r \in Sockets \ {s} :
                  /\ User(r) = User(s)
                  /\ disc[r] \in {"unregister", "done", "failed"}

LEMMA StepOffline ==
    TypeOK /\ KnownInvariant /\ OfflineInvariant /\ [Next]_vars => OfflineInvariant'
<1> SUFFICES ASSUME TypeOK, KnownInvariant, OfflineInvariant, [Next]_vars
    PROVE  OfflineInvariant'
  OBVIOUS
<1>1. ASSUME NEW s \in Sockets, Open(s) PROVE OfflineInvariant'
  BY <1>1 DEF TypeOK, KnownInvariant, Tasks, OfflineInvariant,
     User, Open, Goto
<1>2. ASSUME NEW s \in Sockets, Message(s) PROVE OfflineInvariant'
  BY <1>2 DEF TypeOK, KnownInvariant, Tasks, OfflineInvariant,
     User, Message, Goto
<1>3. ASSUME NEW s \in Sockets, Close(s) PROVE OfflineInvariant'
  BY <1>3 DEF TypeOK, KnownInvariant, Tasks, OfflineInvariant,
     User, Close, Disconnect
<1>4. ASSUME NEW t \in Tasks, NEW s \in Sockets, GuardRefuse(t, s)
      PROVE  OfflineInvariant'
  BY <1>4 DEF TypeOK, KnownInvariant, Tasks, OfflineInvariant,
     User, GuardRefuse, Disconnect, Goto, Ended
<1>5. ASSUME NEW t \in Tasks, NEW s \in Sockets, GuardRead(t, s)
      PROVE  OfflineInvariant'
  BY <1>5 DEF TypeOK, KnownInvariant, Tasks, OfflineInvariant,
     User, GuardRead, Goto
<1>6. ASSUME NEW t \in Tasks, NEW s \in Sockets, GuardWrite(t, s)
      PROVE  OfflineInvariant'
  BY <1>6 DEF TypeOK, KnownInvariant, Tasks, OfflineInvariant,
     User, GuardWrite, Disconnect, Goto, Ended
<1>7. ASSUME NEW t \in Tasks, NEW s \in Sockets, GuardIdentify(t, s)
      PROVE  OfflineInvariant'
  BY <1>7 DEF TypeOK, KnownInvariant, Tasks, OfflineInvariant,
     User, GuardIdentify, Goto
<1>8. ASSUME NEW t \in Tasks, NEW s \in Sockets, GuardFail(t, s)
      PROVE  OfflineInvariant'
  BY <1>8 DEF TypeOK, KnownInvariant, Tasks, OfflineInvariant,
     User, GuardFail, Disconnect, Goto, Ended
<1>9. ASSUME NEW s \in Sockets, AddClient(s) PROVE OfflineInvariant'
  <2>1. /\ \A u \in Couriers :
              ~online'[u] => u # User(s) /\ ~online[u]
        /\ \A r \in Sockets \ {s} : pc'["connect"][r] = pc["connect"][r]
        /\ UNCHANGED <<registered, disc, transport>>
    BY <1>9 DEF AddClient, Goto, TypeOK, Tasks
  <2>2. s \notin registered
    BY <1>9 DEF AddClient, OfflineInvariant
  <2>3. \A r \in registered : pc'["connect"][r] = "done"
    BY <2>1, <2>2 DEF OfflineInvariant, TypeOK
  <2>4. ASSUME NEW r \in Sockets,
               pc'["connect"][r] \in {"register", "done"},
               transport[r] = "open",
               User(r) \in Couriers,
               ~online'[User(r)]
        PROVE  \E q \in Sockets \ {r} :
                   /\ User(q) = User(r)
                   /\ disc[q] \in {"unregister", "done", "failed"}
    <3>1. r # s /\ ~online[User(r)]
      BY <2>1, <2>4
    <3> QED
      BY <2>1, <2>4, <3>1 DEF OfflineInvariant
  <2> QED
    BY <2>1, <2>3, <2>4 DEF OfflineInvariant, User
<1>10. ASSUME NEW s \in Sockets, Register(s) PROVE OfflineInvariant'
  BY <1>10 DEF TypeOK, KnownInvariant, Tasks, OfflineInvariant,
     User, Register, Goto
<1>11. ASSUME NEW s \in Sockets, AddClientFail(s) PROVE OfflineInvariant'
  BY <1>11 DEF TypeOK, KnownInvariant, Tasks, OfflineInvariant,
     User, AddClientFail, Goto
<1>12. ASSUME NEW s \in Sockets, RemoveClient(s) PROVE OfflineInvariant'
  BY <1>12 DEF TypeOK, KnownInvariant, Tasks, OfflineInvariant,
     User, RemoveClient
<1>14. ASSUME NEW s \in Sockets, Unregister(s) PROVE OfflineInvariant'
  BY <1>14 DEF TypeOK, KnownInvariant, Tasks, OfflineInvariant,
     User, Unregister
<1>15. ASSUME NEW s \in Sockets, RemoveFail(s) PROVE OfflineInvariant'
  BY <1>15 DEF TypeOK, KnownInvariant, Tasks, OfflineInvariant,
     User, RemoveFail
<1>16. ASSUME NEW j \in Sessions, DeleteSession(j) PROVE OfflineInvariant'
  BY <1>16 DEF TypeOK, KnownInvariant, Tasks, OfflineInvariant,
     User, DeleteSession
<1>17. ASSUME NEW j \in Sessions, Expire(j) PROVE OfflineInvariant'
  BY <1>17 DEF TypeOK, KnownInvariant, Tasks, OfflineInvariant,
     User, Expire
<1>18. CASE Restart
  BY <1>18 DEF TypeOK, KnownInvariant, Tasks, OfflineInvariant,
     User, Restart, Ended
<1>19. CASE UNCHANGED vars
  BY <1>19 DEF TypeOK, KnownInvariant, Tasks, OfflineInvariant,
     User, vars
<1> QED
  BY <1>1, <1>2, <1>3, <1>4, <1>5, <1>6, <1>7, <1>8, <1>9, <1>10,
     <1>11, <1>12, <1>14, <1>15, <1>16, <1>17, <1>18, <1>19 DEF Next

\* A connected courier is shown offline only because another socket of the
\* same user went away.
THEOREM OfflineHasReason == Spec => []OfflineIsExplained
<1>1. Init => OfflineInvariant
  BY DEF Init, OfflineInvariant, Tasks
<1>2. TypeOK /\ OfflineInvariant => OfflineIsExplained
  BY DEF TypeOK, OfflineInvariant, OfflineIsExplained
<1> QED
  BY <1>1, <1>2, TypeCorrect, KnownAlways, StepOffline, PTL DEF Spec

=============================================================================
