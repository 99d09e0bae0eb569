------------------------ MODULE StoreFamiliesProofs ------------------------
(***************************************************************************)
(* Theorems about StoreFamilies for every table, every set of ids, names,  *)
(* plans, times and calls, and whatever | is.                              *)
(***************************************************************************)
EXTENDS StoreFamilies, TLAPS

-----------------------------------------------------------------------------
(* Type correctness                                                        *)

LEMMA NoRowTyped == NoRow \in Row
  BY PlanAssumption DEF NoRow, Row, Statuses

LEMMA NoMemTyped == NoMem \in Mem
  BY NoRowTyped DEF NoMem, Mem

\* What a call asks has the fields of its kind.
LEMMA Asked ==
    ASSUME TypeOK, NEW c \in Calls
    PROVE  /\ call[c].kind = "create" => call[c].name \in Names
           /\ call[c].kind \in {"branch", "delete", "remove"} => call[c].id \in Ids
           /\ call[c].kind = "update" => call[c] \in Update
           /\ call[c].kind = "schedule" =>
                 call[c].id \in Ids /\ call[c].open \in Times /\ call[c].close \in Times
           /\ call[c].kind = "subscribe" => call[c].id \in Ids /\ call[c].plan \in Plans
<1>1. call[c] \in Request
  BY InputsAssumption DEF TypeOK
<1> QED
  BY <1>1 DEF Request, Update

LEMMA InitTyped == Init => TypeOK
<1> SUFFICES ASSUME Init PROVE TypeOK
  OBVIOUS
<1>1. store \in [Ids -> Row]
  BY ExistingAssumption DEF Init
<1>2. mem \in [Calls -> Mem]
  BY NoMemTyped DEF Init
<1>3. pc \in [Calls -> PCs] /\ lastId \in Ids \cup {0} /\ last \in [Ids -> Wrote]
  BY DEF Init, PCs, NoTurn, Wrote
<1> QED
  BY <1>1, <1>2, <1>3 DEF Init, TypeOK

\* Calls that rely on an id they have read.
Holding(c) ==
    \/ pc[c] = "inserted"
    \/ pc[c] = "read" /\ call[c].kind \in {"branch", "subscribe"}
    \/ pc[c] = "checked" /\ call[c].kind = "schedule"

Holds == \A c \in Calls : Holding(c) => mem[c].id \in Ids

Typed == TypeOK /\ Holds

\* A call that ends or fails keeps its step and memory typed.
LEMMA EndsTyped ==
    ASSUME Typed, NEW c \in Calls, NEW end \in {"done", "refused", "failed"},
           Ends(c, end), call' = call
    PROVE  /\ pc' \in [Calls -> PCs]
           /\ mem' \in [Calls -> Mem]
           /\ Holds'
  BY NoMemTyped DEF Typed, Holds, Holding, TypeOK, Ends, PCs

LEMMA RefusedTyped ==
    ASSUME Typed, NEW c \in Calls, Refused(c)
    PROVE  Typed'
  BY EndsTyped DEF Refused, Typed, TypeOK, tables, aux

LEMMA CrossesTyped ==
    ASSUME TypeOK, NEW c \in Calls, Crosses(c)
    PROVE  crossed' \subseteq Calls
  BY DEF TypeOK, Crosses

\* A call goes on to a step at which it holds no id.
LEMMA StepTyped ==
    ASSUME Typed, NEW c \in Calls, NEW p \in PCs,
           pc' = [pc EXCEPT ![c] = p], call' = call,
           \A d \in Calls \ {c} : mem'[d] = mem[d],
           p # "inserted",
           p = "read" => call[c].kind \notin {"branch", "subscribe"},
           p = "checked" => call[c].kind # "schedule"
    PROVE  pc' \in [Calls -> PCs] /\ Holds'
  BY DEF Typed, Holds, Holding, TypeOK

\* A call goes on holding an id.
LEMMA HoldTyped ==
    ASSUME Typed, NEW c \in Calls, NEW p \in PCs,
           pc' = [pc EXCEPT ![c] = p], call' = call,
           \A d \in Calls \ {c} : mem'[d] = mem[d],
           mem'[c].id \in Ids
    PROVE  pc' \in [Calls -> PCs] /\ Holds'
  BY DEF Typed, Holds, Holding, TypeOK

LEMMA CreateCheckTyped ==
    ASSUME Typed, NEW c \in Calls, CreateCheck(c)
    PROVE  Typed'
<1>1. CASE Refused(c)
  BY <1>1, RefusedTyped
<1>2. CASE ~Refused(c)
  <2>1. pc' \in [Calls -> PCs] /\ Holds'
    BY <1>2, StepTyped, "checked" \in PCs DEF CreateCheck, tables, PCs
  <2> QED
    BY <1>2, <2>1, CrossesTyped DEF CreateCheck, tables, Typed, TypeOK
<1> QED
  BY <1>1, <1>2

LEMMA CreateInsertTyped ==
    ASSUME Typed, NEW c \in Calls, CreateInsert(c)
    PROVE  Typed'
<1>1. mem' \in [Calls -> Mem] /\ mem'[c].id \in Ids
  BY DEF CreateInsert, Typed, TypeOK, Mem
<1>2. pc' \in [Calls -> PCs] /\ Holds'
  <2>1. \A d \in Calls \ {c} : mem'[d] = mem[d]
    BY DEF CreateInsert, Typed, TypeOK
  <2> QED
    BY <1>1, <2>1, HoldTyped, "inserted" \in PCs DEF CreateInsert, PCs
<1> QED
  BY <1>1, <1>2 DEF CreateInsert, aux, Typed, TypeOK

LEMMA CreateCommitTyped ==
    ASSUME Typed, NEW c \in Calls, CreateCommit(c)
    PROVE  Typed'
<1>1. mem[c].id \in Ids /\ call[c].name \in Names
  BY Asked DEF CreateCommit, Typed, Holds, Holding
<1>2. MainRow(c) \in Row
  BY <1>1, NoRowTyped DEF MainRow, NoRow, Row, Statuses
<1>3. BranchRow(mem[c].id, MainRow(c), TRUE) \in Row
  BY <1>1, <1>2, NoRowTyped DEF BranchRow, NoRow, Row
<1>4. store' \in [Ids -> Row]
  BY <1>2, <1>3 DEF CreateCommit, Typed, TypeOK
<1>5. repeated' \subseteq Ids
  BY <1>1 DEF CreateCommit, Typed, TypeOK
<1>6. pc' \in [Calls -> PCs] /\ mem' \in [Calls -> Mem] /\ Holds'
  BY EndsTyped DEF CreateCommit
<1> QED
  BY <1>4, <1>5, <1>6 DEF CreateCommit, Typed, TypeOK

LEMMA BranchReadTyped ==
    ASSUME Typed, NEW c \in Calls, BranchRead(c)
    PROVE  Typed'
<1>1. CASE Refused(c)
  BY <1>1, RefusedTyped
<1>2. CASE ~Refused(c)
  <2> DEFINE m == store[call[c].id].main
  <2>1. call[c].id \in Ids
    BY Asked DEF BranchRead, Typed
  <2>2. m \in Ids
    <3>1. m \in Ids \cup {0}
      BY <2>1 DEF Typed, TypeOK, Row
    <3>2. m # 0
      BY <1>2 DEF BranchRead
    <3> QED
      BY <3>1, <3>2
  <2>3. mem' \in [Calls -> Mem] /\ mem'[c].id \in Ids
    <3>1. store[m] \in Row
      BY <2>2 DEF Typed, TypeOK
    <3>2. mem' = [mem EXCEPT ![c] = [@ EXCEPT !.id = m, !.row = store[m]]]
      BY <1>2 DEF BranchRead
    <3> HIDE DEF m
    <3> QED
      BY <2>2, <3>1, <3>2 DEF Typed, TypeOK, Mem
  <2>4. \A d \in Calls \ {c} : mem'[d] = mem[d]
    BY <1>2 DEF BranchRead, Typed, TypeOK
  <2>5. pc' \in [Calls -> PCs] /\ Holds'
    BY <1>2, <2>3, <2>4, HoldTyped, "read" \in PCs DEF BranchRead, tables, PCs
  <2> QED
    BY <1>2, <2>3, <2>5, CrossesTyped DEF BranchRead, tables, Typed, TypeOK
<1> QED
  BY <1>1, <1>2

LEMMA BranchCommitTyped ==
    ASSUME Typed, NEW c \in Calls, BranchCommit(c)
    PROVE  Typed'
<1>1. mem[c].id \in Ids /\ mem[c].row \in Row
  BY DEF BranchCommit, Typed, Holds, Holding, TypeOK, Mem
<1>2. BranchRow(mem[c].id, mem[c].row, FALSE) \in Row
  BY <1>1, NoRowTyped DEF BranchRow, NoRow, Row
<1>3. store' \in [Ids -> Row]
  BY <1>2 DEF BranchCommit, Added, Typed, TypeOK
<1>4. repeated' \subseteq Ids /\ apart' \subseteq Ids
  BY DEF BranchCommit, Typed, TypeOK
<1>5. pc' \in [Calls -> PCs] /\ mem' \in [Calls -> Mem] /\ Holds'
  BY EndsTyped DEF BranchCommit
<1> QED
  BY <1>3, <1>4, <1>5 DEF BranchCommit, Typed, TypeOK

LEMMA UpdateCheckTyped ==
    ASSUME Typed, NEW c \in Calls, UpdateCheck(c)
    PROVE  Typed'
<1>1. CASE Refused(c)
  BY <1>1, RefusedTyped
<1>2. CASE ~Refused(c)
  <2>1. pc' \in [Calls -> PCs] /\ Holds'
    BY <1>2, StepTyped, "checked" \in PCs DEF UpdateCheck, tables, PCs
  <2>2. repeated' \subseteq Ids
    BY <1>2, Asked DEF UpdateCheck, Update, Typed, TypeOK
  <2> QED
    BY <1>2, <2>1, <2>2, CrossesTyped DEF UpdateCheck, tables, Typed, TypeOK
<1> QED
  BY <1>1, <1>2

LEMMA EditedTyped ==
    ASSUME NEW row \in Row, NEW body \in Update
    PROVE  Edited(row, body) \in Row
<1>1. CASE body.name = Unset /\ body.temp = Unset
  BY <1>1 DEF Edited, Row
<1>2. CASE body.name # Unset \/ body.temp # Unset
  BY <1>2 DEF Edited, Row, Update
<1> QED
  BY <1>1, <1>2

LEMMA UpdateRowTyped ==
    ASSUME Typed, NEW c \in Calls, UpdateRow(c)
    PROVE  Typed'
<1>1. call[c] \in Update /\ call[c].id \in Ids
  BY Asked DEF UpdateRow, Typed, Update
<1>2. store' \in [Ids -> Row]
  <2>1. Edited(store[call[c].id], call[c]) \in Row
    BY <1>1, EditedTyped DEF Typed, TypeOK
  <2> QED
    BY <2>1 DEF UpdateRow, Added, Typed, TypeOK
<1>3. repeated' \subseteq Ids /\ toggled' \subseteq Ids
  BY <1>1 DEF UpdateRow, Typed, TypeOK
<1>4. pc' \in [Calls -> PCs] /\ Holds'
  BY StepTyped, "written" \in PCs DEF UpdateRow, PCs
<1> QED
  BY <1>2, <1>3, <1>4 DEF UpdateRow, Typed, TypeOK

LEMMA UpdateReadTyped ==
    ASSUME Typed, NEW c \in Calls, UpdateRead(c)
    PROVE  Typed'
<1>1. call[c].id \in Ids
  BY Asked DEF UpdateRead, Typed, Update
<1>2. mem' \in [Calls -> Mem]
  BY <1>1 DEF UpdateRead, Typed, TypeOK, Mem
<1>3. pc' \in [Calls -> PCs] /\ Holds'
  <2>1. \A d \in Calls \ {c} : mem'[d] = mem[d]
    BY DEF UpdateRead, Typed, TypeOK
  <2> QED
    BY <2>1, StepTyped, "read" \in PCs DEF UpdateRead, tables, PCs
<1> QED
  BY <1>2, <1>3 DEF UpdateRead, tables, aux, Typed, TypeOK

LEMMA CopiedTyped ==
    ASSUME NEW row \in Row, NEW from \in Row, NEW status \in Statuses \cup {Unset}
    PROVE  Copied(row, from, status) \in Row
<1>1. CASE status = Unset
  BY <1>1 DEF Copied, Row
<1>2. CASE status # Unset
  BY <1>2 DEF Copied, Row
<1> QED
  BY <1>1, <1>2

LEMMA UpdateSpreadTyped ==
    ASSUME Typed, NEW c \in Calls, UpdateSpread(c)
    PROVE  Typed'
<1>1. call[c] \in Update /\ mem[c].row \in Row
  BY Asked DEF UpdateSpread, Typed, TypeOK, Mem
<1>2. store' \in [Ids -> Row]
  <2>1. \A j \in Ids : Copied(store[j], mem[c].row, call[c].status) \in Row
    BY <1>1, CopiedTyped DEF Typed, TypeOK, Update
  <2> QED
    BY <2>1 DEF UpdateSpread, Typed, TypeOK
<1>3. Targets(call[c].id, mem[c].row.main) \subseteq Ids
  BY DEF Targets, RowsOf
<1>4. repeated' \subseteq Ids /\ apart' \subseteq Ids
  BY <1>3 DEF UpdateSpread, Typed, TypeOK
<1>5. pc' \in [Calls -> PCs] /\ mem' \in [Calls -> Mem] /\ Holds'
  BY EndsTyped DEF UpdateSpread
<1> QED
  BY <1>2, <1>4, <1>5 DEF UpdateSpread, Typed, TypeOK

LEMMA DeleteTyped ==
    ASSUME Typed, NEW c \in Calls, DeleteStore(c) \/ DeleteBranch(c)
    PROVE  Typed'
<1>1. CASE Refused(c)
  BY <1>1, RefusedTyped
<1>2. CASE ~Refused(c)
  <2>1. store' \in [Ids -> Row]
    BY <1>2 DEF DeleteStore, DeleteBranch, Typed, TypeOK, Row
  <2>2. pc' \in [Calls -> PCs] /\ mem' \in [Calls -> Mem] /\ Holds'
    BY <1>2, EndsTyped DEF DeleteStore, DeleteBranch
  <2> QED
    BY <1>2, <2>1, <2>2 DEF DeleteStore, DeleteBranch, aux, Typed, TypeOK
<1> QED
  BY <1>1, <1>2

LEMMA PurgeTyped ==
    ASSUME Typed, NEW c \in Calls, Purge(c)
    PROVE  Typed'
<1>1. CASE Refused(c)
  BY <1>1, RefusedTyped
<1>2. CASE ~Refused(c)
  <2>1. store' \in [Ids -> Row]
    BY <1>2, NoRowTyped DEF Purge, Typed, TypeOK, Row
  <2>2. schedule' \subseteq schedule
    BY <1>2 DEF Purge
  <2>3. pc' \in [Calls -> PCs] /\ mem' \in [Calls -> Mem] /\ Holds'
    BY <1>2, EndsTyped DEF Purge
  <2> QED
    BY <1>2, <2>1, <2>2, <2>3 DEF Purge, aux, Typed, TypeOK
<1> QED
  BY <1>1, <1>2

LEMMA ScheduleCheckTyped ==
    ASSUME Typed, NEW c \in Calls, ScheduleCheck(c)
    PROVE  Typed'
<1>1. CASE Refused(c)
  BY <1>1, RefusedTyped
<1>2. CASE ~Refused(c)
  <2>1. call[c].id \in Ids
    BY Asked DEF ScheduleCheck, Typed
  <2>2. store[call[c].id].main \in Ids
    <3>1. store[call[c].id].main \in Ids \cup {0}
      BY <2>1 DEF Typed, TypeOK, Row
    <3>2. store[call[c].id].main # 0
      BY <1>2 DEF ScheduleCheck
    <3> QED
      BY <3>1, <3>2
  <2>3. mem' \in [Calls -> Mem] /\ mem'[c].id \in Ids
    <3>1. mem' = [mem EXCEPT ![c].id = store[call[c].id].main]
      BY <1>2 DEF ScheduleCheck
    <3> QED
      BY <2>2, <3>1 DEF Typed, TypeOK, Mem
  <2>4. \A d \in Calls \ {c} : mem'[d] = mem[d]
    BY <1>2 DEF ScheduleCheck, Typed, TypeOK
  <2>5. pc' \in [Calls -> PCs] /\ Holds'
    BY <1>2, <2>3, <2>4, HoldTyped, "checked" \in PCs DEF ScheduleCheck, tables, PCs
  <2> QED
    BY <1>2, <2>3, <2>5, CrossesTyped DEF ScheduleCheck, tables, Typed, TypeOK
<1> QED
  BY <1>1, <1>2

LEMMA ScheduleInsertTyped ==
    ASSUME Typed, NEW c \in Calls, ScheduleInsert(c)
    PROVE  Typed'
<1>1. mem[c].id \in Ids /\ call[c].open \in Times /\ call[c].close \in Times
  BY Asked DEF ScheduleInsert, Typed, Holds, Holding
<1>2. schedule' \subseteq [store : Ids, open : Times, close : Times, by : Calls]
  BY <1>1 DEF ScheduleInsert, Typed, TypeOK
<1>3. pc' \in [Calls -> PCs] /\ mem' \in [Calls -> Mem] /\ Holds'
  BY EndsTyped DEF ScheduleInsert
<1> QED
  BY <1>2, <1>3 DEF ScheduleInsert, aux, Typed, TypeOK

LEMMA UnscheduleTyped ==
    ASSUME Typed, NEW c \in Calls, Unschedule(c)
    PROVE  Typed'
<1>1. CASE Refused(c)
  BY <1>1, RefusedTyped
<1>2. CASE ~Refused(c)
  <2>1. schedule' \subseteq schedule
    BY <1>2 DEF Unschedule
  <2>2. pc' \in [Calls -> PCs] /\ mem' \in [Calls -> Mem] /\ Holds'
    BY <1>2, EndsTyped DEF Unschedule
  <2> QED
    BY <1>2, <2>1, <2>2 DEF Unschedule, aux, Typed, TypeOK
<1> QED
  BY <1>1, <1>2

LEMMA SubscribeReadTyped ==
    ASSUME Typed, NEW c \in Calls, SubscribeRead(c)
    PROVE  Typed'
<1>1. CASE Refused(c)
  BY <1>1, RefusedTyped
<1>2. CASE ~Refused(c)
  <2> DEFINE i == call[c].id
  <2>1. i \in Ids /\ store[i].main \in Ids \cup {0}
    BY Asked DEF SubscribeRead, Typed, TypeOK, Row
  <2>2. mem' \in [Calls -> Mem] /\ mem'[c].id \in Ids
    BY <1>2, <2>1 DEF SubscribeRead, Typed, TypeOK, Mem
  <2>3. \A d \in Calls \ {c} : mem'[d] = mem[d]
    BY <1>2 DEF SubscribeRead, Typed, TypeOK
  <2>4. pc' \in [Calls -> PCs] /\ Holds'
    BY <1>2, <2>2, <2>3, HoldTyped, "read" \in PCs DEF SubscribeRead, PCs
  <2> QED
    BY <1>2, <2>2, <2>4 DEF SubscribeRead, tables, aux, Typed, TypeOK
<1> QED
  BY <1>1, <1>2

LEMMA SubscribeCommitTyped ==
    ASSUME Typed, NEW c \in Calls, SubscribeCommit(c)
    PROVE  Typed'
<1>1. CASE Refused(c)
  BY <1>1, RefusedTyped
<1>2. CASE ~Refused(c)
  <2>1. mem[c].id \in Ids /\ call[c].plan \in Plans
    BY Asked DEF SubscribeCommit, Typed, Holds, Holding
  <2>2. store' \in [Ids -> Row]
    BY <1>2, <2>1 DEF SubscribeCommit, Typed, TypeOK, Row
  <2>3. subs' \subseteq [store : Ids, plan : Plans]
    BY <1>2, <2>1 DEF SubscribeCommit, Typed, TypeOK
  <2>4. pc' \in [Calls -> PCs] /\ mem' \in [Calls -> Mem] /\ Holds'
    BY <1>2, EndsTyped DEF SubscribeCommit
  <2> QED
    BY <1>2, <2>2, <2>3, <2>4 DEF SubscribeCommit, aux, Typed, TypeOK
<1> QED
  BY <1>1, <1>2

LEMMA TurnTyped ==
    ASSUME TypeOK, NEW i \in Branches
    PROVE  TurnOf(i) \in Turn
<1>1. i \in Ids /\ store[i].main \in Ids /\ store[i].temp \in BOOLEAN
  BY DEF Branches, TypeOK, Row
<1>2. HoursOf(store[i].main) \in Hours
  BY DEF TypeOK, HoursOf, Hours
<1> QED
  BY <1>1, <1>2 DEF TurnOf, Turn

LEMMA CloseReadTyped ==
    ASSUME Typed, NEW c \in Calls, CloseRead(c)
    PROVE  Typed'
<1>1. {TurnOf(i) : i \in Branches} \subseteq Turn
  BY TurnTyped DEF Typed
<1>2. mem' \in [Calls -> Mem]
  BY <1>1 DEF CloseRead, Typed, TypeOK, Mem
<1>3. pc' \in [Calls -> PCs] /\ Holds'
  <2>1. \A d \in Calls \ {c} : mem'[d] = mem[d]
    BY DEF CloseRead, Typed, TypeOK
  <2> QED
    BY <2>1, StepTyped, "closing" \in PCs DEF CloseRead, PCs
<1> QED
  BY <1>2, <1>3 DEF CloseRead, tables, aux, Typed, TypeOK

LEMMA CloseWriteTyped ==
    ASSUME Typed, NEW c \in Calls, CloseWrite(c)
    PROVE  Typed'
<1>1. PICK b \in mem[c].todo, now \in Times :
         /\ store' = [i \in Ids |->
                        IF i \in RowsOf(b.main)
                        THEN [store[i] EXCEPT !.closed = CloseValue(b, now)]
                        ELSE store[i]]
         /\ last' = [i \in Ids |->
                       IF i \in RowsOf(b.main)
                       THEN [id |-> b.id, main |-> b.main, temp |-> b.temp]
                       ELSE last[i]]
         /\ toggled' = IF store[b.id].temp = b.temp THEN toggled \ {b.id}
                                                    ELSE toggled \cup {b.id}
         /\ mem' = [mem EXCEPT ![c].todo = @ \ {b}]
  BY DEF CloseWrite
<1>2. b \in Turn /\ b.id \in Ids /\ b.main \in Ids /\ b.temp \in BOOLEAN
  BY <1>1 DEF Typed, TypeOK, Mem, Turn
<1>3. CloseValue(b, now) \in BOOLEAN
  BY <1>2, Zenon DEF CloseValue, IsStoreClosed
<1>4. store' \in [Ids -> Row]
  <2>1. \A i \in Ids : [store[i] EXCEPT !.closed = CloseValue(b, now)] \in Row
    BY <1>3 DEF Typed, TypeOK, Row
  <2> QED
    BY <1>1, <2>1 DEF Typed, TypeOK
<1>5. toggled' \subseteq Ids /\ last' \in [Ids -> Wrote]
  <2>1. [id |-> b.id, main |-> b.main, temp |-> b.temp] \in Wrote
    BY <1>2 DEF Wrote
  <2>2. last' \in [Ids -> Wrote]
    BY <1>1, <2>1 DEF Typed, TypeOK
  <2>3. toggled' \subseteq Ids
    BY <1>1, <1>2 DEF Typed, TypeOK
  <2> QED
    BY <2>2, <2>3
<1>6. mem' \in [Calls -> Mem] /\ \A d \in Calls : mem'[d].id = mem[d].id
  BY <1>1 DEF Typed, TypeOK, Mem
<1>7. Holds'
  BY <1>6 DEF CloseWrite, Typed, Holds, Holding
<1> QED
  BY <1>4, <1>5, <1>6, <1>7 DEF CloseWrite, Typed, TypeOK

LEMMA CloseEndTyped ==
    ASSUME Typed, NEW c \in Calls, CloseEnd(c) \/ FailCall(c)
    PROVE  Typed'
  BY EndsTyped DEF CloseEnd, FailCall, tables, aux, Typed, TypeOK

LEMMA NextTyped == Typed /\ [Next]_vars => Typed'
<1> SUFFICES ASSUME Typed, [Next]_vars PROVE Typed'
  OBVIOUS
<1>1. CASE UNCHANGED vars
  BY <1>1 DEF vars, tables, aux, Typed, TypeOK, Holds, Holding
<1>2. CASE Next
  BY <1>2, CreateCheckTyped, CreateInsertTyped, CreateCommitTyped,
     BranchReadTyped, BranchCommitTyped, UpdateCheckTyped, UpdateRowTyped,
     UpdateReadTyped, UpdateSpreadTyped, DeleteTyped, PurgeTyped,
     ScheduleCheckTyped, ScheduleInsertTyped, UnscheduleTyped,
     SubscribeReadTyped, SubscribeCommitTyped, CloseReadTyped, CloseWriteTyped,
     CloseEndTyped DEF Next
<1> QED
  BY <1>1, <1>2

\* The tables and the calls on them keep their types.
THEOREM TypeCorrect == Spec => []TypeOK
<1>1. Init => Typed
  BY InitTyped DEF Init, Typed, Holds, Holding
<1>2. Typed => TypeOK
  BY DEF Typed
<1> QED
  BY <1>1, <1>2, NextTyped, PTL DEF Spec

-----------------------------------------------------------------------------
(* No subscription is stored.  subscribe is called with a main store, and the *)
(* row it relies on cannot have a main store of its own: the ids that calls   *)
(* hold are never above the counter, so no new branch is given one of them.   *)

Reading(c) == pc[c] = "read" /\ call[c].kind \in {"branch", "subscribe"}

\* What a call has read still holds.
Sound(c) ==
    /\ mem[c].row.plan = DefaultPlan
    /\ Holding(c) => mem[c].id <= lastId
    /\ Reading(c) => store[mem[c].id].main = 0

Counted == \A i \in Ids : Present(i) => i <= lastId

Rooted == NothingSubscribed /\ Counted /\ \A c \in Calls : Sound(c)

LEMMA InitRooted == Init => Rooted
<1> SUFFICES ASSUME Init PROVE Rooted
  OBVIOUS
<1>1. NothingSubscribed
  BY ExistingAssumption DEF Init, NothingSubscribed, Present
<1>2. Counted
  BY DEF Init, Counted
<1>3. \A c \in Calls : Sound(c)
  BY DEF Init, Sound, Holding, Reading, NoMem, NoRow
<1> QED
  BY <1>1, <1>2, <1>3 DEF Rooted

\* A step that leaves the tree of stores and their plans as they are.
SameShape ==
    /\ \A i \in Ids : /\ store'[i].main = store[i].main
                      /\ store'[i].plan = store[i].plan
                      /\ Present(i)' <=> Present(i)
    /\ subs' = subs
    /\ lastId' = lastId
    /\ call' = call

LEMMA ShapeKept ==
    ASSUME Typed, Rooted, SameShape, NEW c \in Calls,
           \A d \in Calls \ {c} : pc'[d] = pc[d] /\ mem'[d] = mem[d],
           Sound(c)'
    PROVE  Rooted'
<1>1. NothingSubscribed'
  <2>1. ASSUME NEW i \in Ids, store[i].main # 0
        PROVE  store[i].main \in Ids
    BY <2>1 DEF Typed, TypeOK, Row
  <2> QED
    BY <2>1 DEF Rooted, NothingSubscribed, SameShape, Present
<1>2. Counted'
  BY DEF Rooted, Counted, SameShape, Present
<1>3. ASSUME NEW d \in Calls \ {c} PROVE Sound(d)'
  <2>1. Reading(d) => mem[d].id \in Ids
    BY DEF Typed, Holds, Holding, Reading
  <2> QED
    BY <2>1 DEF Rooted, Sound, Holding, Reading, SameShape
<1> QED
  BY <1>1, <1>2, <1>3 DEF Rooted

\* A call that ends relies on nothing.
LEMMA EndsSound ==
    ASSUME Typed, Rooted, NEW c \in Calls, NEW end \in {"done", "refused", "failed"},
           Ends(c, end)
    PROVE  /\ \A d \in Calls \ {c} : pc'[d] = pc[d] /\ mem'[d] = mem[d]
           /\ Sound(c)'
  BY DEF Ends, Sound, Holding, Reading, NoMem, NoRow, Typed, TypeOK

LEMMA RefusedRooted ==
    ASSUME Typed, Rooted, NEW c \in Calls, Refused(c)
    PROVE  Rooted'
  BY EndsSound, ShapeKept DEF Refused, SameShape, tables, Present

LEMMA CheckRooted ==
    ASSUME Typed, Rooted, NEW c \in Calls,
           CreateCheck(c) \/ UpdateCheck(c)
    PROVE  Rooted'
<1>1. CASE Refused(c)
  BY <1>1, RefusedRooted
<1>2. CASE ~Refused(c)
  <2>1. pc' = [pc EXCEPT ![c] = "checked"] /\ UNCHANGED <<tables, call, mem>>
    BY <1>2 DEF CreateCheck, UpdateCheck
  <2>2. SameShape
    BY <2>1 DEF SameShape, tables, Present
  <2>3. call[c].kind \in {"create", "update"}
    BY DEF CreateCheck, UpdateCheck
  <2>4. Sound(c)'
    BY <2>1, <2>3 DEF Sound, Holding, Reading, Rooted, Typed, TypeOK, tables
  <2> QED
    BY <2>1, <2>2, <2>4, ShapeKept DEF Typed, TypeOK
<1> QED
  BY <1>1, <1>2

LEMMA CreateInsertRooted ==
    ASSUME Typed, Rooted, NEW c \in Calls, CreateInsert(c)
    PROVE  Rooted'
<1>1. lastId' = lastId + 1 /\ lastId \in Nat
  BY IdsAssumption DEF CreateInsert, Typed, TypeOK
<1>2. NothingSubscribed'
  BY DEF CreateInsert, Rooted, NothingSubscribed, Present
<1>3. Counted'
  <2> SUFFICES ASSUME NEW i \in Ids, Present(i) PROVE i <= lastId'
    BY DEF Counted, CreateInsert, Present
  <2> QED
    BY <1>1, IdsAssumption DEF Rooted, Counted
<1>4. ASSUME NEW d \in Calls PROVE Sound(d)'
  <2>1. CASE d = c
    BY <2>1, <1>1 DEF CreateInsert, Sound, Holding, Reading, Rooted, Typed, TypeOK, Mem
  <2>2. CASE d # c
    <3>1. Holding(d) => mem[d].id \in Nat
      BY IdsAssumption DEF Typed, Holds
    <3>2. pc'[d] = pc[d] /\ mem'[d] = mem[d] /\ store' = store /\ call' = call
      BY <2>2 DEF CreateInsert, Typed, TypeOK
    <3>3. Sound(d)
      BY DEF Rooted
    <3> QED
      BY <1>1, <3>1, <3>2, <3>3 DEF Sound, Holding, Reading
  <2> QED
    BY <2>1, <2>2
<1> QED
  BY <1>2, <1>3, <1>4 DEF Rooted

\* A new branch keeps the tree: nothing refers to its id, and its main store
\* has none.
LEMMA BranchRooted ==
    ASSUME Typed, Rooted, NEW c \in Calls, NEW m \in Ids, NEW b \in Ids,
           b = lastId + 1, lastId' = b, m <= lastId, call' = call, subs' = subs,
           \A i \in Ids \ {m, b} : store'[i] = store[i],
           store'[m].main = 0, store'[m].plan = DefaultPlan, store'[m].state # "none",
           store'[b].main = m, store'[b].plan = DefaultPlan,
           \A d \in Calls \ {c} : pc'[d] = pc[d] /\ mem'[d] = mem[d],
           mem'[c].row.plan = DefaultPlan, ~Holding(c)', ~Reading(c)'
    PROVE  Rooted'
<1>1. lastId \in Nat /\ b # m /\ Ids \subseteq Nat
  BY IdsAssumption DEF Typed, TypeOK
<1>2. ASSUME NEW i \in Ids
      PROVE  /\ store'[i].plan = DefaultPlan
             /\ store'[i].main # 0 =>
                   store'[store'[i].main].state # "none" /\ store'[store'[i].main].main = 0
  <2>1. CASE i \in {m, b}
    BY <2>1, <1>1, IdsAssumption
  <2>2. CASE i \notin {m, b}
    <3>1. store'[i] = store[i] /\ store[i].plan = DefaultPlan
      BY <2>2 DEF Rooted, NothingSubscribed
    <3>2. ASSUME store[i].main # 0
          PROVE  /\ store[i].main \in Ids
                 /\ Present(store[i].main) /\ store[store[i].main].main = 0
      BY <3>2 DEF Rooted, NothingSubscribed, Typed, TypeOK, Row
    <3>3. store[i].main # 0 => store[i].main # b
      BY <3>2, <1>1 DEF Rooted, Counted
    <3> QED
      BY <3>1, <3>2, <3>3 DEF Present
  <2> QED
    BY <2>1, <2>2
<1>3. Counted'
  <2> SUFFICES ASSUME NEW i \in Ids, Present(i)'
               PROVE  i <= lastId'
    BY DEF Counted
  <2>1. i \in Nat /\ b \in Nat /\ m \in Nat
    BY <1>1
  <2>2. CASE i \in {m, b}
    BY <2>1, <2>2, <1>1
  <2>3. CASE i \notin {m, b}
    <3>1. i <= lastId
      BY <2>3 DEF Rooted, Counted, Present
    <3> QED
      BY <2>1, <3>1, <1>1
  <2> QED
    BY <2>2, <2>3
<1>4. ASSUME NEW d \in Calls PROVE Sound(d)'
  <2>1. CASE d = c
    BY <2>1 DEF Sound
  <2>2. CASE d # c
    <3>1. pc'[d] = pc[d] /\ mem'[d] = mem[d] /\ Sound(d)
      BY <2>2 DEF Rooted
    <3>2. Holding(d) => mem[d].id \in Ids /\ mem[d].id <= lastId
      BY <3>1 DEF Typed, Holds, Sound
    <3>3. Holding(d) => mem[d].id # b
      BY <3>2, <1>1
    <3>4. Reading(d) => Holding(d)
      BY DEF Reading, Holding
    <3>5. Reading(d) => store'[mem[d].id].main = 0
      <4>1. CASE mem[d].id = m
        BY <4>1
      <4>2. CASE mem[d].id # m /\ Reading(d)
        <5>1. store'[mem[d].id] = store[mem[d].id]
          BY <4>2, <3>2, <3>3, <3>4
        <5> QED
          BY <4>2, <5>1, <3>1 DEF Sound
      <4> QED
        BY <4>1, <4>2
    <3>6. ASSUME Holding(d) PROVE mem[d].id <= lastId'
      <4>1. mem[d].id \in Nat /\ mem[d].id <= lastId
        BY <3>2, <3>6, <1>1
      <4> QED
        BY <4>1, <1>1
    <3> QED
      BY <3>1, <3>5, <3>6 DEF Sound, Holding, Reading
  <2> QED
    BY <2>1, <2>2
<1>5. NothingSubscribed'
  BY <1>2 DEF NothingSubscribed, Rooted, Present
<1> QED
  BY <1>3, <1>4, <1>5 DEF Rooted

LEMMA CreateCommitRooted ==
    ASSUME Typed, Rooted, NEW c \in Calls, CreateCommit(c)
    PROVE  Rooted'
<1> DEFINE m == mem[c].id
           b == lastId + 1
<1>1. m \in Ids /\ b \in Ids /\ m <= lastId
  BY DEF CreateCommit, Typed, Holds, Holding, Rooted, Sound
<1>2. b # m /\ lastId \in Nat
  BY <1>1, IdsAssumption DEF Typed, TypeOK
<1>3. store'[m] = MainRow(c) /\ store'[b] = BranchRow(m, MainRow(c), TRUE)
  BY <1>1, <1>2 DEF CreateCommit
<1>4. \A i \in Ids \ {m, b} : store'[i] = store[i]
  BY DEF CreateCommit
<1>5. /\ store'[m].main = 0 /\ store'[m].plan = DefaultPlan /\ store'[m].state # "none"
      /\ store'[b].main = m /\ store'[b].plan = DefaultPlan
  BY <1>3 DEF MainRow, BranchRow, NoRow, Present
<1>6. /\ \A d \in Calls \ {c} : pc'[d] = pc[d] /\ mem'[d] = mem[d]
      /\ mem'[c].row.plan = DefaultPlan /\ ~Holding(c)' /\ ~Reading(c)'
  BY DEF CreateCommit, Ends, NoMem, NoRow, Holding, Reading, Typed, TypeOK
<1>7. lastId' = b /\ call' = call /\ subs' = subs
  BY DEF CreateCommit
<1> HIDE DEF m, b
<1>8. b = lastId + 1
  BY DEF b
<1> QED
  BY <1>1, <1>4, <1>5, <1>6, <1>7, <1>8, BranchRooted

LEMMA BranchReadRooted ==
    ASSUME Typed, Rooted, NEW c \in Calls, BranchRead(c)
    PROVE  Rooted'
<1>1. CASE Refused(c)
  BY <1>1, RefusedRooted
<1>2. CASE ~Refused(c)
  <2> DEFINE m == store[call[c].id].main
  <2>1. call[c].id \in Ids /\ m # 0
    BY <1>2, Asked DEF BranchRead, Typed
  <2>2. m \in Ids /\ Present(m) /\ store[m].main = 0 /\ store[m].plan = DefaultPlan
    BY <2>1 DEF Rooted, NothingSubscribed, Typed, TypeOK, Row
  <2>3. m <= lastId
    BY <2>2 DEF Rooted, Counted
  <2>4. /\ mem' = [mem EXCEPT ![c] = [@ EXCEPT !.id = m, !.row = store[m]]]
        /\ pc' = [pc EXCEPT ![c] = "read"] /\ UNCHANGED <<tables, call>>
    BY <1>2 DEF BranchRead
  <2> HIDE DEF m
  <2>5. mem'[c].id = m /\ mem'[c].row = store[m]
    BY <2>4 DEF Typed, TypeOK, Mem
  <2>6. SameShape
    BY <2>4 DEF SameShape, tables, Present
  <2>7. Sound(c)'
    BY <2>2, <2>3, <2>4, <2>5 DEF Sound, tables
  <2> QED
    BY <2>4, <2>6, <2>7, ShapeKept DEF Typed, TypeOK
<1> QED
  BY <1>1, <1>2

LEMMA BranchCommitRooted ==
    ASSUME Typed, Rooted, NEW c \in Calls, BranchCommit(c)
    PROVE  Rooted'
<1> DEFINE m == mem[c].id
           b == lastId + 1
<1>1. m \in Ids /\ b \in Ids /\ m <= lastId /\ store[m].main = 0
  BY DEF BranchCommit, Typed, Holds, Holding, Reading, Rooted, Sound
<1>2. b # m /\ lastId \in Nat
  BY <1>1, IdsAssumption DEF Typed, TypeOK
<1>3. store'[m] = store[m] /\ store'[b] = BranchRow(m, mem[c].row, FALSE)
  BY <1>1, <1>2 DEF BranchCommit, Added
<1>4. \A i \in Ids \ {m, b} : store'[i] = store[i]
  BY DEF BranchCommit, Added
<1>5. /\ store'[m].main = 0 /\ store'[m].plan = DefaultPlan /\ store'[m].state # "none"
      /\ store'[b].main = m /\ store'[b].plan = DefaultPlan
  <2>1. store[m].plan = DefaultPlan /\ store[m].state # "none"
    BY <1>1 DEF BranchCommit, Present, Rooted, NothingSubscribed
  <2> QED
    BY <1>1, <1>3, <2>1 DEF BranchRow, NoRow
<1>6. /\ \A d \in Calls \ {c} : pc'[d] = pc[d] /\ mem'[d] = mem[d]
      /\ mem'[c].row.plan = DefaultPlan /\ ~Holding(c)' /\ ~Reading(c)'
  BY DEF BranchCommit, Ends, NoMem, NoRow, Holding, Reading, Typed, TypeOK
<1>7. lastId' = b /\ call' = call /\ subs' = subs
  BY DEF BranchCommit
<1> HIDE DEF m, b
<1>8. b = lastId + 1
  BY DEF b
<1> QED
  BY <1>1, <1>4, <1>5, <1>6, <1>7, <1>8, BranchRooted

LEMMA UpdateRowRooted ==
    ASSUME Typed, Rooted, NEW c \in Calls, UpdateRow(c)
    PROVE  Rooted'
<1>1. SameShape
  BY DEF UpdateRow, Added, Edited, SameShape, Present, Typed, TypeOK, Row
<1>2. Sound(c)'
  BY DEF UpdateRow, Sound, Holding, Reading, Rooted, Typed, TypeOK
<1> QED
  BY <1>1, <1>2, ShapeKept DEF UpdateRow, Typed, TypeOK

LEMMA UpdateReadRooted ==
    ASSUME Typed, Rooted, NEW c \in Calls, UpdateRead(c)
    PROVE  Rooted'
<1>1. SameShape
  BY DEF UpdateRead, SameShape, tables, Present
<1>2. call[c].id \in Ids
  BY Asked DEF UpdateRead, Typed, Update
<1>3. mem'[c].row.plan = DefaultPlan
  BY <1>2 DEF UpdateRead, Rooted, NothingSubscribed, Typed, TypeOK, Mem
<1>4. Sound(c)'
  BY <1>3 DEF UpdateRead, Sound, Holding, Reading, Typed, TypeOK
<1> QED
  BY <1>1, <1>4, ShapeKept DEF UpdateRead, Typed, TypeOK

LEMMA UpdateSpreadRooted ==
    ASSUME Typed, Rooted, NEW c \in Calls, UpdateSpread(c)
    PROVE  Rooted'
<1>1. mem[c].row.plan = DefaultPlan
  BY DEF Rooted, Sound
<1>2. ASSUME NEW i \in Ids
      PROVE  /\ store'[i].main = store[i].main
             /\ store'[i].plan = store[i].plan
             /\ store'[i].state = store[i].state
  BY <1>1 DEF UpdateSpread, Copied, Typed, TypeOK, Row, Rooted, NothingSubscribed
<1>3. SameShape
  BY <1>2 DEF UpdateSpread, SameShape, Present
<1> QED
  BY <1>3, EndsSound, ShapeKept DEF UpdateSpread

LEMMA DeleteRooted ==
    ASSUME Typed, Rooted, NEW c \in Calls, DeleteStore(c) \/ DeleteBranch(c)
    PROVE  Rooted'
<1>1. CASE Refused(c)
  BY <1>1, RefusedRooted
<1>2. CASE ~Refused(c)
  <2>1. SameShape
    BY <1>2 DEF DeleteStore, DeleteBranch, SameShape, Present, Typed, TypeOK, Row
  <2>2. Ends(c, "done")
    BY <1>2 DEF DeleteStore, DeleteBranch
  <2> QED
    BY <2>1, <2>2, EndsSound, ShapeKept
<1> QED
  BY <1>1, <1>2

LEMMA PurgeRooted ==
    ASSUME Typed, Rooted, NEW c \in Calls, Purge(c)
    PROVE  Rooted'
<1>1. CASE Refused(c)
  BY <1>1, RefusedRooted
<1>2. CASE ~Refused(c)
  <2>1. PICK n \in Ids :
          LET old == {i \in Ids : Present(i) /\ i <= n} IN
          /\ store' = [i \in Ids |->
                         IF i \in old THEN NoRow
                         ELSE IF store[i].main \in old
                              THEN [store[i] EXCEPT !.main = 0]
                         ELSE store[i]]
          /\ Ends(c, "done") /\ UNCHANGED <<lastId, subs, call>>
    BY <1>2 DEF Purge
  <2> DEFINE old == {i \in Ids : Present(i) /\ i <= n}
  <2>2. 0 \notin Ids
    BY IdsAssumption
  <2>3. ASSUME NEW i \in Ids
        PROVE  /\ store'[i].plan = DefaultPlan
               /\ store'[i].main # 0 =>
                     /\ store'[i].main = store[i].main
                     /\ i \notin old /\ store[i].main \notin old
               /\ store'[i].state # "none" => store[i].state # "none"
               /\ store[i].state # "none" /\ i \notin old => store'[i].state # "none"
               /\ store[i].main = 0 => store'[i].main = 0
    <3>1. store[i].plan = DefaultPlan /\ store[i] \in Row
      BY DEF Rooted, NothingSubscribed, Typed, TypeOK
    <3> QED
      BY <2>1, <2>2, <3>1 DEF NoRow, Present, Row
  <2>4. NothingSubscribed'
    <3>1. ASSUME NEW i \in Ids, store'[i].main # 0
          PROVE  store'[store'[i].main].state # "none" /\ store'[store'[i].main].main = 0
      <4>1. /\ store[i].main \in Ids /\ store'[i].main = store[i].main
            /\ store[i].main \notin old
        BY <3>1, <2>3 DEF Typed, TypeOK, Row
      <4>2. Present(store[i].main) /\ store[store[i].main].main = 0
        BY <3>1, <4>1 DEF Rooted, NothingSubscribed
      <4> QED
        BY <4>1, <4>2, <2>3 DEF Present
    <3> QED
      BY <2>1, <2>3, <3>1 DEF NothingSubscribed, Rooted, Present
  <2>5. Counted'
    BY <2>1, <2>3 DEF Counted, Rooted, Present
  <2>6. ASSUME NEW d \in Calls PROVE Sound(d)'
    <3>1. CASE d = c
      BY <3>1, <2>1, EndsSound
    <3>2. CASE d # c
      <4>1. pc'[d] = pc[d] /\ mem'[d] = mem[d] /\ call' = call /\ lastId' = lastId
        BY <3>2, <2>1, EndsSound
      <4>2. Reading(d) => mem[d].id \in Ids
        BY DEF Typed, Holds, Holding, Reading
      <4>3. Reading(d) => store'[mem[d].id].main = 0
        BY <2>3, <4>2 DEF Rooted, Sound
      <4> QED
        BY <4>1, <4>3 DEF Rooted, Sound, Holding, Reading
    <3> QED
      BY <3>1, <3>2
  <2> QED
    BY <2>4, <2>5, <2>6 DEF Rooted
<1> QED
  BY <1>1, <1>2

LEMMA ScheduleRooted ==
    ASSUME Typed, Rooted, NEW c \in Calls,
           ScheduleCheck(c) \/ ScheduleInsert(c) \/ Unschedule(c)
    PROVE  Rooted'
<1>1. CASE Refused(c)
  BY <1>1, RefusedRooted
<1>2. CASE ScheduleCheck(c) /\ ~Refused(c)
  <2> DEFINE m == store[call[c].id].main
  <2>1. call[c].id \in Ids /\ m # 0
    BY <1>2, Asked DEF ScheduleCheck, Typed
  <2>2. m \in Ids /\ Present(m)
    BY <2>1 DEF Rooted, NothingSubscribed, Typed, TypeOK, Row
  <2>3. m <= lastId
    BY <2>2 DEF Rooted, Counted
  <2>4. /\ mem' = [mem EXCEPT ![c].id = m]
        /\ pc' = [pc EXCEPT ![c] = "checked"] /\ UNCHANGED <<tables, call>>
    BY <1>2 DEF ScheduleCheck
  <2> HIDE DEF m
  <2>5. mem'[c].id = m /\ mem'[c].row = mem[c].row
    BY <2>4 DEF Typed, TypeOK, Mem
  <2>6. SameShape
    BY <2>4 DEF SameShape, tables, Present
  <2>7. Sound(c)'
    BY <2>3, <2>4, <2>5 DEF Sound, Reading, Rooted, tables, Typed, TypeOK
  <2> QED
    BY <2>4, <2>6, <2>7, ShapeKept DEF Typed, TypeOK
<1>3. CASE (ScheduleInsert(c) \/ Unschedule(c)) /\ ~Refused(c)
  <2>1. Ends(c, "done") /\ SameShape
    BY <1>3 DEF ScheduleInsert, Unschedule, SameShape, Present
  <2> QED
    BY <2>1, EndsSound, ShapeKept
<1> QED
  BY <1>1, <1>2, <1>3

LEMMA SubscribeReadRooted ==
    ASSUME Typed, Rooted, NEW c \in Calls, SubscribeRead(c)
    PROVE  Rooted'
<1>1. CASE Refused(c)
  BY <1>1, RefusedRooted
<1>2. CASE ~Refused(c)
  <2> DEFINE i == call[c].id
             s == IF store[i].main = 0 THEN i ELSE store[i].main
  <2>1. i \in Ids /\ Present(i)
    BY <1>2, Asked DEF SubscribeRead, Vendor, Typed
  <2>2. s \in Ids /\ Present(s) /\ store[s].main = 0
    <3>1. CASE store[i].main = 0
      BY <2>1, <3>1
    <3>2. CASE store[i].main # 0
      BY <2>1, <3>2 DEF Rooted, NothingSubscribed, Typed, TypeOK, Row
    <3> QED
      BY <3>1, <3>2
  <2>3. s <= lastId
    BY <2>2 DEF Rooted, Counted
  <2>4. /\ mem' = [mem EXCEPT ![c].id = s]
        /\ pc' = [pc EXCEPT ![c] = "read"] /\ UNCHANGED <<tables, call>>
    BY <1>2 DEF SubscribeRead
  <2> HIDE DEF s
  <2>5. mem'[c].id = s /\ mem'[c].row = mem[c].row
    BY <2>4 DEF Typed, TypeOK, Mem
  <2>6. SameShape
    BY <2>4 DEF SameShape, tables, Present
  <2>7. Sound(c)'
    BY <2>2, <2>3, <2>4, <2>5 DEF Sound, Rooted, tables
  <2> QED
    BY <2>4, <2>6, <2>7, ShapeKept DEF Typed, TypeOK
<1> QED
  BY <1>1, <1>2

\* The transaction of subscribe always fails.
LEMMA SubscribeCommitRooted ==
    ASSUME Typed, Rooted, NEW c \in Calls, SubscribeCommit(c)
    PROVE  Rooted'
<1>1. SubscribeFails(mem[c].id)
  BY DEF SubscribeCommit, SubscribeFails, Reading, Rooted, Sound
<1> QED
  BY <1>1, RefusedRooted DEF SubscribeCommit

LEMMA CloseReadRooted ==
    ASSUME Typed, Rooted, NEW c \in Calls, CloseRead(c)
    PROVE  Rooted'
<1>1. SameShape
  BY DEF CloseRead, SameShape, tables, Present
<1>2. mem'[c].row = mem[c].row
  BY DEF CloseRead, Typed, TypeOK, Mem
<1>3. Sound(c)'
  BY <1>2 DEF CloseRead, Sound, Holding, Reading, Rooted, Typed, TypeOK
<1> QED
  BY <1>1, <1>3, ShapeKept DEF CloseRead, Typed, TypeOK

LEMMA CloseWriteRooted ==
    ASSUME Typed, Rooted, NEW c \in Calls, CloseWrite(c)
    PROVE  Rooted'
<1>1. \A i \in Ids : /\ store'[i].main = store[i].main
                     /\ store'[i].plan = store[i].plan
                     /\ store'[i].state = store[i].state
  BY DEF CloseWrite, Typed, TypeOK, Row
<1>2. SameShape
  BY <1>1 DEF CloseWrite, SameShape, Present
<1>3. mem'[c].row = mem[c].row /\ \A d \in Calls \ {c} : mem'[d] = mem[d]
  BY DEF CloseWrite, Typed, TypeOK, Mem
<1>4. Sound(c)'
  BY <1>3 DEF CloseWrite, Sound, Holding, Reading, Rooted
<1> QED
  BY <1>2, <1>3, <1>4, ShapeKept DEF CloseWrite

LEMMA EndRooted ==
    ASSUME Typed, Rooted, NEW c \in Calls, CloseEnd(c) \/ FailCall(c)
    PROVE  Rooted'
<1>1. SameShape
  BY DEF CloseEnd, FailCall, SameShape, tables, Present
<1>2. Ends(c, "done") \/ Ends(c, "failed")
  BY DEF CloseEnd, FailCall
<1> QED
  BY <1>1, <1>2, EndsSound, ShapeKept

LEMMA NextRooted == Typed /\ Rooted /\ [Next]_vars => Rooted'
<1> SUFFICES ASSUME Typed, Rooted, [Next]_vars PROVE Rooted'
  OBVIOUS
<1>1. CASE UNCHANGED vars
  BY <1>1 DEF vars, tables, Rooted, NothingSubscribed, Counted, Sound, Holding,
              Reading, Present
<1>2. CASE Next
  BY <1>2, CheckRooted, CreateInsertRooted, CreateCommitRooted,
     BranchReadRooted, BranchCommitRooted, UpdateRowRooted, UpdateReadRooted,
     UpdateSpreadRooted, DeleteRooted, PurgeRooted, ScheduleRooted,
     SubscribeReadRooted, SubscribeCommitRooted, CloseReadRooted,
     CloseWriteRooted, EndRooted DEF Next
<1> QED
  BY <1>1, <1>2

\* No call of subscribe ever stores a subscription, and the tree of stores has
\* two levels: for any overlap of calls, failures and purges.
THEOREM NeverSubscribed == Spec => []NothingSubscribed
<1>1. Init => Typed /\ Rooted
  BY InitTyped, InitRooted DEF Init, Typed, Holds, Holding
<1>2. Typed /\ Rooted /\ [Next]_vars => (Typed /\ Rooted)'
  BY NextTyped, NextRooted
<1>3. Rooted => NothingSubscribed
  BY DEF Rooted
<1> QED
  BY <1>1, <1>2, <1>3, PTL DEF Spec

-----------------------------------------------------------------------------
(* Schedules overlap only if calls of createSchedule did: two of them that    *)
(* are between check and insert are both marked, and what one of them has     *)
(* checked stays true of every row but those of marked calls.                 *)

Overlapped ==
    \A c, d \in Calls :
        c # d /\ Scheduling(c) /\ Scheduling(d) /\ InFlight(c) /\ InFlight(d)
        => c \in crossed /\ d \in crossed

Cleared ==
    \A c \in Calls, s \in schedule :
        pc[c] = "checked" /\ Scheduling(c) /\ s.store = mem[c].id
        => \/ s.close < call[c].open
           \/ s.by \in crossed \/ c \in crossed

Apart == SchedulesDisjoint /\ Overlapped /\ Cleared

\* A step that adds no schedule, in which no call of createSchedule goes on.
LEMMA QuietApart ==
    ASSUME Typed, Apart, schedule' \subseteq schedule, crossed \subseteq crossed',
           call' = call,
           \A d \in Calls : Scheduling(d) =>
              \/ pc'[d] = pc[d] /\ mem'[d].id = mem[d].id
              \/ pc'[d] \in {"done", "refused", "failed"}
    PROVE  Apart'
<1>1. SchedulesDisjoint'
  BY DEF Apart, SchedulesDisjoint
<1>2. Overlapped'
  BY DEF Apart, Overlapped, Scheduling, InFlight
<1>3. Cleared'
  BY DEF Apart, Cleared, Scheduling
<1> QED
  BY <1>1, <1>2, <1>3 DEF Apart

LEMMA CrossesGrows ==
    ASSUME NEW c \in Calls, Crosses(c)
    PROVE  crossed \subseteq crossed'
  BY DEF Crosses

LEMMA ScheduleCheckApart ==
    ASSUME Typed, Apart, NEW c \in Calls, ScheduleCheck(c)
    PROVE  Apart'
<1>1. CASE Refused(c)
  BY <1>1, QuietApart DEF Refused, Ends, tables, aux, Typed, TypeOK
<1>2. CASE ~Refused(c)
  <2> DEFINE m == store[call[c].id].main
  <2>1. /\ Clash(m, call[c].open) = {} /\ Scheduling(c)
        /\ mem' = [mem EXCEPT ![c].id = m]
        /\ pc' = [pc EXCEPT ![c] = "checked"]
        /\ Crosses(c) /\ UNCHANGED <<tables, call>>
    BY <1>2 DEF ScheduleCheck, Scheduling
  <2> HIDE DEF m
  <2>2. crossed \subseteq crossed' /\ schedule' = schedule
    BY <2>1, CrossesGrows DEF tables
  <2>3. SchedulesDisjoint'
    BY <2>2 DEF Apart, SchedulesDisjoint
  <2>4. Overlapped'
    <3> SUFFICES ASSUME NEW d \in Calls, NEW e \in Calls, d # e,
                        Scheduling(d)', Scheduling(e)', InFlight(d)', InFlight(e)'
                 PROVE  d \in crossed' /\ e \in crossed'
      BY DEF Overlapped
    <3>1. Scheduling(d) /\ Scheduling(e)
      BY <2>1 DEF Scheduling
    <3>2. CASE d # c /\ e # c
      BY <3>1, <3>2, <2>1, <2>2 DEF Apart, Overlapped, InFlight, Typed, TypeOK
    <3>3. ASSUME NEW f \in Calls, f # c, Scheduling(f), InFlight(f)'
          PROVE  f \in crossed' /\ c \in crossed'
      <4>1. InFlight(f)
        BY <2>1, <3>3 DEF InFlight, Typed, TypeOK
      <4>2. f \in {g \in Calls \ {c} : /\ InFlight(g)
                                       /\ call[g].kind # "close"
                                       /\ Scheduling(g) <=> Scheduling(c)}
        BY <2>1, <3>3, <4>1 DEF Scheduling
      <4> QED
        BY <2>1, <4>2 DEF Crosses
    <3> QED
      BY <3>1, <3>2, <3>3
  <2>5. Cleared'
    <3> SUFFICES ASSUME NEW d \in Calls, NEW s \in schedule,
                        pc'[d] = "checked", Scheduling(d), s.store = mem'[d].id
                 PROVE  \/ s.close < call[d].open
                        \/ s.by \in crossed' \/ d \in crossed'
      BY <2>1, <2>2 DEF Cleared, Scheduling
    <3>1. CASE d # c
      BY <3>1, <2>1, <2>2 DEF Apart, Cleared, Typed, TypeOK
    <3>2. CASE d = c
      <4>1. s.store = m /\ ~(s.close >= call[c].open)
        BY <3>2, <2>1 DEF Clash, Typed, TypeOK, Mem
      <4>2. s.close \in Int /\ call[c].open \in Int
        BY <2>1, Asked, TimesAssumption DEF Scheduling, Typed, TypeOK
      <4> QED
        BY <3>2, <4>1, <4>2
    <3> QED
      BY <3>1, <3>2
  <2> QED
    BY <2>3, <2>4, <2>5 DEF Apart
<1> QED
  BY <1>1, <1>2

LEMMA ScheduleInsertApart ==
    ASSUME Typed, Apart, NEW c \in Calls, ScheduleInsert(c)
    PROVE  Apart'
<1> DEFINE t == [store |-> mem[c].id, open |-> call[c].open,
                 close |-> call[c].close, by |-> c]
<1>1. /\ schedule' = schedule \cup {t} /\ crossed' = crossed /\ call' = call
      /\ pc[c] = "checked" /\ Scheduling(c)
      /\ \A d \in Calls \ {c} : pc'[d] = pc[d] /\ mem'[d] = mem[d]
      /\ pc'[c] = "done"
  BY DEF ScheduleInsert, Ends, aux, Scheduling, Typed, TypeOK
<1>2. \A s \in schedule : s.store = t.store =>
         s.close < t.open \/ s.by \in crossed \/ t.by \in crossed
  <2>1. t.store = mem[c].id /\ t.open = call[c].open /\ t.by = c
    OBVIOUS
  <2> HIDE DEF t
  <2> TAKE s \in schedule
  <2>2. s.store = mem[c].id => s.close < call[c].open \/ s.by \in crossed \/ c \in crossed
    BY <1>1 DEF Apart, Cleared
  <2> QED
    BY <2>1, <2>2
<1>3. t.open \in Nat /\ \A s \in schedule : s.close \in Nat
  <2>1. t.open = call[c].open
    OBVIOUS
  <2> HIDE DEF t
  <2>2. call[c].open \in Nat
    <3>1. call[c].open \in Times
      BY <1>1, Asked DEF Scheduling, Typed
    <3> QED
      BY <3>1, TimesAssumption
  <2>3. \A s \in schedule : s.close \in Nat
    <3> TAKE s \in schedule
    <3>1. s.close \in Times
      BY DEF Typed, TypeOK
    <3> QED
      BY <3>1, TimesAssumption
  <2> QED
    BY <2>1, <2>2, <2>3
<1>4. t.by = c
  OBVIOUS
<1> HIDE DEF t
<1>5. SchedulesDisjoint'
  <2> SUFFICES ASSUME NEW s \in schedule', NEW u \in schedule', s # u,
                      s.store = u.store, s.open <= u.close, u.open <= s.close
               PROVE  s.by \in crossed \/ u.by \in crossed
    BY <1>1 DEF SchedulesDisjoint
  <2>1. CASE s \in schedule /\ u \in schedule
    BY <2>1 DEF Apart, SchedulesDisjoint
  <2>2. CASE u = t /\ s \in schedule
    BY <2>2, <1>2, <1>3
  <2>3. CASE s = t /\ u \in schedule
    BY <2>3, <1>2, <1>3
  <2> QED
    BY <1>1, <2>1, <2>2, <2>3
<1>6. Overlapped'
  BY <1>1 DEF Apart, Overlapped, Scheduling, InFlight
<1>7. Cleared'
  <2> SUFFICES ASSUME NEW d \in Calls, NEW s \in schedule',
                      pc'[d] = "checked", Scheduling(d), s.store = mem'[d].id
               PROVE  \/ s.close < call[d].open
                      \/ s.by \in crossed \/ d \in crossed
    BY <1>1 DEF Cleared, Scheduling
  <2>1. d # c
    BY <1>1
  <2>2. CASE s \in schedule
    BY <2>1, <2>2, <1>1 DEF Apart, Cleared
  <2>3. CASE s = t
    BY <2>1, <1>1 DEF Apart, Overlapped, InFlight
  <2> QED
    BY <1>1, <2>2, <2>3
<1> QED
  BY <1>5, <1>6, <1>7 DEF Apart

\* The steps of the other calls.
LEMMA OtherApart ==
    ASSUME Typed, Apart, NEW c \in Calls, ~Scheduling(c),
           schedule' \subseteq schedule, crossed \subseteq crossed', call' = call,
           \A d \in Calls \ {c} : pc'[d] = pc[d] /\ mem'[d] = mem[d]
    PROVE  Apart'
<1>1. \A d \in Calls : Scheduling(d) => pc'[d] = pc[d] /\ mem'[d].id = mem[d].id
  OBVIOUS
<1> QED
  BY <1>1, QuietApart

LEMMA NextApart == Typed /\ Apart /\ [Next]_vars => Apart'
<1> SUFFICES ASSUME Typed, Apart, [Next]_vars PROVE Apart'
  OBVIOUS
<1>1. CASE UNCHANGED vars
  BY <1>1, QuietApart DEF vars, tables, aux
<1>2. ASSUME NEW c \in Calls,
             CreateCheck(c) \/ CreateInsert(c) \/ CreateCommit(c)
      PROVE  Apart'
  BY <1>2, CrossesGrows, OtherApart
     DEF CreateCheck, CreateInsert, CreateCommit, Refused, Ends, Scheduling,
         tables, aux, Typed, TypeOK
<1>3. ASSUME NEW c \in Calls, BranchRead(c) \/ BranchCommit(c)
      PROVE  Apart'
  BY <1>3, CrossesGrows, OtherApart
     DEF BranchRead, BranchCommit, Refused, Ends, Scheduling, tables, aux, Typed, TypeOK
<1>4. ASSUME NEW c \in Calls,
             UpdateCheck(c) \/ UpdateRow(c) \/ UpdateRead(c) \/ UpdateSpread(c)
      PROVE  Apart'
  BY <1>4, CrossesGrows, OtherApart
     DEF UpdateCheck, UpdateRow, UpdateRead, UpdateSpread, Refused, Ends,
         Scheduling, tables, aux, Typed, TypeOK
<1>5. ASSUME NEW c \in Calls, DeleteStore(c) \/ DeleteBranch(c)
      PROVE  Apart'
  BY <1>5, OtherApart
     DEF DeleteStore, DeleteBranch, Refused, Ends, Scheduling, tables, aux, Typed, TypeOK
<1>6. ASSUME NEW c \in Calls, Purge(c) PROVE Apart'
  <2>1. /\ schedule' \subseteq schedule /\ crossed' = crossed /\ call' = call
        /\ Ends(c, "refused") \/ Ends(c, "done")
    BY <1>6 DEF Purge, Refused, tables, aux
  <2> QED
    BY <1>6, <2>1, OtherApart DEF Purge, Ends, Scheduling, Typed, TypeOK
<1>7. ASSUME NEW c \in Calls, Unschedule(c) \/ CloseEnd(c) \/ FailCall(c)
      PROVE  Apart'
  <2>1. /\ schedule' \subseteq schedule /\ crossed' = crossed /\ call' = call
        /\ \E end \in {"done", "refused", "failed"} : Ends(c, end)
    BY <1>7 DEF Unschedule, CloseEnd, FailCall, Refused, tables, aux
  <2> QED
    BY <2>1, QuietApart DEF Ends, Typed, TypeOK
<1>8. ASSUME NEW c \in Calls, SubscribeRead(c) \/ SubscribeCommit(c)
      PROVE  Apart'
  BY <1>8, OtherApart
     DEF SubscribeRead, SubscribeCommit, Refused, Ends, Scheduling, tables, aux,
         Typed, TypeOK
<1>9. ASSUME NEW c \in Calls, CloseRead(c) \/ CloseWrite(c)
      PROVE  Apart'
  BY <1>9, OtherApart
     DEF CloseRead, CloseWrite, Scheduling, tables, aux, Typed, TypeOK
<1> QED
  BY <1>1, <1>2, <1>3, <1>4, <1>5, <1>6, <1>7, <1>8, <1>9, ScheduleCheckApart,
     ScheduleInsertApart DEF Next

\* Two rows of one store overlap only if the calls that inserted them did.
THEOREM SchedulesStayDisjoint == Spec => []SchedulesDisjoint
<1>1. Init => Typed /\ Apart
  BY InitTyped DEF Init, Typed, Holds, Holding, Apart, SchedulesDisjoint,
                   Overlapped, Cleared, InFlight
<1>2. Typed /\ Apart /\ [Next]_vars => (Typed /\ Apart)'
  BY NextTyped, NextApart
<1>3. Apart => SchedulesDisjoint
  BY DEF Apart
<1> QED
  BY <1>1, <1>2, <1>3, PTL DEF Spec

-----------------------------------------------------------------------------
(* What families share.  Two calls that create, branch or update and are under *)
(* way together are both marked, so that what an unmarked one has read or      *)
(* checked holds until it writes; everything else only takes rows away.        *)

Writer(c) == call[c].kind \in {"create", "branch", "update"}

Met ==
    \A c, d \in Calls :
        c # d /\ Writer(c) /\ Writer(d) /\ InFlight(c) /\ InFlight(d)
        => c \in crossed /\ d \in crossed

\* The ids of main stores that are inserted and not committed.
Reserved ==
    \A c \in Calls :
        pc[c] = "inserted" =>
            /\ ~Present(mem[c].id)
            /\ \A d \in Calls \ {c} : pc[d] = "inserted" => mem[d].id # mem[c].id

\* A branch is there, newer than its main store, and of its family.
Tree ==
    \A i \in Ids :
        LET m == store[i].main IN
        m # 0 => Present(i) /\ m < i /\ store[i].kin = m /\ store[m].kin = m

\* Another family has the name, from a check that missed nothing.
Taken(name, kin) ==
    \E j \in Ids : /\ Live(j) /\ j \notin repeated
                   /\ store[j].name = name /\ store[j].kin # kin

\* What a call that is about to write relies on.
Kept(c) ==
    LET m == mem[c].id
        row == mem[c].row
        body == call[c]
    IN  /\ body.kind = "branch" /\ pc[c] = "read" /\ Present(m) =>
              /\ store[m].kin = m
              /\ c \notin crossed => store[m].name = row.name /\ store[m].status = row.status
        /\ body.kind = "create" /\ pc[c] \in {"checked", "inserted"} /\ c \notin crossed =>
              \A j \in Ids : Live(j) /\ store[j].name = body.name => j \in repeated
        /\ /\ body.kind = "update" /\ pc[c] = "checked" /\ c \notin crossed
           /\ body.name # Unset /\ Present(body.id) /\ body.id \notin repeated
           => ~Taken(body.name, store[body.id].kin)
        /\ /\ body.kind = "update" /\ pc[c] = "read" /\ c \notin crossed
           /\ row.state = "live" /\ body.id \notin repeated
           => ~Taken(row.name, row.kin)

Shared == StatusAgrees /\ NamesApart /\ Tree /\ \A c \in Calls : Kept(c)

Backed == Met /\ Reserved /\ Shared

Others(c) == call' = call /\ \A d \in Calls \ {c} : pc'[d] = pc[d] /\ mem'[d] = mem[d]

\* A row is taken away, or loses at most its main store or its being live.
Faded(i) ==
    \/ ~Present(i)' /\ store'[i].main = 0
    \/ /\ store'[i].name = store[i].name /\ store'[i].status = store[i].status
       /\ store'[i].kin = store[i].kin
       /\ store'[i].main \in {store[i].main, 0}
       /\ Live(i)' => Live(i)
       /\ Present(i)' <=> Present(i)

Fading(c) ==
    /\ Others(c)
    /\ crossed \subseteq crossed' /\ repeated \subseteq repeated'
    /\ apart \subseteq apart'
    /\ \A i \in Ids : Faded(i)

\* A call that is not under way for the first time at this step.
LEMMA MetKept ==
    ASSUME Met, call' = call, crossed \subseteq crossed',
           \A d \in Calls : Writer(d) /\ InFlight(d)' => InFlight(d)
    PROVE  Met'
  BY DEF Met, Writer

LEMMA MetBegins ==
    ASSUME Met, Typed, NEW c \in Calls, Writer(c), Crosses(c), call' = call,
           \A d \in Calls \ {c} : pc'[d] = pc[d]
    PROVE  Met'
<1>1. \A d \in Calls \ {c} : InFlight(d)' <=> InFlight(d)
  BY DEF InFlight
<1>2. ASSUME NEW d \in Calls, d # c, Writer(d), InFlight(d)
      PROVE  d \in crossed' /\ c \in crossed'
  <2>1. d \in {e \in Calls \ {c} : /\ InFlight(e)
                                   /\ call[e].kind # "close"
                                   /\ Scheduling(e) <=> Scheduling(c)}
    BY <1>2 DEF Writer, Scheduling
  <2> QED
    BY <2>1 DEF Crosses
<1> QED
  BY <1>1, <1>2, CrossesGrows DEF Met, Writer

LEMMA NextMet == Typed /\ Met /\ [Next]_vars => Met'
<1> SUFFICES ASSUME Typed, Met, [Next]_vars PROVE Met'
  OBVIOUS
<1>1. CASE UNCHANGED vars
  BY <1>1 DEF vars, Met, Writer, InFlight, aux
<1>2. ASSUME NEW c \in Calls, Refused(c) PROVE Met'
  BY <1>2, MetKept DEF Refused, Ends, InFlight, tables, aux, Typed, TypeOK
<1>3. ASSUME NEW c \in Calls, CreateCheck(c) \/ BranchRead(c) \/ UpdateCheck(c)
      PROVE  Met'
  <2>1. CASE Refused(c)
    BY <2>1, <1>2
  <2>2. CASE ~Refused(c)
    <3>1. Crosses(c) /\ call' = call /\ \E p \in PCs : pc' = [pc EXCEPT ![c] = p]
      BY <1>3, <2>2, "checked" \in PCs, "read" \in PCs
         DEF CreateCheck, BranchRead, UpdateCheck, tables, PCs
    <3>2. Writer(c)
      BY <1>3 DEF CreateCheck, BranchRead, UpdateCheck, Writer
    <3> QED
      BY <3>1, <3>2, MetBegins DEF Typed, TypeOK
  <2> QED
    BY <2>1, <2>2
<1>4. ASSUME NEW c \in Calls, ScheduleCheck(c) PROVE Met'
  <2>1. ~Writer(c) /\ (Crosses(c) \/ crossed' = crossed) /\ call' = call
        /\ \A d \in Calls \ {c} : pc'[d] = pc[d]
    BY <1>4 DEF ScheduleCheck, Writer, Refused, Ends, tables, aux, Typed, TypeOK
  <2> QED
    BY <2>1, CrossesGrows, MetKept DEF InFlight, Writer
<1>5. ASSUME NEW c \in Calls,
             CreateInsert(c) \/ CreateCommit(c) \/ BranchCommit(c)
      PROVE  Met'
  BY <1>5, MetKept
     DEF CreateInsert, CreateCommit, BranchCommit, Ends, InFlight, aux, Typed, TypeOK
<1>6. ASSUME NEW c \in Calls, UpdateRow(c) \/ UpdateRead(c) \/ UpdateSpread(c)
      PROVE  Met'
  BY <1>6, MetKept
     DEF UpdateRow, UpdateRead, UpdateSpread, Ends, InFlight, aux, Typed, TypeOK
<1>7. ASSUME NEW c \in Calls, SubscribeRead(c) \/ CloseRead(c) \/ CloseWrite(c)
      PROVE  Met'
  BY <1>7, <1>2, MetKept
     DEF SubscribeRead, CloseRead, CloseWrite, Writer, InFlight, aux, Typed, TypeOK
<1>8. ASSUME NEW c \in Calls,
             \/ DeleteStore(c) \/ DeleteBranch(c) \/ Purge(c)
             \/ ScheduleInsert(c) \/ Unschedule(c) \/ SubscribeCommit(c)
             \/ CloseEnd(c) \/ FailCall(c)
      PROVE  Met'
  <2>1. /\ crossed' = crossed /\ call' = call
        /\ \E end \in {"done", "refused", "failed"} : Ends(c, end)
    BY <1>8 DEF DeleteStore, DeleteBranch, Purge, ScheduleInsert, Unschedule,
                SubscribeCommit, CloseEnd, FailCall, Refused, tables, aux
  <2> QED
    BY <2>1, MetKept DEF Ends, InFlight, Typed, TypeOK
<1> QED
  BY <1>1, <1>3, <1>4, <1>5, <1>6, <1>7, <1>8 DEF Next

\* The steps after which a call of its kind relies on nothing it has read.
LEMMA FadingSteps ==
    ASSUME Typed, Rooted, NEW c \in Calls,
           \/ Refused(c) \/ DeleteStore(c) \/ DeleteBranch(c) \/ Purge(c)
           \/ ScheduleCheck(c) \/ ScheduleInsert(c) \/ Unschedule(c)
           \/ SubscribeRead(c) \/ SubscribeCommit(c)
           \/ CloseRead(c) \/ CloseWrite(c) \/ CloseEnd(c) \/ FailCall(c)
    PROVE  /\ Fading(c)
           /\ pc'[c] # "inserted"
           /\ ~Writer(c) \/ pc'[c] \in {"done", "refused", "failed"}
<1> DEFINE Calm == ~Writer(c) \/ pc'[c] \in {"done", "refused", "failed"}
<1>1. ASSUME NEW end \in {"done", "refused", "failed"}, Ends(c, end), call' = call
      PROVE  Others(c) /\ pc'[c] # "inserted" /\ Calm
  BY <1>1 DEF Ends, Others, Typed, TypeOK
<1>2. CASE Refused(c) \/ CloseEnd(c) \/ FailCall(c)
  BY <1>1, <1>2 DEF Refused, CloseEnd, FailCall, Fading, Faded, tables, aux, Live, Present
<1>3. CASE ~Refused(c) /\ (DeleteStore(c) \/ DeleteBranch(c))
  <2>1. PICK i \in Ids : store' = [store EXCEPT ![i].state = "deleted"] /\ Present(i)
    BY <1>3, Asked DEF DeleteStore, DeleteBranch, Typed
  <2>2. \A j \in Ids : Faded(j)
    BY <2>1 DEF Faded, Live, Present, Typed, TypeOK, Row
  <2> QED
    BY <1>1, <1>3, <2>2 DEF DeleteStore, DeleteBranch, Fading, aux
<1>4. CASE ~Refused(c) /\ Purge(c)
  <2>1. PICK old \in SUBSET Ids :
           store' = [i \in Ids |->
                       IF i \in old THEN NoRow
                       ELSE IF store[i].main \in old
                            THEN [store[i] EXCEPT !.main = 0]
                       ELSE store[i]]
    BY <1>4 DEF Purge
  <2>2. \A j \in Ids : Faded(j)
    <3> TAKE j \in Ids
    <3>1. CASE j \in old
      BY <2>1, <3>1 DEF Faded, NoRow, Present
    <3>2. CASE j \notin old
      BY <2>1, <3>2 DEF Faded, Live, Present, Typed, TypeOK, Row
    <3> QED
      BY <3>1, <3>2
  <2> QED
    BY <1>1, <1>4, <2>2 DEF Purge, Fading, aux
<1>5. CASE ~Refused(c) /\ ScheduleCheck(c)
  <2>1. /\ Crosses(c) /\ call' = call /\ store' = store /\ call[c].kind = "schedule"
        /\ repeated' = repeated /\ apart' = apart
        /\ pc' = [pc EXCEPT ![c] = "checked"]
        /\ \A d \in Calls \ {c} : mem'[d] = mem[d]
    BY <1>5 DEF ScheduleCheck, tables, Typed, TypeOK
  <2> QED
    BY <2>1, CrossesGrows DEF Fading, Faded, Others, Live, Present, Writer, Typed, TypeOK
<1>6. CASE ~Refused(c) /\ (ScheduleInsert(c) \/ Unschedule(c))
  BY <1>1, <1>6 DEF ScheduleInsert, Unschedule, Fading, Faded, Live, Present, aux
<1>7. CASE ~Refused(c) /\ (SubscribeRead(c) \/ CloseRead(c))
  BY <1>7 DEF SubscribeRead, CloseRead, Writer, Fading, Faded, Others, Live, Present,
              tables, aux, Typed, TypeOK
<1>8. CASE ~Refused(c) /\ SubscribeCommit(c)
  <2>1. \A j \in Ids : Faded(j)
    BY <1>8 DEF SubscribeCommit, Faded, Live, Present, Typed, TypeOK, Row
  <2> QED
    BY <1>1, <1>8, <2>1 DEF SubscribeCommit, Fading, aux
<1>9. CASE CloseWrite(c)
  <2>1. \A j \in Ids : Faded(j)
    BY <1>9 DEF CloseWrite, Faded, Live, Present, Typed, TypeOK, Row
  <2>2. Others(c) /\ pc' = pc /\ ~Writer(c)
    BY <1>9 DEF CloseWrite, Others, Writer, Typed, TypeOK
  <2> QED
    BY <1>9, <2>1, <2>2 DEF CloseWrite, Fading
<1> QED
  BY <1>2, <1>3, <1>4, <1>5, <1>6, <1>7, <1>8, <1>9

\* So do the reads of those that write.
LEMMA ReadingSteps ==
    ASSUME Typed, NEW c \in Calls, ~Refused(c),
           \/ CreateCheck(c) \/ CreateInsert(c) \/ BranchRead(c)
           \/ UpdateCheck(c) \/ UpdateRead(c)
    PROVE  Fading(c)
<1>1. store' = store /\ repeated \subseteq repeated' /\ apart' = apart
  BY DEF CreateCheck, CreateInsert, BranchRead, UpdateCheck, UpdateRead, tables, aux
<1>2. crossed \subseteq crossed'
  BY CrossesGrows DEF CreateCheck, CreateInsert, BranchRead, UpdateCheck, UpdateRead, aux
<1>3. Others(c)
  BY DEF CreateCheck, CreateInsert, BranchRead, UpdateCheck, UpdateRead, Others,
         Typed, TypeOK
<1> QED
  BY <1>1, <1>2, <1>3 DEF Fading, Faded, Live, Present

\* What the two statements of updateStore write.
LEMMA UpdateRowSteps ==
    ASSUME Typed, NEW c \in Calls, UpdateRow(c)
    PROVE  /\ Others(c) /\ pc'[c] = "written"
           /\ call[c].id \in Ids
           /\ \A j \in Ids :
                 /\ store'[j].state = store[j].state /\ store'[j].main = store[j].main
                 /\ store'[j].kin = store[j].kin /\ store'[j].status = store[j].status
                 /\ store'[j].name = IF j = call[c].id /\ call[c].name # Unset
                                     THEN call[c].name ELSE store[j].name
<1>1. call[c] \in Update
  BY Asked DEF UpdateRow, Typed
<1>2. \A j \in Ids : store[j] \in Row
  BY DEF Typed, TypeOK
<1>3. ASSUME NEW j \in Ids, j # call[c].id PROVE store'[j] = store[j]
  BY <1>3 DEF UpdateRow, Added
<1>4. store'[call[c].id] = Edited(store[call[c].id], call[c]) /\ call[c].id \in Ids
  BY <1>1 DEF UpdateRow, Added, Update
<1>5. Others(c) /\ pc'[c] = "written"
  BY DEF UpdateRow, Others, Typed, TypeOK
<1>6. ASSUME NEW row \in Row
      PROVE  LET new == Edited(row, call[c]) IN
             /\ new.state = row.state /\ new.main = row.main
             /\ new.kin = row.kin /\ new.status = row.status
             /\ new.name = IF call[c].name # Unset THEN call[c].name ELSE row.name
  BY DEF Edited, Row
<1>7. LET i == call[c].id IN
      /\ store'[i].state = store[i].state /\ store'[i].main = store[i].main
      /\ store'[i].kin = store[i].kin /\ store'[i].status = store[i].status
      /\ store'[i].name = IF call[c].name # Unset THEN call[c].name ELSE store[i].name
  BY <1>2, <1>4, <1>6
<1> QED
  BY <1>3, <1>4, <1>5, <1>7

LEMMA UpdateSpreadSteps ==
    ASSUME Typed, NEW c \in Calls, UpdateSpread(c)
    PROVE  /\ Others(c) /\ pc'[c] = "done"
           /\ call[c] \in Update
           /\ \A j \in Ids :
                 /\ store'[j].state = store[j].state /\ store'[j].main = store[j].main
                 /\ store'[j].kin = store[j].kin
                 /\ IF j \in Targets(call[c].id, mem[c].row.main)
                    THEN /\ store'[j].name = mem[c].row.name
                         /\ store'[j].status = IF call[c].status = Unset
                                               THEN store[j].status ELSE call[c].status
                    ELSE store'[j].name = store[j].name /\ store'[j].status = store[j].status
<1>1. call[c] \in Update
  BY Asked DEF UpdateSpread, Typed
<1>2. \A j \in Ids : store[j] \in Row
  BY DEF Typed, TypeOK
<1>3. \A j \in Ids :
         store'[j] = IF j \in Targets(call[c].id, mem[c].row.main)
                     THEN Copied(store[j], mem[c].row, call[c].status) ELSE store[j]
  BY DEF UpdateSpread
<1>4. Others(c) /\ pc'[c] = "done"
  BY DEF UpdateSpread, Ends, Others, Typed, TypeOK
<1>5. ASSUME NEW row \in Row
      PROVE  LET new == Copied(row, mem[c].row, call[c].status) IN
             /\ new.state = row.state /\ new.main = row.main /\ new.kin = row.kin
             /\ new.name = mem[c].row.name
             /\ new.status = IF call[c].status = Unset THEN row.status ELSE call[c].status
  BY DEF Copied, Row
<1>6. ASSUME NEW j \in Ids
      PROVE  /\ store'[j].state = store[j].state /\ store'[j].main = store[j].main
             /\ store'[j].kin = store[j].kin
             /\ IF j \in Targets(call[c].id, mem[c].row.main)
                THEN /\ store'[j].name = mem[c].row.name
                     /\ store'[j].status = IF call[c].status = Unset
                                           THEN store[j].status ELSE call[c].status
                ELSE store'[j].name = store[j].name /\ store'[j].status = store[j].status
  <2>1. CASE j \in Targets(call[c].id, mem[c].row.main)
    <3>1. store'[j] = Copied(store[j], mem[c].row, call[c].status) /\ store[j] \in Row
      BY <1>2, <1>3, <2>1
    <3> QED
      BY <1>5, <2>1, <3>1
  <2>2. CASE j \notin Targets(call[c].id, mem[c].row.main)
    BY <1>3, <2>2
  <2> QED
    BY <2>1, <2>2
<1> QED
  BY <1>1, <1>4, <1>6

-----------------------------------------------------------------------------
(* The id a call holds for its main store is nobody else's.                *)

LEMMA ReservedKept ==
    ASSUME Typed, Reserved, NEW c \in Calls, Others(c), pc'[c] # "inserted",
           \A i \in Ids : Present(i)' => Present(i)
    PROVE  Reserved'
<1> SUFFICES ASSUME NEW d \in Calls, pc'[d] = "inserted"
             PROVE  /\ ~Present(mem[d].id)'
                    /\ \A e \in Calls \ {d} : pc'[e] = "inserted" => mem'[e].id # mem[d].id
                    /\ mem'[d] = mem[d]
  BY DEF Reserved, Present
<1>1. d # c /\ pc[d] = "inserted" /\ mem'[d] = mem[d]
  BY DEF Others
<1>2. mem[d].id \in Ids
  BY <1>1 DEF Typed, Holds, Holding
<1> QED
  BY <1>1, <1>2 DEF Reserved, Others, Present

\* New rows do not have the id another call holds.
LEMMA ReservedRows ==
    ASSUME Typed, Rooted, Reserved, NEW c \in Calls, Others(c),
           pc'[c] # "inserted",
           \A i \in Ids : Present(i)' => \/ Present(i)
                                         \/ i = lastId + 1
                                         \/ pc[c] = "inserted" /\ i = mem[c].id
    PROVE  Reserved'
<1> SUFFICES ASSUME NEW d \in Calls, pc'[d] = "inserted"
             PROVE  /\ ~Present(mem[d].id)'
                    /\ \A e \in Calls \ {d} : pc'[e] = "inserted" => mem'[e].id # mem[d].id
                    /\ mem'[d] = mem[d]
  BY DEF Reserved, Present
<1>1. d # c /\ pc[d] = "inserted" /\ mem'[d] = mem[d]
  BY DEF Others
<1>2. mem[d].id \in Ids /\ mem[d].id <= lastId
  BY <1>1 DEF Typed, Holds, Holding, Rooted, Sound
<1>3. mem[d].id # lastId + 1
  BY <1>2, IdsAssumption DEF Typed, TypeOK
<1> QED
  BY <1>1, <1>2, <1>3 DEF Reserved, Others, Present

LEMMA NextReserved == Typed /\ Rooted /\ Reserved /\ [Next]_vars => Reserved'
<1> SUFFICES ASSUME Typed, Rooted, Reserved, [Next]_vars PROVE Reserved'
  OBVIOUS
<1>1. CASE UNCHANGED vars
  BY <1>1 DEF vars, tables, Reserved, Present
<1>2. ASSUME NEW c \in Calls,
             \/ Refused(c) \/ DeleteStore(c) \/ DeleteBranch(c) \/ Purge(c)
             \/ ScheduleCheck(c) \/ ScheduleInsert(c) \/ Unschedule(c)
             \/ SubscribeRead(c) \/ SubscribeCommit(c)
             \/ CloseRead(c) \/ CloseWrite(c) \/ CloseEnd(c) \/ FailCall(c)
      PROVE  Reserved'
  <2>1. Fading(c) /\ pc'[c] # "inserted"
    BY <1>2, FadingSteps
  <2>2. \A i \in Ids : Present(i)' => Present(i)
    BY <2>1 DEF Fading, Faded
  <2> QED
    BY <2>1, <2>2, ReservedKept DEF Fading
<1>3. ASSUME NEW c \in Calls,
             CreateCheck(c) \/ BranchRead(c) \/ UpdateCheck(c) \/ UpdateRead(c)
      PROVE  Reserved'
  <2>1. CASE Refused(c)
    BY <2>1, <1>2
  <2>2. CASE ~Refused(c)
    <3>1. Fading(c)
      BY <1>3, <2>2, ReadingSteps
    <3>2. pc'[c] # "inserted" /\ store' = store
      BY <1>3, <2>2 DEF CreateCheck, BranchRead, UpdateCheck, UpdateRead, tables,
                        Typed, TypeOK
    <3> QED
      BY <3>1, <3>2, ReservedKept DEF Fading, Present
  <2> QED
    BY <2>1, <2>2
<1>4. ASSUME NEW c \in Calls, CreateInsert(c) PROVE Reserved'
  <2>1. /\ mem' = [mem EXCEPT ![c].id = lastId + 1] /\ store' = store
        /\ \A d \in Calls \ {c} : pc'[d] = pc[d] /\ mem'[d] = mem[d]
        /\ lastId + 1 \in Ids
    BY <1>4 DEF CreateInsert, Typed, TypeOK
  <2>2. mem'[c].id = lastId + 1
    BY <2>1 DEF Typed, TypeOK, Mem
  <2>3. ~Present(lastId + 1)
    BY <2>1, IdsAssumption DEF Rooted, Counted, Typed, TypeOK
  <2>4. ASSUME NEW d \in Calls, pc[d] = "inserted"
        PROVE  mem[d].id # lastId + 1
    <3>1. mem[d].id \in Ids /\ mem[d].id <= lastId
      BY <2>4 DEF Typed, Holds, Holding, Rooted, Sound
    <3> QED
      BY <3>1, IdsAssumption DEF Typed, TypeOK
  <2> QED
    BY <2>1, <2>2, <2>3, <2>4 DEF Reserved, Present
<1>5. ASSUME NEW c \in Calls, CreateCommit(c) PROVE Reserved'
  <2>1. Others(c) /\ pc'[c] # "inserted" /\ pc[c] = "inserted"
    BY <1>5 DEF CreateCommit, Ends, Others, Typed, TypeOK
  <2>2. \A i \in Ids \ {mem[c].id, lastId + 1} : store'[i] = store[i]
    BY <1>5 DEF CreateCommit
  <2> QED
    BY <2>1, <2>2, ReservedRows DEF Present
<1>6. ASSUME NEW c \in Calls, BranchCommit(c) PROVE Reserved'
  <2>1. Others(c) /\ pc'[c] # "inserted"
    BY <1>6 DEF BranchCommit, Ends, Others, Typed, TypeOK
  <2>2. \A i \in Ids \ {lastId + 1} : store'[i] = store[i]
    BY <1>6 DEF BranchCommit, Added
  <2> QED
    BY <2>1, <2>2, ReservedRows DEF Present
<1>7. ASSUME NEW c \in Calls, UpdateRow(c) \/ UpdateSpread(c) PROVE Reserved'
  <2>1. Others(c) /\ pc'[c] # "inserted"
    BY <1>7, UpdateRowSteps, UpdateSpreadSteps
  <2>2. \A i \in Ids : store'[i].state = store[i].state
    BY <1>7, UpdateRowSteps, UpdateSpreadSteps
  <2> QED
    BY <2>1, <2>2, ReservedKept DEF Present
<1> QED
  BY <1>1, <1>2, <1>3, <1>4, <1>5, <1>6, <1>7 DEF Next

-----------------------------------------------------------------------------
(* Families keep what they share.                                          *)

\* A call that ends relies on nothing.
LEMMA EndedKept ==
    ASSUME NEW c \in Calls, ~Writer(c) \/ pc[c] \notin {"checked", "inserted", "read"}
    PROVE  Kept(c)
  BY DEF Kept, Writer

\* What another call relies on stays when rows are only taken away.
LEMMA FadedKept ==
    ASSUME Typed, NEW c \in Calls, NEW d \in Calls \ {c}, Fading(c), Kept(d)
    PROVE  Kept(d)'
<1> DEFINE Retaken(name, kin) ==
             \E j \in Ids : /\ store'[j].state = "live" /\ j \notin repeated'
                            /\ store'[j].name = name /\ store'[j].kin # kin
<1>1. call' = call /\ pc'[d] = pc[d] /\ mem'[d] = mem[d]
  BY DEF Fading, Others
<1>2. ASSUME NEW i \in Ids, Present(i)'
      PROVE  /\ Present(i) /\ store'[i].name = store[i].name
             /\ store'[i].status = store[i].status /\ store'[i].kin = store[i].kin
  BY <1>2 DEF Fading, Faded
<1>3. ASSUME NEW i \in Ids, Live(i)'
      PROVE  Live(i) /\ Present(i)'
  BY <1>3 DEF Fading, Faded, Live, Present
<1>4. ASSUME call[d].kind = "branch", pc[d] = "read", store'[mem[d].id].state # "none"
      PROVE  /\ store'[mem[d].id].kin = mem[d].id
             /\ d \notin crossed' => /\ store'[mem[d].id].name = mem[d].row.name
                                     /\ store'[mem[d].id].status = mem[d].row.status
  <2>1. mem[d].id \in Ids
    BY <1>4 DEF Typed, Holds, Holding
  <2> QED
    BY <1>2, <1>4, <2>1 DEF Kept, Fading, Present
<1>5. ASSUME call[d].kind = "create", pc[d] \in {"checked", "inserted"}, d \notin crossed',
             NEW j \in Ids, Live(j)', store'[j].name = call[d].name
      PROVE  j \in repeated'
  BY <1>2, <1>3, <1>5 DEF Kept, Fading
<1>6. ASSUME NEW name, NEW kin, Retaken(name, kin)
      PROVE  Taken(name, kin)
  BY <1>2, <1>3, <1>6 DEF Taken, Fading, Live
<1>7. ASSUME call[d].kind = "update", pc[d] = "checked", d \notin crossed',
             call[d].name # Unset, store'[call[d].id].state # "none",
             call[d].id \notin repeated', Retaken(call[d].name, store'[call[d].id].kin)
      PROVE  FALSE
  <2>1. call[d].id \in Ids
    BY <1>7, Asked DEF Typed, Update
  <2>2. /\ Present(call[d].id) /\ store'[call[d].id].kin = store[call[d].id].kin
        /\ d \notin crossed /\ call[d].id \notin repeated
    BY <1>2, <1>7, <2>1 DEF Fading, Present
  <2>3. Taken(call[d].name, store'[call[d].id].kin)
    BY <1>6, <1>7
  <2> QED
    BY <1>7, <2>2, <2>3 DEF Kept
<1>8. ASSUME call[d].kind = "update", pc[d] = "read", d \notin crossed',
             mem[d].row.state = "live", call[d].id \notin repeated',
             Retaken(mem[d].row.name, mem[d].row.kin)
      PROVE  FALSE
  <2>1. Taken(mem[d].row.name, mem[d].row.kin)
    BY <1>6, <1>8
  <2> QED
    BY <1>8, <2>1 DEF Kept, Fading
<1> QED
  BY <1>1, <1>4, <1>5, <1>7, <1>8 DEF Kept, Present, Live, Taken

LEMMA QuietShared ==
    ASSUME Typed, Rooted', Shared, NEW c \in Calls, Fading(c), Kept(c)'
    PROVE  Shared'
<1>1. ASSUME NEW i \in Ids, Present(i)'
      PROVE  /\ Present(i) /\ store'[i].name = store[i].name
             /\ store'[i].status = store[i].status /\ store'[i].kin = store[i].kin
             /\ store'[i].main \in {store[i].main, 0}
  BY <1>1 DEF Fading, Faded
<1>2. ASSUME NEW i \in Ids, store'[i].main # 0
      PROVE  /\ store'[i].main = store[i].main
             /\ Present(i)' <=> Present(i)
             /\ store'[i].kin = store[i].kin
             /\ store[i].main \in Ids /\ Present(store[i].main)'
  <2>1. /\ store'[i].main = store[i].main
        /\ Present(i)' <=> Present(i)
        /\ store'[i].kin = store[i].kin
    BY <1>2 DEF Fading, Faded
  <2>2. store[i].main \in Ids
    BY <1>2, <2>1 DEF Typed, TypeOK, Row
  <2> QED
    BY <1>2, <2>1, <2>2 DEF Rooted, NothingSubscribed, Present
<1>3. StatusAgrees'
  BY <1>1, <1>2 DEF StatusAgrees, Shared, Fading, Present
<1>4. NamesApart'
  <2> SUFFICES ASSUME NEW i \in Ids, NEW j \in Ids, Live(i)', Live(j)',
                      store'[i].kin # store'[j].kin, store'[i].name = store'[j].name
               PROVE  {i, j} \cap repeated' # {}
    BY DEF NamesApart, Live
  <2>1. Live(i) /\ Live(j) /\ Present(i)' /\ Present(j)'
    BY DEF Fading, Faded, Live, Present
  <2> QED
    BY <1>1, <2>1 DEF NamesApart, Shared, Fading
<1>5. Tree'
  BY <1>1, <1>2 DEF Tree, Shared, Present
<1>6. \A d \in Calls : Kept(d)'
  BY FadedKept DEF Shared
<1> QED
  BY <1>3, <1>4, <1>5, <1>6 DEF Shared

\* The calls under way while another one writes are marked, and rely on no more
\* than the family of the row whose id they hold.
LEMMA OthersKept ==
    ASSUME Typed, Rooted, Met, Shared, NEW c \in Calls, Writer(c), InFlight(c), Others(c),
           crossed' = crossed,
           \A i \in Ids \ {lastId + 1} :
              store'[i].state # "none" => \/ Present(i) /\ store'[i].kin = store[i].kin
                                          \/ store'[i].kin = i,
           NEW d \in Calls \ {c}
    PROVE  Kept(d)'
<1>1. call' = call /\ pc'[d] = pc[d] /\ mem'[d] = mem[d]
  BY DEF Others
<1>2. CASE ~Writer(d) \/ pc[d] \notin {"checked", "inserted", "read"}
  BY <1>1, <1>2 DEF Kept, Writer
<1>3. CASE Writer(d) /\ pc[d] \in {"checked", "inserted", "read"}
  <2>1. d \in crossed'
    BY <1>3 DEF Met, InFlight
  <2>2. ASSUME call[d].kind = "branch", pc[d] = "read", store'[mem[d].id].state # "none"
        PROVE  store'[mem[d].id].kin = mem[d].id
    <3>1. mem[d].id \in Ids /\ mem[d].id <= lastId
      BY <2>2 DEF Typed, Holds, Holding, Rooted, Sound
    <3>2. mem[d].id # lastId + 1
      BY <3>1, IdsAssumption DEF Typed, TypeOK
    <3> QED
      BY <2>2, <3>1, <3>2 DEF Kept, Shared
  <2> QED
    BY <1>1, <2>1, <2>2 DEF Kept, Present
<1> QED
  BY <1>2, <1>3

LEMMA ReadKept ==
    ASSUME Typed, Rooted, Shared, NEW c \in Calls, ~Refused(c),
           \/ CreateCheck(c) \/ CreateInsert(c) \/ BranchRead(c)
           \/ UpdateCheck(c) \/ UpdateRead(c)
    PROVE  Kept(c)'
<1>1. CASE CreateCheck(c)
  <2>1. /\ call' = call /\ store' = store /\ call[c].kind = "create"
        /\ Named(call[c].name) = {}
    BY <1>1 DEF CreateCheck, tables
  <2> QED
    BY <2>1 DEF Kept, Named, Live
<1>2. CASE CreateInsert(c)
  <2>1. /\ call' = call /\ store' = store /\ call[c].kind = "create" /\ pc[c] = "checked"
        /\ repeated' = repeated /\ crossed' = crossed
    BY <1>2 DEF CreateInsert, aux
  <2> QED
    BY <2>1 DEF Kept, Live, Shared
<1>3. CASE BranchRead(c)
  <2>1. /\ call' = call /\ store' = store /\ call[c].kind = "branch"
        /\ call[c].id \in Ids /\ store[call[c].id].main # 0
    BY <1>3, Asked DEF BranchRead, tables, Typed
  <2>2. LET m == store[call[c].id].main IN
        mem' = [mem EXCEPT ![c] = [@ EXCEPT !.id = m, !.row = store[m]]]
    BY <1>3 DEF BranchRead
  <2>3. /\ mem'[c].id = store[call[c].id].main
        /\ mem'[c].row = store[store[call[c].id].main]
    BY <2>2 DEF Typed, TypeOK, Mem
  <2> QED
    BY <2>1, <2>3 DEF Kept, Shared, Tree, Present
<1>4. CASE UpdateCheck(c)
  <2>1. /\ call' = call /\ store' = store /\ call[c].kind = "update"
        /\ pc' = [pc EXCEPT ![c] = "checked"] /\ call[c].id \in Ids
    BY <1>4, Asked DEF UpdateCheck, tables, Typed, Update
  <2>2. pc'[c] = "checked"
    BY <2>1 DEF Typed, TypeOK
  <2>3. ASSUME call[c].name # Unset, call[c].id \notin repeated',
               NEW k \in Named(call[c].name)
        PROVE  store[k].kin = store[call[c].id].kin
    <3>1. /\ Named(call[c].name) \cap repeated = {} /\ ~Foreign(c)
          /\ Own(c) \cap Named(call[c].name) # {}
      BY <1>4, <2>3 DEF UpdateCheck, NameFree
    <3>2. PICK o \in Named(call[c].name) : o \in Own(c)
      BY <3>1
    <3>3. /\ call[c].from \in Ids /\ store[call[c].from].kin = store[call[c].id].kin
          /\ o = IF store[call[c].from].main = 0 THEN call[c].from
                 ELSE store[call[c].from].main
      <4>1. call[c].from \in Ids \cup {0} /\ call[c].from # 0
        BY <2>1, <3>2, Asked DEF Own, Typed, Update
      <4> QED
        BY <3>1, <3>2, <4>1 DEF Foreign, Own
    <3>4. store[o].kin = store[call[c].from].kin
      BY <3>3 DEF Shared, Tree
    <3>5. /\ o \in Ids /\ Live(o) /\ k \in Ids /\ Live(k)
          /\ store[o].name = store[k].name /\ {o, k} \cap repeated = {}
      BY <2>3, <3>1, <3>2 DEF Named
    <3> QED
      BY <3>3, <3>4, <3>5 DEF Shared, NamesApart
  <2> QED
    BY <2>1, <2>2, <2>3 DEF Kept, Named, Taken, Live
<1>5. CASE UpdateRead(c)
  <2>1. /\ call' = call /\ store' = store /\ call[c].kind = "update"
        /\ pc'[c] = "read" /\ call[c].id \in Ids /\ mem'[c].row = store[call[c].id]
        /\ repeated' = repeated
    BY <1>5, Asked DEF UpdateRead, tables, aux, Typed, TypeOK, Mem, Update
  <2>2. ASSUME store[call[c].id].state = "live", call[c].id \notin repeated,
               NEW j \in Ids, Live(j), j \notin repeated,
               store[j].name = store[call[c].id].name, store[j].kin # store[call[c].id].kin
        PROVE  FALSE
    BY <2>1, <2>2 DEF Shared, NamesApart, Live
  <2> QED
    BY <2>1, <2>2 DEF Kept, Taken, Live
<1> QED
  BY <1>1, <1>2, <1>3, <1>4, <1>5

LEMMA IdsPositive == \A i \in Ids : i \in Nat /\ i # 0
  BY IdsAssumption

LEMMA CreateCommitShared ==
    ASSUME Typed, Rooted, Met, Reserved, Shared, NEW c \in Calls, CreateCommit(c)
    PROVE  Shared'
<1> DEFINE m == mem[c].id
<1> DEFINE b == lastId + 1
<1>1. /\ m \in Ids /\ b \in Ids /\ m < b /\ m # b /\ m # 0 /\ b # 0
      /\ ~Present(m) /\ ~Present(b)
  <2>1. m \in Ids /\ m <= lastId /\ ~Present(m)
    BY DEF CreateCommit, Typed, Holds, Holding, Rooted, Sound, Reserved
  <2>2. b \in Ids
    BY DEF CreateCommit
  <2>3. lastId \in Ids \cup {0}
    BY DEF Typed, TypeOK
  <2>4. ~(b <= lastId) /\ m < b /\ m # b /\ m # 0 /\ b # 0
    <3>1. lastId \in Nat /\ m \in Nat /\ m # 0
      BY <2>1, <2>3, IdsPositive
    <3> QED
      BY <2>1, <3>1
  <2>5. ~Present(b)
    BY <2>2, <2>4 DEF Rooted, Counted
  <2> QED
    BY <2>1, <2>2, <2>4, <2>5
<1>2. \A i \in Ids : store'[i] = IF i = m THEN MainRow(c)
                                 ELSE IF i = b THEN BranchRow(m, MainRow(c), TRUE)
                                 ELSE store[i]
  BY DEF CreateCommit
<1> HIDE DEF m, b
<1>3. /\ store'[m].state = "live" /\ store'[m].main = 0 /\ store'[m].kin = m
      /\ store'[m].name = call[c].name
  BY <1>1, <1>2 DEF MainRow, NoRow, m
<1>4. /\ store'[b].state = "live" /\ store'[b].main = m /\ store'[b].kin = m
      /\ store'[b].name = call[c].name /\ store'[b].status = store'[m].status
  <2>1. store'[b] = BranchRow(m, MainRow(c), TRUE) /\ store'[m] = MainRow(c)
    BY <1>1, <1>2
  <2> QED
    BY <2>1 DEF BranchRow, MainRow, NoRow
<1>5. \A i \in Ids \ {m, b} : store'[i] = store[i]
  BY <1>2
<1>6. \A i \in Ids : store[i].main \notin {m, b}
  <2>1. \A i \in Ids : store[i].main # 0 => Present(store[i].main)
    BY DEF Rooted, NothingSubscribed
  <2> QED
    BY <1>1, <2>1
<1>7. Others(c) /\ pc'[c] = "done" /\ apart' = apart /\ crossed' = crossed
  BY DEF CreateCommit, Ends, Others, Typed, TypeOK
<1>8. repeated' = IF c \in crossed THEN repeated \cup {m, b} ELSE repeated
  BY DEF CreateCommit, m, b
<1>9. StatusAgrees'
  <2> SUFFICES ASSUME NEW i \in Ids, store'[i].state # "none", store'[i].main # 0,
                      {i, store'[i].main} \cap apart = {}
               PROVE  store'[i].status = store'[store'[i].main].status
    BY <1>7 DEF StatusAgrees, Present
  <2>1. CASE i \in {m, b}
    BY <1>3, <1>4, <2>1
  <2>2. CASE i \notin {m, b}
    <3>1. store'[i] = store[i] /\ store[i].main \in Ids \ {m, b}
      BY <1>5, <1>6, <2>2 DEF Typed, TypeOK, Row
    <3>2. store'[store[i].main] = store[store[i].main]
      BY <1>5, <3>1
    <3> QED
      BY <3>1, <3>2 DEF StatusAgrees, Shared, Present
  <2> QED
    BY <2>1, <2>2
<1>10. NamesApart'
  <2>1. c \notin crossed =>
           \A j \in Ids : Live(j) /\ store[j].name = call[c].name => j \in repeated
    BY DEF Shared, Kept, CreateCommit
  <2> QED
    BY <1>1, <1>3, <1>4, <1>5, <1>8, <2>1 DEF NamesApart, Shared, Live
<1>11. Tree'
  <2> SUFFICES ASSUME NEW i \in Ids, store'[i].main # 0
               PROVE  LET k == store'[i].main IN
                      /\ store'[i].state # "none" /\ k < i
                      /\ store'[i].kin = k /\ store'[k].kin = k
    BY DEF Tree, Present
  <2>1. CASE i \in {m, b}
    BY <1>1, <1>3, <1>4, <2>1
  <2>2. CASE i \notin {m, b}
    <3>1. store'[i] = store[i] /\ store[i].main \in Ids \ {m, b}
      BY <1>5, <1>6, <2>2 DEF Typed, TypeOK, Row
    <3>2. store'[store[i].main] = store[store[i].main]
      BY <1>5, <3>1
    <3> QED
      BY <3>1, <3>2 DEF Tree, Shared, Present
  <2> QED
    BY <2>1, <2>2
<1>12. ASSUME NEW d \in Calls PROVE Kept(d)'
  <2>1. CASE d = c
    BY <1>7, <2>1 DEF Kept
  <2>2. CASE d # c
    <3>1. Writer(c) /\ InFlight(c)
      BY DEF CreateCommit, Writer, InFlight
    <3>2. \A i \in Ids \ {b} :
             store'[i].state # "none" => \/ Present(i) /\ store'[i].kin = store[i].kin
                                         \/ store'[i].kin = i
      BY <1>3, <1>5 DEF Present
    <3> QED
      BY <1>7, <2>2, <3>1, <3>2, OthersKept DEF b
  <2> QED
    BY <2>1, <2>2
<1> QED
  BY <1>9, <1>10, <1>11, <1>12 DEF Shared

LEMMA BranchCommitShared ==
    ASSUME Typed, Rooted, Met, Shared, NEW c \in Calls, BranchCommit(c)
    PROVE  Shared'
<1> DEFINE m == mem[c].id
<1> DEFINE b == lastId + 1
<1> DEFINE row == mem[c].row
<1>1. /\ m \in Ids /\ b \in Ids /\ m < b /\ m # b /\ m # 0 /\ b # 0
      /\ Present(m) /\ ~Present(b)
  <2>1. m \in Ids /\ m <= lastId /\ Present(m)
    BY DEF BranchCommit, Typed, Holds, Holding, Rooted, Sound
  <2>2. b \in Ids
    BY DEF BranchCommit
  <2>3. lastId \in Ids \cup {0}
    BY DEF Typed, TypeOK
  <2>4. ~(b <= lastId) /\ m < b /\ m # b /\ m # 0 /\ b # 0
    <3>1. lastId \in Nat /\ m \in Nat /\ m # 0
      BY <2>1, <2>3, IdsPositive
    <3> QED
      BY <2>1, <3>1
  <2>5. ~Present(b)
    BY <2>2, <2>4 DEF Rooted, Counted
  <2> QED
    BY <2>1, <2>2, <2>4, <2>5
<1>2. store' = Added(b, BranchRow(m, row, FALSE))
  BY DEF BranchCommit
<1>3. /\ repeated' = IF c \in crossed \/ ~Live(m) \/ m \in repeated
                     THEN repeated \cup {b} ELSE repeated
      /\ apart' = IF c \in crossed THEN apart \cup {b} ELSE apart
      /\ crossed' = crossed
  BY DEF BranchCommit
<1>4. Others(c) /\ pc'[c] = "done"
  BY DEF BranchCommit, Ends, Others, Typed, TypeOK
<1>5. /\ store[m].kin = m
      /\ c \notin crossed => store[m].name = row.name /\ store[m].status = row.status
  BY <1>1 DEF BranchCommit, Shared, Kept
<1> HIDE DEF m, b, row
<1>6. /\ store'[b].state = "live" /\ store'[b].main = m /\ store'[b].kin = m
      /\ store'[b].name = row.name /\ store'[b].status = row.status
  <2>1. store'[b] = BranchRow(m, row, FALSE)
    BY <1>1, <1>2 DEF Added
  <2> QED
    BY <2>1 DEF BranchRow, NoRow
<1>7. \A i \in Ids \ {b} : store'[i] = store[i]
  BY <1>2 DEF Added
<1>8. \A i \in Ids \ {b} : store[i].main # 0 => store[i].main \in Ids \ {b}
  <2>1. \A i \in Ids : store[i].main # 0 => Present(store[i].main)
    BY DEF Rooted, NothingSubscribed
  <2>2. \A i \in Ids : store[i].main \in Ids \cup {0}
    BY DEF Typed, TypeOK, Row
  <2> QED
    BY <1>1, <2>1, <2>2
<1>9. StatusAgrees'
  <2> SUFFICES ASSUME NEW i \in Ids, store'[i].state # "none", store'[i].main # 0,
                      {i, store'[i].main} \cap apart' = {}
               PROVE  store'[i].status = store'[store'[i].main].status
    BY DEF StatusAgrees, Present
  <2>1. CASE i = b
    BY <1>1, <1>3, <1>5, <1>6, <1>7, <2>1
  <2>2. CASE i # b
    <3>1. store'[i] = store[i] /\ store'[store[i].main] = store[store[i].main]
      BY <1>7, <1>8, <2>2
    <3> QED
      BY <1>3, <3>1 DEF StatusAgrees, Shared, Present
  <2> QED
    BY <2>1, <2>2
<1>10. NamesApart'
  <2>1. ASSUME NEW j \in Ids \ {b}, Live(j), store[j].kin # m, store[j].name = row.name,
               b \notin repeated'
        PROVE  j \in repeated'
    <3>1. c \notin crossed /\ Live(m) /\ m \notin repeated /\ repeated' = repeated
      BY <1>3, <2>1
    <3>2. store[m].name = row.name /\ store[m].kin = m
      BY <1>5, <3>1
    <3> QED
      BY <1>1, <2>1, <3>1, <3>2 DEF NamesApart, Shared
  <2> QED
    BY <1>3, <1>6, <1>7, <2>1 DEF NamesApart, Shared, Live
<1>11. Tree'
  <2> SUFFICES ASSUME NEW i \in Ids, store'[i].main # 0
               PROVE  LET k == store'[i].main IN
                      /\ store'[i].state # "none" /\ k < i
                      /\ store'[i].kin = k /\ store'[k].kin = k
    BY DEF Tree, Present
  <2>1. CASE i = b
    BY <1>1, <1>5, <1>6, <1>7, <2>1
  <2>2. CASE i # b
    <3>1. store'[i] = store[i] /\ store'[store[i].main] = store[store[i].main]
      BY <1>7, <1>8, <2>2
    <3> QED
      BY <3>1 DEF Tree, Shared, Present
  <2> QED
    BY <2>1, <2>2
<1>12. ASSUME NEW d \in Calls PROVE Kept(d)'
  <2>1. CASE d = c
    BY <1>4, <2>1 DEF Kept
  <2>2. CASE d # c
    <3>1. Writer(c) /\ InFlight(c)
      BY DEF BranchCommit, Writer, InFlight
    <3>2. \A i \in Ids \ {b} :
             store'[i].state # "none" => \/ Present(i) /\ store'[i].kin = store[i].kin
                                         \/ store'[i].kin = i
      BY <1>7 DEF Present
    <3> QED
      BY <1>3, <1>4, <2>2, <3>1, <3>2, OthersKept DEF b
  <2> QED
    BY <2>1, <2>2
<1> QED
  BY <1>9, <1>10, <1>11, <1>12 DEF Shared

LEMMA UpdateRowShared ==
    ASSUME Typed, Rooted, Met, Shared, NEW c \in Calls, UpdateRow(c)
    PROVE  Shared'
<1> DEFINE i == call[c].id
<1>1. /\ Others(c) /\ pc'[c] = "written" /\ i \in Ids
      /\ \A j \in Ids :
            /\ store'[j].state = store[j].state /\ store'[j].main = store[j].main
            /\ store'[j].kin = store[j].kin /\ store'[j].status = store[j].status
            /\ store'[j].name = IF j = i /\ call[c].name # Unset
                                THEN call[c].name ELSE store[j].name
  BY UpdateRowSteps
<1>2. /\ pc[c] = "checked" /\ call[c].kind = "update" /\ Present(i)
      /\ crossed' = crossed /\ apart' = apart
      /\ repeated' = IF call[c].name # Unset /\ c \in crossed
                     THEN repeated \cup {i} ELSE repeated
  BY DEF UpdateRow
<1> HIDE DEF i
<1>3. \A j \in Ids : store[j].main \in Ids \cup {0}
  BY DEF Typed, TypeOK, Row
<1>4. StatusAgrees'
  BY <1>1, <1>2, <1>3 DEF StatusAgrees, Shared, Present
<1>5. NamesApart'
  <2>1. ASSUME call[c].name # Unset, i \notin repeated', NEW j \in Ids, Live(j),
               store[j].kin # store[i].kin, store[j].name = call[c].name
        PROVE  j \in repeated
    BY <1>1, <1>2, <2>1 DEF Shared, Kept, Taken, i
  <2>2. ASSUME NEW j \in Ids, NEW k \in Ids, Live(j), Live(k),
               store[j].kin # store[k].kin, store'[j].name = store'[k].name
        PROVE  {j, k} \cap repeated' # {}
    <3>1. repeated \subseteq repeated'
      BY <1>2
    <3>2. CASE call[c].name = Unset \/ i \notin {j, k}
      BY <1>1, <2>2, <3>1, <3>2 DEF NamesApart, Shared
    <3>3. CASE call[c].name # Unset /\ i \in {j, k}
      BY <1>1, <2>1, <2>2, <3>1, <3>3
    <3> QED
      BY <3>2, <3>3
  <2> QED
    BY <1>1, <2>2 DEF NamesApart, Live
<1>6. Tree'
  BY <1>1, <1>3 DEF Tree, Shared, Present
<1>7. ASSUME NEW d \in Calls PROVE Kept(d)'
  <2>1. CASE d = c
    BY <1>1, <2>1 DEF Kept
  <2>2. CASE d # c
    <3>1. Writer(c) /\ InFlight(c)
      BY <1>2 DEF Writer, InFlight
    <3> QED
      BY <1>1, <1>2, <2>2, <3>1, OthersKept DEF Present
  <2> QED
    BY <2>1, <2>2
<1> QED
  BY <1>4, <1>5, <1>6, <1>7 DEF Shared

LEMMA UpdateSpreadShared ==
    ASSUME Typed, Rooted, Met, Shared, NEW c \in Calls, UpdateSpread(c)
    PROVE  Shared'
<1> DEFINE i == call[c].id
<1> DEFINE from == mem[c].row
<1> DEFINE rows == Targets(i, from.main)
<1>1. Others(c) /\ pc'[c] = "done" /\ call[c] \in Update
  BY UpdateSpreadSteps
<1>2. \A j \in Ids :
         /\ store'[j].state = store[j].state /\ store'[j].main = store[j].main
         /\ store'[j].kin = store[j].kin
         /\ j \in rows =>
               /\ store'[j].name = from.name
               /\ store'[j].status = IF call[c].status = Unset
                                     THEN store[j].status ELSE call[c].status
         /\ j \notin rows => store'[j].name = store[j].name /\ store'[j].status = store[j].status
  BY UpdateSpreadSteps
<1>3. /\ pc[c] = "read" /\ call[c].kind = "update" /\ crossed' = crossed
      /\ repeated \subseteq repeated' /\ apart \subseteq apart'
  BY DEF UpdateSpread
<1>4. /\ c \in crossed \/ i \in repeated \/ from.state # "live" => rows \subseteq repeated'
      /\ \A j \in rows : store[j].kin # from.kin => j \in repeated'
  BY DEF UpdateSpread, Targets
<1>5. call[c].status # Unset =>
         \A j \in rows : j \in Ids /\ (j \notin apart' => Relatives(j) \subseteq rows)
  BY DEF UpdateSpread, Targets, RowsOf
<1>6. \A j \in Ids : store[j].main \in Ids \cup {0}
  BY DEF Typed, TypeOK, Row
<1>7. c \notin crossed /\ i \notin repeated /\ from.state = "live" => ~Taken(from.name, from.kin)
  BY <1>3 DEF Shared, Kept
<1> HIDE DEF i, from, rows
<1>8. StatusAgrees'
  <2> SUFFICES ASSUME NEW j \in Ids, Present(j), store[j].main # 0,
                      {j, store[j].main} \cap apart' = {}
               PROVE  store'[j].status = store'[store[j].main].status
    BY <1>2 DEF StatusAgrees, Present
  <2>1. /\ store[j].main \in Ids /\ store[j].status = store[store[j].main].status
        /\ Present(store[j].main) /\ store[store[j].main].main = 0
    BY <1>3, <1>6 DEF StatusAgrees, Shared, Rooted, NothingSubscribed
  <2>2. CASE call[c].status = Unset
    BY <1>2, <2>1, <2>2
  <2>3. CASE call[c].status # Unset
    <3>1. j \in Relatives(store[j].main) /\ store[j].main \in Relatives(j)
      BY <2>1 DEF Relatives, RowsOf
    <3>2. j \in rows <=> store[j].main \in rows
      BY <1>5, <2>3, <3>1
    <3> QED
      BY <1>2, <2>1, <2>3, <3>2
  <2> QED
    BY <2>2, <2>3
<1>9. NamesApart'
  <2>1. ASSUME NEW j \in Ids, NEW k \in Ids, Live(j), Live(k),
               store[j].kin # store[k].kin, j \in rows, k \notin rows,
               store[k].name = from.name
        PROVE  {j, k} \cap repeated' # {}
    <3>1. CASE c \in crossed \/ i \in repeated \/ from.state # "live" \/ store[j].kin # from.kin
      BY <1>4, <2>1, <3>1
    <3>2. CASE ~(c \in crossed \/ i \in repeated \/ from.state # "live" \/ store[j].kin # from.kin)
      BY <1>3, <1>7, <2>1, <3>2 DEF Taken
    <3> QED
      BY <3>1, <3>2
  <2>2. ASSUME NEW j \in Ids, NEW k \in Ids, Live(j), Live(k),
               store[j].kin # store[k].kin, store'[j].name = store'[k].name
        PROVE  {j, k} \cap repeated' # {}
    <3>1. CASE j \in rows /\ k \in rows
      BY <1>4, <2>2, <3>1
    <3>2. CASE j \notin rows /\ k \notin rows
      BY <1>2, <1>3, <2>2, <3>2 DEF NamesApart, Shared
    <3>3. CASE j \in rows /\ k \notin rows
      BY <1>2, <2>1, <2>2, <3>3
    <3>4. CASE j \notin rows /\ k \in rows
      BY <1>2, <2>1, <2>2, <3>4
    <3> QED
      BY <3>1, <3>2, <3>3, <3>4
  <2> QED
    BY <1>2, <2>2 DEF NamesApart, Live
<1>10. Tree'
  BY <1>2, <1>6 DEF Tree, Shared, Present
<1>11. ASSUME NEW d \in Calls PROVE Kept(d)'
  <2>1. CASE d = c
    BY <1>1, <2>1 DEF Kept
  <2>2. CASE d # c
    <3>1. Writer(c) /\ InFlight(c)
      BY <1>3 DEF Writer, InFlight
    <3> QED
      BY <1>1, <1>2, <1>3, <2>2, <3>1, OthersKept DEF Present
  <2> QED
    BY <2>1, <2>2
<1> QED
  BY <1>8, <1>9, <1>10, <1>11 DEF Shared

LEMMA InitShared == Init => Shared
<1> SUFFICES ASSUME Init PROVE Shared
  OBVIOUS
<1>1. store \in Existing /\ repeated = {} /\ \A c \in Calls : pc[c] = "idle"
  BY DEF Init
<1>2. StatusAgrees /\ Tree
  BY <1>1, ExistingAssumption DEF StatusAgrees, Tree, Present
<1>3. NamesApart
  BY <1>1, ExistingAssumption DEF NamesApart, Live
<1>4. \A c \in Calls : Kept(c)
  BY <1>1, EndedKept
<1> QED
  BY <1>2, <1>3, <1>4 DEF Shared

LEMMA NextShared ==
    Typed /\ Rooted /\ Rooted' /\ Met /\ Reserved /\ Shared /\ [Next]_vars => Shared'
<1> SUFFICES ASSUME Typed, Rooted, Rooted', Met, Reserved, Shared, [Next]_vars
             PROVE  Shared'
  OBVIOUS
<1>1. CASE UNCHANGED vars
  BY <1>1 DEF vars, tables, aux, Shared, StatusAgrees, NamesApart, Tree, Kept, Taken,
              Present, Live
<1>2. ASSUME NEW c \in Calls,
             \/ Refused(c) \/ DeleteStore(c) \/ DeleteBranch(c) \/ Purge(c)
             \/ ScheduleCheck(c) \/ ScheduleInsert(c) \/ Unschedule(c)
             \/ SubscribeRead(c) \/ SubscribeCommit(c)
             \/ CloseRead(c) \/ CloseWrite(c) \/ CloseEnd(c) \/ FailCall(c)
      PROVE  Shared'
  <2>1. Fading(c) /\ (~Writer(c) \/ pc'[c] \in {"done", "refused", "failed"})
    BY <1>2, FadingSteps
  <2>2. Kept(c)'
    BY <2>1 DEF Kept, Writer, Fading, Others
  <2> QED
    BY <2>1, <2>2, QuietShared
<1>3. ASSUME NEW c \in Calls,
             \/ CreateCheck(c) \/ CreateInsert(c) \/ BranchRead(c)
             \/ UpdateCheck(c) \/ UpdateRead(c)
      PROVE  Shared'
  <2>1. CASE Refused(c)
    BY <1>2, <2>1
  <2>2. CASE ~Refused(c)
    BY <1>3, <2>2, ReadingSteps, ReadKept, QuietShared
  <2> QED
    BY <2>1, <2>2
<1>4. ASSUME NEW c \in Calls,
             CreateCommit(c) \/ BranchCommit(c) \/ UpdateRow(c) \/ UpdateSpread(c)
      PROVE  Shared'
  BY <1>4, CreateCommitShared, BranchCommitShared, UpdateRowShared, UpdateSpreadShared
<1> QED
  BY <1>1, <1>2, <1>3, <1>4 DEF Next

LEMMA InitBacked == Init => Typed /\ Rooted /\ Backed
<1> SUFFICES ASSUME Init PROVE Typed /\ Rooted /\ Backed
  OBVIOUS
<1>1. Typed
  BY InitTyped DEF Init, Typed, Holds, Holding
<1>2. Met /\ Reserved
  BY DEF Init, Met, Reserved, InFlight
<1> QED
  BY <1>1, <1>2, InitRooted, InitShared DEF Backed

LEMMA NextBacked == Typed /\ Rooted /\ Backed /\ [Next]_vars => (Typed /\ Rooted /\ Backed)'
  BY NextTyped, NextRooted, NextMet, NextReserved, NextShared DEF Backed

\* Whatever is purged, deleted, renamed and failed in between, a branch differs
\* in status from its main store only if it was created while another call ran
\* or an update gave the status to part of the family.
THEOREM BranchesAgree == Spec => []StatusAgrees
<1>1. Backed => StatusAgrees
  BY DEF Backed, Shared
<1> QED
  BY <1>1, InitBacked, NextBacked, PTL DEF Spec

\* The check of validateUnique is enough for calls that do not overlap: two
\* families have one name only by a row that repeated marks.
THEOREM NamesStayApart == Spec => []NamesApart
<1>1. Backed => NamesApart
  BY DEF Backed, Shared
<1> QED
  BY <1>1, InitBacked, NextBacked, PTL DEF Spec

-----------------------------------------------------------------------------
(* Why a branch that is temporarily closed is shown open.  The pass that read  *)
(* its flag wrote it too, unless the flag changed since, so that the one that  *)
(* opened it was the turn of another branch; and what a turn writes is the main *)
(* store it read, or a branch that still has it.                               *)

Exposed(i) == Live(i) /\ store[i].main # 0 /\ store[i].temp /\ ~store[i].closed /\ i \notin toggled

\* The branch of a turn has the main store it was read with, or that is gone;
\* and nobody is about to insert a row in the place of one of the two.
Turns ==
    \A c \in Calls : \A b \in mem[c].todo :
        /\ b.main <= lastId /\ b.id <= lastId
        /\ \A d \in Calls : pc[d] = "inserted" => mem[d].id \notin {b.id, b.main}
        /\ \/ store[b.id].main = b.main
           \/ store[b.id].main = 0 /\ ~Present(b.main)

LEMMA TurnRows ==
    ASSUME Typed, NEW c \in Calls, NEW b \in mem[c].todo
    PROVE  b.id \in Ids /\ b.main \in Ids /\ b.temp \in BOOLEAN
  BY DEF Typed, TypeOK, Mem, Turn

LEMMA OpenKept ==
    ASSUME OpenExplained, last' = last,
           \A i \in Ids : Exposed(i)' => Exposed(i) /\ store'[i].main = store[i].main
    PROVE  OpenExplained'
  BY DEF OpenExplained, Exposed, Live

\* What is where turns read stays, or goes with its main store.
Stays(i) ==
    /\ \/ store'[i].main = store[i].main
       \/ store'[i].main = 0 /\ store'[store[i].main].state = "none"
    /\ store'[i].state # "none" => Present(i)

LEMMA TurnsKept ==
    ASSUME Typed, Turns, lastId' \in {lastId, lastId + 1},
           \A d \in Calls : mem'[d].todo \subseteq mem[d].todo,
           \A d \in Calls : pc'[d] = "inserted" =>
              \/ pc[d] = "inserted" /\ mem'[d].id = mem[d].id
              \/ mem'[d].id = lastId + 1,
           \A i \in Ids :
              /\ i <= lastId
              /\ \A d \in Calls : pc[d] = "inserted" => mem[d].id # i
              => Stays(i)
    PROVE  Turns'
<1> SUFFICES ASSUME NEW c \in Calls, NEW b \in mem'[c].todo
             PROVE  /\ b.main <= lastId' /\ b.id <= lastId'
                    /\ \A d \in Calls : pc'[d] = "inserted" => mem'[d].id \notin {b.id, b.main}
                    /\ \/ store'[b.id].main = b.main
                       \/ store'[b.id].main = 0 /\ store'[b.main].state = "none"
  BY DEF Turns, Present
<1>1. b \in mem[c].todo
  OBVIOUS
<1>2. b.id \in Ids /\ b.main \in Ids
  BY <1>1, TurnRows
<1>3. lastId \in Nat /\ b.id \in Nat /\ b.main \in Nat
  <2>1. lastId \in Ids \cup {0}
    BY DEF Typed, TypeOK
  <2> QED
    BY <1>2, <2>1, IdsPositive
<1>4. /\ b.main <= lastId /\ b.id <= lastId
      /\ \A d \in Calls : pc[d] = "inserted" => mem[d].id \notin {b.id, b.main}
      /\ \/ store[b.id].main = b.main
         \/ store[b.id].main = 0 /\ ~Present(b.main)
  BY <1>1 DEF Turns
<1>5. Stays(b.id) /\ Stays(b.main)
  BY <1>2, <1>4
<1>6. b.main <= lastId' /\ b.id <= lastId' /\ lastId + 1 \notin {b.id, b.main}
  BY <1>3, <1>4
<1>7. \/ store'[b.id].main = b.main
      \/ store'[b.id].main = 0 /\ store'[b.main].state = "none"
  BY <1>4, <1>5 DEF Stays
<1>8. ASSUME NEW d \in Calls, pc'[d] = "inserted" PROVE mem'[d].id \notin {b.id, b.main}
  BY <1>4, <1>6, <1>8
<1> QED
  BY <1>6, <1>7, <1>8

\* A step of a call that neither inserts nor reads for the close pass.
LEMMA TurnsStep ==
    ASSUME Typed, Turns, NEW c \in Calls, Others(c), lastId' = lastId,
           pc'[c] # "inserted", mem'[c].todo \subseteq mem[c].todo,
           \A i \in Ids : Stays(i)
    PROVE  Turns'
<1>1. \A d \in Calls : mem'[d].todo \subseteq mem[d].todo
  BY DEF Others
<1>2. \A d \in Calls : pc'[d] = "inserted" => pc[d] = "inserted" /\ mem'[d].id = mem[d].id
  BY DEF Others
<1> QED
  BY <1>1, <1>2, TurnsKept

LEMMA EndsTurns ==
    ASSUME Typed, NEW c \in Calls, NEW end \in {"done", "refused", "failed"},
           Ends(c, end), call' = call
    PROVE  Others(c) /\ pc'[c] = end /\ mem'[c].todo \subseteq mem[c].todo
  BY DEF Ends, Others, NoMem, Typed, TypeOK

\* Purging rows takes branches away only with their main store.
LEMMA PurgeOpen ==
    ASSUME Typed, Rooted, Shared, Turns, OpenExplained, NEW c \in Calls,
           Purge(c), ~Refused(c)
    PROVE  Turns' /\ OpenExplained'
<1>1. PICK n \in Ids :
         LET old == {i \in Ids : Present(i) /\ i <= n} IN
         store' = [i \in Ids |->
                     IF i \in old THEN NoRow
                     ELSE IF store[i].main \in old
                          THEN [store[i] EXCEPT !.main = 0]
                     ELSE store[i]]
  BY DEF Purge
<1> DEFINE old == {i \in Ids : Present(i) /\ i <= n}
<1>2. \A i \in Ids : store'[i] = IF i \in old THEN NoRow
                                 ELSE IF store[i].main \in old
                                      THEN [store[i] EXCEPT !.main = 0]
                                 ELSE store[i]
  BY <1>1
<1>3. ASSUME NEW i \in Ids, store[i].main # 0
      PROVE  store[i].main \in Ids /\ Present(store[i].main) /\ store[i].main < i
  BY <1>3 DEF Typed, TypeOK, Row, Rooted, NothingSubscribed, Shared, Tree
<1>4. ASSUME NEW i \in Ids, i \in old, store[i].main # 0
      PROVE  store[i].main \in old
  <2>1. i \in Nat /\ n \in Nat /\ store[i].main \in Nat
    BY <1>3, <1>4, IdsPositive
  <2>2. store[i].main <= n
    BY <1>3, <1>4, <2>1
  <2> QED
    BY <1>3, <1>4, <2>2
<1> HIDE DEF old
<1>5. ASSUME NEW i \in Ids, store[i].main \in old
      PROVE  store'[store[i].main].state = "none" /\ store[i].main # 0
  <2>1. store[i].main \in Ids /\ store[i].main # 0
    BY <1>5, IdsPositive DEF old
  <2>2. store'[store[i].main] = NoRow
    BY <1>2, <1>5, <2>1
  <2> QED
    BY <2>1, <2>2 DEF NoRow
<1>6. ASSUME NEW i \in Ids PROVE Stays(i)
  <2>1. CASE i \in old
    <3>1. store'[i] = NoRow
      BY <1>2, <2>1
    <3> QED
      BY <1>4, <1>5, <2>1, <3>1 DEF Stays, NoRow
  <2>2. CASE i \notin old /\ store[i].main \in old
    <3>1. store'[i] = [store[i] EXCEPT !.main = 0] /\ store[i] \in Row
      BY <1>2, <2>2 DEF Typed, TypeOK
    <3> QED
      BY <1>5, <2>2, <3>1 DEF Stays, Present, Row
  <2>3. CASE i \notin old /\ store[i].main \notin old
    BY <1>2, <2>3 DEF Stays, Present
  <2> QED
    BY <2>1, <2>2, <2>3
<1>7. /\ Ends(c, "done") /\ lastId' = lastId /\ call' = call
      /\ toggled' = toggled /\ last' = last
  BY DEF Purge, aux
<1>8. Turns'
  BY <1>6, <1>7, EndsTurns, TurnsStep
<1>9. ASSUME NEW i \in Ids, store'[i].main # 0
      PROVE  store'[i] = store[i] /\ store[i].main \notin old
  <2>1. i \notin old
    <3>1. NoRow.main = 0
      BY DEF NoRow
    <3> QED
      BY <1>2, <1>9, <3>1
  <2>2. store[i].main \notin old
    BY <1>2, <1>9, <2>1 DEF Typed, TypeOK, Row
  <2> QED
    BY <1>2, <2>1, <2>2
<1>10. \A i \in Ids : Exposed(i)' => Exposed(i) /\ store'[i].main = store[i].main
  BY <1>7, <1>9 DEF Exposed, Live
<1> QED
  BY <1>7, <1>8, <1>10, OpenKept

\* One turn of the pass: it closes its branch, or another one was the cause.
LEMMA CloseWriteOpen ==
    ASSUME Typed, Rooted, Turns, OpenExplained, NEW c \in Calls, CloseWrite(c)
    PROVE  Turns' /\ OpenExplained'
<1>1. PICK b \in mem[c].todo, now \in Times :
         /\ store' = [i \in Ids |->
                        IF i \in RowsOf(b.main)
                        THEN [store[i] EXCEPT !.closed = CloseValue(b, now)]
                        ELSE store[i]]
         /\ last' = [i \in Ids |->
                       IF i \in RowsOf(b.main)
                       THEN [id |-> b.id, main |-> b.main, temp |-> b.temp]
                       ELSE last[i]]
         /\ toggled' = IF store[b.id].temp = b.temp THEN toggled \ {b.id}
                                                    ELSE toggled \cup {b.id}
         /\ mem' = [mem EXCEPT ![c].todo = @ \ {b}]
  BY DEF CloseWrite
<1>2. \A i \in Ids : store[i] \in Row
  BY DEF Typed, TypeOK
<1>3. \A i \in Ids :
         /\ store'[i].main = store[i].main /\ store'[i].state = store[i].state
         /\ store'[i].temp = store[i].temp
         /\ i \in RowsOf(b.main) => store'[i].closed = CloseValue(b, now)
         /\ i \notin RowsOf(b.main) => store'[i].closed = store[i].closed
  <2> TAKE i \in Ids
  <2>1. store'[i] = IF i \in RowsOf(b.main)
                    THEN [store[i] EXCEPT !.closed = CloseValue(b, now)] ELSE store[i]
    BY <1>1
  <2> QED
    BY <1>2, <2>1 DEF Row
<1>4. Turns'
  <2>1. Others(c) /\ lastId' = lastId /\ pc'[c] # "inserted"
    BY DEF CloseWrite, Others, Typed, TypeOK
  <2>2. mem'[c].todo \subseteq mem[c].todo
    BY <1>1 DEF Typed, TypeOK, Mem
  <2>3. \A i \in Ids : Stays(i)
    BY <1>3 DEF Stays, Present
  <2> QED
    BY <2>1, <2>2, <2>3, TurnsStep
<1>5. b.id \in Ids /\ b.main \in Ids /\ b.main # 0
  BY TurnRows, IdsPositive
<1>6. \/ store[b.id].main = b.main
      \/ store[b.id].main = 0 /\ ~Present(b.main)
  BY DEF Turns
<1>7. \A i \in Ids : store[i].main # 0 =>
         Present(store[i].main) /\ store[store[i].main].main = 0
  BY DEF Rooted, NothingSubscribed
<1>8. OpenExplained'
  <2> SUFFICES ASSUME NEW i \in Ids, store[i].state = "live", store[i].main # 0,
                      store[i].temp, ~store'[i].closed, i \notin toggled'
               PROVE  /\ last'[i].id \in Ids \ {i}
                      /\ last'[i].main = store[i].main
                      /\ ~last'[i].temp
    BY <1>3 DEF OpenExplained, Live
  <2>1. CASE i \in RowsOf(b.main)
    <3>1. ~b.temp
      BY <1>3, <2>1 DEF CloseValue
    <3>2. i # b.id
      BY <1>1, <3>1
    <3>3. Present(b.main) \/ store[i].main = b.main
      BY <2>1 DEF RowsOf
    <3>4. store[b.id].main = b.main
      BY <1>6, <1>7, <3>3
    <3>5. i # b.main
      BY <1>5, <1>7, <3>4
    <3>6. store[i].main = b.main
      BY <2>1, <3>5 DEF RowsOf
    <3>7. last'[i] = [id |-> b.id, main |-> b.main, temp |-> b.temp]
      BY <1>1, <2>1
    <3> QED
      BY <1>5, <3>1, <3>2, <3>6, <3>7
  <2>2. CASE i \notin RowsOf(b.main)
    <3>1. i # b.id
      BY <1>6, <2>2 DEF RowsOf, Present
    <3>2. i \notin toggled
      BY <1>1, <3>1
    <3>3. last'[i] = last[i]
      BY <1>1, <2>2
    <3> QED
      BY <1>3, <2>2, <3>2, <3>3 DEF OpenExplained, Live
  <2> QED
    BY <2>1, <2>2
<1> QED
  BY <1>4, <1>8

\* New rows are closed, and what the table held stays.
LEMMA NewRowsOpen ==
    ASSUME Typed, Rooted, Turns, OpenExplained, NEW c \in Calls,
           Others(c), pc'[c] = "done", mem'[c].todo \subseteq mem[c].todo,
           lastId' = lastId + 1, toggled' = toggled, last' = last,
           NEW new \in SUBSET Ids,
           \A i \in Ids \ new : store'[i] = store[i],
           \A i \in new : store'[i].closed /\ ~Present(i),
           \A i \in new : i = lastId + 1 \/ (pc[c] = "inserted" /\ mem[c].id = i)
    PROVE  Turns' /\ OpenExplained'
<1>1. Turns'
  <2>1. \A d \in Calls : mem'[d].todo \subseteq mem[d].todo
    BY DEF Others
  <2>2. \A d \in Calls : pc'[d] = "inserted" => pc[d] = "inserted" /\ mem'[d].id = mem[d].id
    BY DEF Others
  <2>3. ASSUME NEW i \in Ids, i <= lastId,
               \A d \in Calls : pc[d] = "inserted" => mem[d].id # i
        PROVE  Stays(i)
    <3>1. lastId \in Ids \cup {0}
      BY DEF Typed, TypeOK
    <3>2. i # lastId + 1
      BY <2>3, <3>1, IdsPositive
    <3>3. store'[i] = store[i]
      BY <2>3, <3>2
    <3> QED
      BY <3>3 DEF Stays, Present
  <2> QED
    BY <2>1, <2>2, <2>3, TurnsKept
<1>2. ASSUME NEW i \in Ids, Exposed(i)'
      PROVE  Exposed(i) /\ store'[i].main = store[i].main
  BY <1>2 DEF Exposed, Live
<1> QED
  BY <1>1, <1>2, OpenKept

\* A step that writes no row and reads no branches.
LEMMA StillOpen ==
    ASSUME Typed, Turns, OpenExplained, NEW c \in Calls, Others(c),
           store' = store, lastId' = lastId, toggled' = toggled, last' = last,
           pc'[c] # "inserted", mem'[c].todo \subseteq mem[c].todo
    PROVE  Turns' /\ OpenExplained'
<1>1. \A i \in Ids : Stays(i)
  BY DEF Stays, Present
<1> QED
  BY <1>1, TurnsStep DEF OpenExplained, Live

\* A step that changes no main store, opens nothing and marks what it closes.
LEMMA WrittenOpen ==
    ASSUME Typed, Turns, OpenExplained, NEW c \in Calls, Others(c),
           lastId' = lastId, last' = last, pc'[c] # "inserted",
           mem'[c].todo \subseteq mem[c].todo,
           \A i \in Ids :
              /\ store'[i].main = store[i].main /\ store'[i].closed = store[i].closed
              /\ store'[i].state # "none" => Present(i)
              /\ store'[i].state = "live" => Live(i)
              /\ store'[i].temp /\ i \notin toggled' => store[i].temp /\ i \notin toggled
    PROVE  Turns' /\ OpenExplained'
<1>1. \A i \in Ids : Stays(i)
  BY DEF Stays
<1>2. \A i \in Ids : Exposed(i)' => Exposed(i) /\ store'[i].main = store[i].main
  BY DEF Exposed, Live
<1> QED
  BY <1>1, <1>2, TurnsStep, OpenKept

LEMMA CloseReadOpen ==
    ASSUME Typed, Rooted, Reserved, Turns, OpenExplained, NEW c \in Calls, CloseRead(c)
    PROVE  Turns' /\ OpenExplained'
<1>1. /\ store' = store /\ lastId' = lastId /\ toggled' = toggled /\ last' = last
      /\ pc'[c] = "closing" /\ Others(c)
      /\ mem'[c].todo = {TurnOf(i) : i \in Branches}
  BY DEF CloseRead, tables, aux, Others, Typed, TypeOK, Mem
<1>2. OpenExplained'
  BY <1>1 DEF OpenExplained, Live
<1>3. ASSUME NEW d \in Calls, NEW b \in mem'[d].todo
      PROVE  /\ b.main <= lastId /\ b.id <= lastId
             /\ \A e \in Calls : pc'[e] = "inserted" => mem'[e].id \notin {b.id, b.main}
             /\ \/ store[b.id].main = b.main
                \/ store[b.id].main = 0 /\ ~Present(b.main)
  <2>1. \A e \in Calls : pc'[e] = "inserted" => pc[e] = "inserted" /\ mem'[e].id = mem[e].id
    BY <1>1 DEF Others
  <2>2. CASE d # c
    <3>1. b \in mem[d].todo
      BY <1>1, <1>3, <2>2 DEF Others
    <3> QED
      BY <2>1, <3>1 DEF Turns
  <2>3. CASE d = c
    <3>1. PICK i \in Branches : b = TurnOf(i)
      BY <1>1, <1>3, <2>3
    <3>2. /\ i \in Ids /\ Present(i) /\ store[i].main # 0
          /\ b.id = i /\ b.main = store[i].main
      BY <3>1 DEF Branches, TurnOf, Live, Present
    <3>3. b.main \in Ids /\ Present(b.main)
      BY <3>2 DEF Typed, TypeOK, Row, Rooted, NothingSubscribed
    <3>4. b.main <= lastId /\ b.id <= lastId
      BY <3>2, <3>3 DEF Rooted, Counted
    <3>5. \A e \in Calls : pc[e] = "inserted" => mem[e].id \notin {b.id, b.main}
      BY <3>2, <3>3 DEF Reserved
    <3> QED
      BY <2>1, <3>2, <3>4, <3>5
  <2> QED
    BY <2>2, <2>3
<1> QED
  BY <1>1, <1>2, <1>3 DEF Turns, Present

LEMMA CommitOpen ==
    ASSUME Typed, Rooted, Reserved, Shared, Turns, OpenExplained, NEW c \in Calls,
           CreateCommit(c) \/ BranchCommit(c)
    PROVE  Turns' /\ OpenExplained'
<1> DEFINE m == mem[c].id
<1> DEFINE b == lastId + 1
<1>1. /\ b \in Ids /\ lastId' = b /\ Ends(c, "done") /\ call' = call
      /\ toggled' = toggled /\ last' = last
  BY DEF CreateCommit, BranchCommit
<1>2. Others(c) /\ pc'[c] = "done" /\ mem'[c].todo \subseteq mem[c].todo
  BY <1>1, EndsTurns
<1> DEFINE Fresh(new) ==
             /\ new \in SUBSET Ids
             /\ \A i \in Ids \ new : store'[i] = store[i]
             /\ \A i \in new : store'[i].closed /\ ~Present(i)
             /\ \A i \in new : i = lastId + 1 \/ (pc[c] = "inserted" /\ mem[c].id = i)
<1>3. ASSUME NEW new, Fresh(new) PROVE Turns' /\ OpenExplained'
  <2>1. lastId' = lastId + 1
    BY <1>1
  <2> QED
    BY <1>3, <1>1, <1>2, <2>1, NewRowsOpen
<1> HIDE DEF Fresh
<1>4. ~Present(b)
  <2>1. lastId \in Ids \cup {0}
    BY DEF Typed, TypeOK
  <2>2. ~(b <= lastId)
    BY <2>1, IdsPositive
  <2> QED
    BY <1>1, <2>2 DEF Rooted, Counted
<1>5. CASE CreateCommit(c)
  <2>1. m \in Ids /\ pc[c] = "inserted" /\ ~Present(m)
    BY <1>5 DEF CreateCommit, Typed, Holds, Holding, Reserved
  <2>2. \A i \in Ids : store'[i] = IF i = m THEN MainRow(c)
                                   ELSE IF i = b THEN BranchRow(m, MainRow(c), TRUE)
                                   ELSE store[i]
    BY <1>5 DEF CreateCommit
  <2>3. MainRow(c).closed /\ BranchRow(m, MainRow(c), TRUE).closed
    BY DEF MainRow, BranchRow, NoRow
  <2> HIDE DEF m, b
  <2>4. /\ \A i \in Ids \ {m, b} : store'[i] = store[i]
        /\ \A i \in {m, b} : store'[i].closed /\ ~Present(i)
    BY <1>1, <1>4, <2>1, <2>2, <2>3
  <2>5. {m, b} \in SUBSET Ids
    BY <1>1, <2>1
  <2>6. \A i \in {m, b} : i = lastId + 1 \/ (pc[c] = "inserted" /\ mem[c].id = i)
    BY <2>1 DEF m, b
  <2> QED
    <3>1. Fresh({m, b})
      BY <2>4, <2>5, <2>6 DEF Fresh
    <3> QED
      BY <1>3, <3>1
<1>6. CASE BranchCommit(c)
  <2>1. \A i \in Ids : store'[i] = IF i = b THEN BranchRow(m, mem[c].row, FALSE)
                                   ELSE store[i]
    BY <1>6 DEF BranchCommit, Added
  <2>2. BranchRow(m, mem[c].row, FALSE).closed
    BY DEF BranchRow, NoRow
  <2> HIDE DEF m, b
  <2>3. /\ \A i \in Ids \ {b} : store'[i] = store[i]
        /\ \A i \in {b} : store'[i].closed /\ ~Present(i)
    BY <1>1, <1>4, <2>1, <2>2
  <2>4. {b} \in SUBSET Ids
    BY <1>1
  <2>5. \A i \in {b} : i = lastId + 1
    BY DEF b
  <2> QED
    <3>1. Fresh({b})
      BY <2>3, <2>4, <2>5 DEF Fresh
    <3> QED
      BY <1>3, <3>1
<1> QED
  BY <1>5, <1>6

LEMMA NextOpen ==
    /\ Typed /\ Rooted /\ Reserved /\ Shared /\ Turns /\ OpenExplained
    /\ [Next]_vars
    => Turns' /\ OpenExplained'
<1> SUFFICES ASSUME Typed, Rooted, Reserved, Shared, Turns, OpenExplained, [Next]_vars
             PROVE  Turns' /\ OpenExplained'
  OBVIOUS
<1> DEFINE Fine == Turns' /\ OpenExplained'
<1>1. CASE UNCHANGED vars
  BY <1>1 DEF vars, tables, aux, Turns, OpenExplained, Present, Live
<1>2. ASSUME NEW c \in Calls, NEW end \in {"done", "refused", "failed"}, Ends(c, end),
             call' = call, store' = store, lastId' = lastId, toggled' = toggled,
             last' = last
      PROVE  Fine
  BY <1>2, EndsTurns, StillOpen
<1>3. ASSUME NEW c \in Calls, Refused(c) PROVE Fine
  BY <1>2, <1>3 DEF Refused, tables, aux
<1>4. ASSUME NEW c \in Calls,
             \/ CreateCheck(c) \/ BranchRead(c) \/ UpdateCheck(c) \/ UpdateRead(c)
             \/ ScheduleCheck(c) \/ SubscribeRead(c)
      PROVE  Fine
  <2>1. CASE Refused(c)
    BY <1>3, <2>1
  <2>2. CASE ~Refused(c)
    <3>1. /\ store' = store /\ lastId' = lastId /\ call' = call
          /\ toggled' = toggled /\ last' = last
          /\ \E p \in {"checked", "read"} : pc' = [pc EXCEPT ![c] = p]
          /\ \A d \in Calls \ {c} : mem'[d] = mem[d]
      BY <1>4, <2>2 DEF CreateCheck, BranchRead, UpdateCheck, UpdateRead, ScheduleCheck,
                        SubscribeRead, tables, aux, Typed, TypeOK
    <3>2. mem'[c].todo = mem[c].todo
      <4>1. ASSUME NEW n, NEW r, mem' = [mem EXCEPT ![c] = [@ EXCEPT !.id = n, !.row = r]]
            PROVE  mem'[c].todo = mem[c].todo
        BY <4>1 DEF Typed, TypeOK, Mem
      <4>2. CASE CreateCheck(c) \/ UpdateCheck(c) \/ BranchRead(c)
        BY <2>2, <4>1, <4>2 DEF CreateCheck, UpdateCheck, BranchRead
      <4>3. CASE UpdateRead(c) \/ ScheduleCheck(c) \/ SubscribeRead(c)
        BY <2>2, <4>3 DEF UpdateRead, ScheduleCheck, SubscribeRead, Typed, TypeOK, Mem
      <4> QED
        BY <1>4, <4>2, <4>3
    <3>3. Others(c) /\ pc'[c] # "inserted"
      BY <3>1 DEF Others, Typed, TypeOK
    <3> QED
      BY <3>1, <3>2, <3>3, StillOpen
  <2> QED
    BY <2>1, <2>2
<1>5. ASSUME NEW c \in Calls, CreateInsert(c) PROVE Fine
  <2>1. /\ store' = store /\ toggled' = toggled /\ last' = last /\ lastId' = lastId + 1
        /\ mem' = [mem EXCEPT ![c].id = lastId + 1]
        /\ \A d \in Calls \ {c} : pc'[d] = pc[d]
    BY <1>5 DEF CreateInsert, aux, Typed, TypeOK
  <2>2. /\ \A d \in Calls \ {c} : mem'[d] = mem[d]
        /\ mem'[c].todo = mem[c].todo /\ mem'[c].id = lastId + 1
    BY <2>1 DEF Typed, TypeOK, Mem
  <2>3. \A i \in Ids : Stays(i)
    BY <2>1 DEF Stays, Present
  <2>4. /\ \A d \in Calls : mem'[d].todo \subseteq mem[d].todo
        /\ \A d \in Calls : pc'[d] = "inserted" =>
              \/ pc[d] = "inserted" /\ mem'[d].id = mem[d].id
              \/ mem'[d].id = lastId + 1
    BY <2>1, <2>2
  <2> QED
    BY <2>1, <2>3, <2>4, TurnsKept DEF OpenExplained, Live
<1>6. ASSUME NEW c \in Calls,
             \/ ScheduleInsert(c) \/ Unschedule(c) \/ SubscribeCommit(c)
             \/ CloseEnd(c) \/ FailCall(c)
      PROVE  Fine
  <2>1. CASE Refused(c)
    BY <1>3, <2>1
  <2>2. CASE ~Refused(c)
    <3>1. SubscribeCommit(c) => SubscribeFails(mem[c].id)
      BY DEF SubscribeCommit, SubscribeFails, Reading, Rooted, Sound
    <3>2. /\ store' = store /\ lastId' = lastId /\ call' = call
          /\ toggled' = toggled /\ last' = last
          /\ \E end \in {"done", "refused", "failed"} : Ends(c, end)
      BY <1>6, <2>2, <3>1 DEF ScheduleInsert, Unschedule, SubscribeCommit, CloseEnd,
                              FailCall, tables, aux
    <3> QED
      BY <1>2, <3>2
  <2> QED
    BY <2>1, <2>2
<1>7. ASSUME NEW c \in Calls, UpdateRow(c) PROVE Fine
  <2>1. /\ Others(c) /\ pc'[c] = "written" /\ call[c].id \in Ids
        /\ \A j \in Ids : store'[j].state = store[j].state /\ store'[j].main = store[j].main
    BY <1>7, UpdateRowSteps
  <2>2. /\ store' = Added(call[c].id, Edited(store[call[c].id], call[c]))
        /\ toggled' = IF call[c].temp = TRUE THEN toggled \cup {call[c].id} ELSE toggled
        /\ mem' = mem /\ lastId' = lastId /\ last' = last
    BY <1>7 DEF UpdateRow
  <2>3. call[c].temp \in BOOLEAN \cup {Unset}
    BY <1>7, Asked DEF UpdateRow, Typed, Update
  <2>4. ASSUME NEW row \in Row
        PROVE  LET new == Edited(row, call[c]) IN
               /\ new.closed = row.closed
               /\ new.temp = IF call[c].temp = Unset THEN row.temp ELSE call[c].temp
    BY DEF Edited, Row
  <2>5. ASSUME NEW j \in Ids
        PROVE  /\ store'[j].closed = store[j].closed
               /\ store'[j].temp /\ j \notin toggled' => store[j].temp /\ j \notin toggled
    <3>1. store[j] \in Row
      BY DEF Typed, TypeOK
    <3>2. CASE j # call[c].id
      BY <2>2, <3>2 DEF Added
    <3>3. CASE j = call[c].id
      <4>1. store'[j] = Edited(store[j], call[c])
        BY <2>2, <3>3 DEF Added
      <4>2. /\ store'[j].closed = store[j].closed
            /\ store'[j].temp = IF call[c].temp = Unset THEN store[j].temp ELSE call[c].temp
        BY <2>4, <3>1, <4>1
      <4> QED
        BY <2>2, <2>3, <3>3, <4>2
    <3> QED
      BY <3>2, <3>3
  <2> QED
    BY <2>1, <2>2, <2>5, WrittenOpen DEF Present, Live
<1>8. ASSUME NEW c \in Calls, UpdateSpread(c) PROVE Fine
  <2>1. \A j \in Ids : store'[j].state = store[j].state /\ store'[j].main = store[j].main
    BY <1>8, UpdateSpreadSteps
  <2>2. ASSUME NEW row \in Row
        PROVE  LET new == Copied(row, mem[c].row, call[c].status) IN
               new.closed = row.closed /\ new.temp = row.temp
    BY DEF Copied, Row
  <2>3. \A j \in Ids :
           store'[j] = IF j \in Targets(call[c].id, mem[c].row.main)
                       THEN Copied(store[j], mem[c].row, call[c].status) ELSE store[j]
    BY <1>8 DEF UpdateSpread
  <2>4. \A j \in Ids : store'[j].closed = store[j].closed /\ store'[j].temp = store[j].temp
    BY <2>2, <2>3 DEF Typed, TypeOK
  <2>5. /\ Ends(c, "done") /\ call' = call /\ lastId' = lastId
        /\ toggled' = toggled /\ last' = last
    BY <1>8 DEF UpdateSpread
  <2>6. Others(c) /\ pc'[c] = "done" /\ mem'[c].todo \subseteq mem[c].todo
    BY <2>5, EndsTurns
  <2> QED
    BY <2>1, <2>4, <2>5, <2>6, WrittenOpen DEF Present, Live
<1>9. ASSUME NEW c \in Calls, DeleteStore(c) \/ DeleteBranch(c), ~Refused(c) PROVE Fine
  <2>1. PICK i \in Ids : store' = [store EXCEPT ![i].state = "deleted"] /\ Present(i)
    BY <1>9, Asked DEF DeleteStore, DeleteBranch, Typed
  <2>2. /\ Ends(c, "done") /\ call' = call /\ lastId' = lastId
        /\ toggled' = toggled /\ last' = last
    BY <1>9 DEF DeleteStore, DeleteBranch, aux
  <2>3. Others(c) /\ pc'[c] = "done" /\ mem'[c].todo \subseteq mem[c].todo
    BY <2>2, EndsTurns
  <2>4. \A j \in Ids :
           /\ store'[j].main = store[j].main /\ store'[j].closed = store[j].closed
           /\ store'[j].temp = store[j].temp
           /\ store'[j].state = IF j = i THEN "deleted" ELSE store[j].state
    BY <2>1 DEF Typed, TypeOK, Row
  <2> QED
    BY <2>1, <2>2, <2>3, <2>4, WrittenOpen DEF Present, Live
<1>10. ASSUME NEW c \in Calls, Purge(c) \/ DeleteStore(c) \/ DeleteBranch(c) PROVE Fine
  BY <1>3, <1>9, <1>10, PurgeOpen
<1>11. ASSUME NEW c \in Calls,
              CreateCommit(c) \/ BranchCommit(c) \/ CloseRead(c) \/ CloseWrite(c)
       PROVE  Fine
  BY <1>11, CommitOpen, CloseReadOpen, CloseWriteOpen
<1> QED
  BY <1>1, <1>4, <1>5, <1>6, <1>7, <1>8, <1>10, <1>11 DEF Next

\* What is temporarily closed is shown open only by the turn of another branch of
\* its main store that came last and was not closed itself, or by a pass that read
\* the flag before it was set: for any overlap of passes, updates, purges and
\* schedules, and however many branches a store has.
THEOREM OpenIsExplained == Spec => []OpenExplained
<1>1. Init => Turns /\ OpenExplained
  <2> SUFFICES ASSUME Init PROVE Turns /\ OpenExplained
    OBVIOUS
  <2>1. store \in Existing /\ \A c \in Calls : mem[c].todo = {}
    BY DEF Init, NoMem
  <2> QED
    BY <2>1, ExistingAssumption DEF Turns, OpenExplained
<1>2. /\ Typed /\ Rooted /\ Backed /\ Turns /\ OpenExplained
      /\ [Next]_vars
      => (Typed /\ Rooted /\ Backed /\ Turns /\ OpenExplained)'
  BY NextBacked, NextOpen DEF Backed
<1> QED
  BY <1>1, <1>2, InitBacked, PTL DEF Spec

=============================================================================
