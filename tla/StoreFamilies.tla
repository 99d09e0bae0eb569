--------------------------- MODULE StoreFamilies ---------------------------
(***************************************************************************)
(* Stores and branches (StoreService, BranchService, StoreHelperService,   *)
(* ScheduleService, PlanService.subscribe): a main store and its branches  *)
(* are rows of table store, and every branch keeps copies of what its main *)
(* store says.                                                             *)
(*   POST   /store         create       two rows in one transaction        *)
(*   POST   /branch        createBranch copies the main store's columns    *)
(*   PATCH  /store[/:id]   updateStore  three statements, no transaction   *)
(*   DELETE /store/:id, /branch/:id     soft deletes of one row            *)
(*   POST, DELETE schedule createSchedule: check, then insert              *)
(*   POST   /plan/:id/subscribe         reads, then a transaction          *)
(*   every minute          checkClosedStores                               *)
(*   every midnight        deleteNotVerifiedStores; nothing that runs ever *)
(*                         sets verified (StoreService.verifyStore has no  *)
(*                         caller), so it is about every store             *)
(*                                                                         *)
(* Each database call of a handler that runs outside a transaction is an   *)
(* action.  name stands for the columns that updateStore copies and nothing *)
(* else edits (names, logo, cover, times): not the delivery flags, which    *)
(* updateBranch sets for one branch.                                       *)
(***************************************************************************)
EXTENDS Integers

CONSTANTS
    Ids,            \* the autoincrement ids that may be used
    Names,          \* values of those columns
    Plans,          \* ids of plans
    DefaultPlan,    \* the default of column planId
    Paid,           \* the plans that have a price
    Times,          \* times of day of schedules
    Inputs,         \* what a call may ask
    Calls,          \* handler calls and cron passes
    Existing,       \* the rows of the table at the start
    BitOr(_, _),    \* JavaScript's | on two ids
    Unset           \* a field the body leaves out

Statuses == {"PENDING", "ACTIVE"}

\* from is the store of the vendor who calls, 0 for an admin; id is the store of
\* the path, the vendor's own when the path has none.
Update == [kind : {"update"}, from : Ids \cup {0}, id : Ids,
           name : Names \cup {Unset}, status : Statuses \cup {Unset},
           temp : BOOLEAN \cup {Unset}]

\* by is who calls create.  Other calls are one of a vendor (branch, schedule,
\* subscribe: id is the own store), of anyone with the permission, or a cron.
Request ==
    [kind : {"create"}, by : {"admin", "visitor"}, name : Names]
        \cup [kind : {"branch", "delete", "remove"}, id : Ids]
        \cup Update
        \cup [kind : {"schedule"}, id : Ids, open : Times, close : Times]
        \cup [kind : {"subscribe"}, id : Ids, plan : Plans]
        \cup [kind : {"close", "purge", "unschedule"}]

\* A row of table store.  first is column default, temp temporarilyClosed;
\* kin is auxiliary: the main store the row was created for.
Row == [state : {"none", "live", "deleted"}, main : Ids \cup {0},
        kin : Ids \cup {0}, first : BOOLEAN, name : Names \cup {Unset},
        status : Statuses, plan : Plans, temp : BOOLEAN, closed : BOOLEAN]

NoRow == [state |-> "none", main |-> 0, kin |-> 0, first |-> FALSE,
          name |-> Unset, status |-> "PENDING", plan |-> DefaultPlan,
          temp |-> FALSE, closed |-> TRUE]

\* A turn of checkClosedStores as far as it is kept: the branch, its main store and
\* its flag, as they were read.
Wrote == [id : Ids \cup {0}, main : Ids \cup {0}, temp : BOOLEAN]

NoTurn == [id |-> 0, main |-> 0, temp |-> FALSE]

ASSUME IdsAssumption == Ids \subseteq Nat \ {0}

ASSUME PlanAssumption == DefaultPlan \in Plans /\ Paid \subseteq Plans \ {DefaultPlan}

ASSUME TimesAssumption == Times \subseteq Nat

ASSUME ExistingAssumption ==
    /\ Existing \subseteq [Ids -> Row]
    /\ \A rows \in Existing, i \in Ids :
          LET m == rows[i].main IN
          /\ rows[i].plan = DefaultPlan
          /\ rows[i].temp => rows[i].closed
          /\ m # 0 => /\ m < i /\ rows[i].state # "none"
                      /\ rows[m].state # "none" /\ rows[m].main = 0
                      /\ rows[i].kin = m /\ rows[m].kin = m
                      /\ rows[i].status = rows[m].status
          /\ \A j \in Ids :
                /\ rows[i].state = "live" /\ rows[j].state = "live"
                /\ rows[i].name = rows[j].name
                => rows[i].kin = rows[j].kin

ASSUME InputsAssumption == Inputs \subseteq Request

ASSUME UnsetAssumption ==
    Unset \notin Names /\ Unset \notin Statuses /\ Unset \notin BOOLEAN

ASSUME BitOrAssumption == \A i, j \in Ids \cup {0} : BitOr(i, j) \in Nat

VARIABLES
    store,      \* table store
    lastId,     \* its autoincrement counter
    schedule,   \* table store_schedule: the rows of one day of the week
    subs,       \* table subscriptions
    call,       \* what each call asks
    pc,         \* the next step of each call
    mem,        \* what each call has read, and the id it holds
    crossed,    \* auxiliary: calls that another call overlapped
    repeated,   \* auxiliary: rows that got a name another family may have
    apart,      \* auxiliary: rows given a status the rest of the family was not
    toggled,    \* auxiliary: branches closed since checkClosedStores read them
    last        \* auxiliary: the turn that wrote closed last, for each row

aux == <<crossed, repeated, apart, toggled, last>>

tables == <<store, lastId, schedule, subs>>

vars == <<tables, call, pc, mem, aux>>

-----------------------------------------------------------------------------
(* The tables.                                                             *)

Present(i) == store[i].state # "none"

Live(i) == store[i].state = "live"

\* The rows `OR: [{ id }, { mainStoreId: id }]` selects, deleted ones too.
RowsOf(i) == {j \in Ids : Present(j) /\ (j = i \/ store[j].main = i)}

\* The rows that have the same main store, or are it.
Relatives(i) == RowsOf(IF store[i].main = 0 THEN i ELSE store[i].main)

Hours == SUBSET (Times \X Times)

\* What checkClosedStores reads of a branch.
Turn == [id : Ids, main : Ids, temp : BOOLEAN, hours : Hours]

Mem == [row : Row, id : Ids \cup {0}, todo : SUBSET Turn]

NoMem == [row |-> NoRow, id |-> 0, todo |-> {}]

PCs == {"idle", "checked", "inserted", "read", "written", "closing", "done",
        "refused", "failed"}

InFlight(c) == pc[c] \notin {"idle", "done", "refused", "failed"}

Init ==
    /\ store \in Existing
    /\ lastId \in {n \in Ids : Present(n)} \cup {0}
    /\ \A i \in Ids : Present(i) => i <= lastId
    /\ schedule = {}
    /\ subs = {}
    /\ call \in [Calls -> Inputs]
    /\ pc = [c \in Calls |-> "idle"]
    /\ mem = [c \in Calls |-> NoMem]
    /\ crossed = {}
    /\ repeated = {}
    /\ apart = {}
    /\ toggled = {}
    /\ last = [i \in Ids |-> NoTurn]

\* The call ends, and what it has read is forgotten.
Ends(c, end) ==
    /\ pc' = [pc EXCEPT ![c] = end]
    /\ mem' = [mem EXCEPT ![c] = NoMem]

Refused(c) == Ends(c, "refused") /\ UNCHANGED <<tables, call, aux>>

\* A call begins that reads what it relies on later; so did others that write
\* the same table.
Scheduling(c) == call[c].kind = "schedule"

Crosses(c) ==
    LET others == {d \in Calls \ {c} : /\ InFlight(d)
                                       /\ call[d].kind # "close"
                                       /\ Scheduling(d) <=> Scheduling(c)}
    IN  crossed' = IF others = {} THEN crossed ELSE crossed \cup others \cup {c}

Named(name) == {i \in Ids : Live(i) /\ store[i].name = name}

Added(i, row) == [j \in Ids |-> IF j = i THEN row ELSE store[j]]

\* access-token.strategy: a vendor's calls are refused unless the store is active.
Vendor(i) == Present(i) /\ store[i].status = "ACTIVE"

-----------------------------------------------------------------------------
(* StoreController.create.                                                 *)

\* Mutant: the name is not looked for.
CreateCheck_AnyName(c) ==
    /\ call[c].kind = "create"
    /\ pc[c] = "idle"
    /\ pc' = [pc EXCEPT ![c] = "checked"]
    /\ Crosses(c)
    /\ UNCHANGED <<tables, call, mem, repeated, apart, toggled, last>>

\* validateUnique: a name of a store that is not deleted is refused.
CreateCheck(c) ==
    /\ call[c].kind = "create"
    /\ pc[c] = "idle"
    /\ IF Named(call[c].name) # {} THEN Refused(c)
       ELSE /\ pc' = [pc EXCEPT ![c] = "checked"]
            /\ Crosses(c)
            /\ UNCHANGED <<tables, call, mem, repeated, apart, toggled, last>>

\* CreateStore: the main store is inserted by the transaction, so far unseen.
CreateInsert(c) ==
    /\ call[c].kind = "create"
    /\ pc[c] = "checked"
    /\ lastId + 1 \in Ids
    /\ lastId' = lastId + 1
    /\ mem' = [mem EXCEPT ![c].id = lastId + 1]
    /\ pc' = [pc EXCEPT ![c] = "inserted"]
    /\ UNCHANGED <<store, schedule, subs, call, aux>>

MainRow(c) ==
    [NoRow EXCEPT !.state = "live", !.kin = mem[c].id, !.name = call[c].name,
        !.status = IF call[c].by = "admin" THEN "ACTIVE" ELSE "PENDING"]

\* Mutant: a branch starts with the status the column has by default.
BranchRow_Default(main, row, default) ==
    [NoRow EXCEPT !.state = "live", !.main = main, !.kin = main,
        !.first = default, !.name = row.name]

\* createBranch: the branch copies what FindMainStore read.  The column plan
\* is not among it.
BranchRow(main, row, default) ==
    [NoRow EXCEPT !.state = "live", !.main = main, !.kin = main,
        !.first = default, !.name = row.name, !.status = row.status]

\* createBranch for the store just inserted, and the commit.
CreateCommit(c) ==
    LET m == mem[c].id
        b == lastId + 1
    IN  /\ call[c].kind = "create"
        /\ pc[c] = "inserted"
        /\ b \in Ids
        /\ lastId' = b
        /\ store' = [i \in Ids |-> IF i = m THEN MainRow(c)
                                   ELSE IF i = b THEN BranchRow(m, MainRow(c), TRUE)
                                   ELSE store[i]]
        /\ repeated' = IF c \in crossed THEN repeated \cup {m, b} ELSE repeated
        /\ Ends(c, "done")
        /\ UNCHANGED <<schedule, subs, call, crossed, apart, toggled, last>>

-----------------------------------------------------------------------------
(* BranchController.createBranch, by the vendor of store call[c].id.       *)

\* returnUnique, and FindMainStore in the transaction.  Without a row, or for
\* a row whose main store is null, a query fails.
BranchRead(c) ==
    LET i == call[c].id
        m == store[i].main
    IN  /\ call[c].kind = "branch"
        /\ pc[c] = "idle"
        /\ IF ~Vendor(i) \/ m = 0 THEN Refused(c)
           ELSE /\ mem' = [mem EXCEPT ![c] = [@ EXCEPT !.id = m, !.row = store[m]]]
                /\ pc' = [pc EXCEPT ![c] = "read"]
                /\ Crosses(c)
                /\ UNCHANGED <<tables, call, repeated, apart, toggled, last>>

\* store.create and the commit; the foreign key mainStoreId is checked.
BranchCommit(c) ==
    LET m == mem[c].id
        b == lastId + 1
    IN  /\ call[c].kind = "branch"
        /\ pc[c] = "read"
        /\ b \in Ids
        /\ Present(m)
        /\ lastId' = b
        /\ store' = Added(b, BranchRow(m, mem[c].row, FALSE))
        /\ repeated' = IF c \in crossed \/ ~Live(m) \/ m \in repeated
                        THEN repeated \cup {b} ELSE repeated
        /\ apart' = IF c \in crossed THEN apart \cup {b} ELSE apart
        /\ Ends(c, "done")
        /\ UNCHANGED <<schedule, subs, call, crossed, toggled, last>>

-----------------------------------------------------------------------------
(* StoreController.updateStore.                                            *)

\* The store to update need not be the vendor's; a vendor must not set the status.
UpdateAllowed(c) ==
    /\ Present(call[c].id)
    /\ call[c].from # 0 => Vendor(call[c].from) /\ call[c].status = Unset

\* The store whose name validateUnique accepts, whichever store is updated: the
\* main store of the vendor who calls.
Own(c) ==
    LET i == call[c].from IN
    IF i = 0 THEN {} ELSE {IF store[i].main = 0 THEN i ELSE store[i].main}

\* A vendor updates a store of another family.
Foreign(c) ==
    call[c].from # 0 /\ store[call[c].from].kin # store[call[c].id].kin

\* validateUnique: any row with the name may be the one findFirst returns.
NameFree(c) ==
    LET rows == Named(call[c].name)
    IN  call[c].name = Unset \/ rows = {} \/ Own(c) \cap rows # {}

NameTaken(c) == call[c].name # Unset /\ Named(call[c].name) \ Own(c) # {}

UpdateCheck(c) ==
    /\ call[c].kind = "update"
    /\ pc[c] = "idle"
    /\ \/ /\ UpdateAllowed(c) /\ NameFree(c)
          /\ pc' = [pc EXCEPT ![c] = "checked"]
          /\ Crosses(c)
          /\ repeated' = IF \/ Named(call[c].name) \cap repeated # {}
                            \/ Named(call[c].name) # {} /\ Foreign(c)
                         THEN repeated \cup {call[c].id} ELSE repeated
          /\ UNCHANGED <<tables, call, mem, apart, toggled, last>>
       \/ /\ ~UpdateAllowed(c) \/ NameTaken(c)
          /\ Refused(c)

\* Mutant: a field the body leaves out is written too.
Edited_Raw(row, body) == [row EXCEPT !.name = body.name, !.temp = body.temp]

\* prepareUpdateStoreData: the fields of the body, but not the status.
Edited(row, body) ==
    [row EXCEPT !.name = IF body.name = Unset THEN @ ELSE body.name,
                !.temp = IF body.temp = Unset THEN @ ELSE body.temp]

\* store.update
UpdateRow(c) ==
    LET i == call[c].id IN
    /\ call[c].kind = "update"
    /\ pc[c] = "checked"
    /\ Present(i)
    /\ store' = Added(i, Edited(store[i], call[c]))
    /\ repeated' = IF call[c].name # Unset /\ c \in crossed
                   THEN repeated \cup {i} ELSE repeated
    /\ toggled' = IF call[c].temp = TRUE THEN toggled \cup {i} ELSE toggled
    /\ pc' = [pc EXCEPT ![c] = "written"]
    /\ UNCHANGED <<lastId, schedule, subs, call, mem, crossed, apart, last>>

\* store.findUnique
UpdateRead(c) ==
    LET i == call[c].id IN
    /\ call[c].kind = "update"
    /\ pc[c] = "written"
    /\ Present(i)
    /\ mem' = [mem EXCEPT ![c].row = store[i]]
    /\ pc' = [pc EXCEPT ![c] = "read"]
    /\ UNCHANGED <<tables, call, aux>>

\* The rows the last statement writes: `mainStoreId | id` combines the bits.
Targets(i, main) ==
    LET k == BitOr(main, i)
    IN  RowsOf(i) \cup {j \in Ids : Present(j) /\ (j = k \/ store[j].main = k)}

\* store.updateMany: the copied columns as they were read, and the status.
Copied(row, from, status) ==
    [row EXCEPT !.name = from.name, !.plan = from.plan,
                !.status = IF status = Unset THEN @ ELSE status]

UpdateSpread(c) ==
    LET i == call[c].id
        from == mem[c].row
        rows == Targets(i, from.main)
        strange == {j \in rows : store[j].kin # from.kin}
        partly == {j \in rows : ~(Relatives(j) \subseteq rows)}
    IN  /\ call[c].kind = "update"
        /\ pc[c] = "read"
        /\ store' = [j \in Ids |-> IF j \in rows
                                   THEN Copied(store[j], from, call[c].status)
                                   ELSE store[j]]
        /\ repeated' = repeated \cup
                         (IF c \in crossed \/ i \in repeated \/ from.state # "live"
                          THEN rows ELSE strange)
        /\ apart' = IF call[c].status = Unset THEN apart ELSE apart \cup partly
        /\ Ends(c, "done")
        /\ UNCHANGED <<lastId, schedule, subs, call, crossed, toggled, last>>

-----------------------------------------------------------------------------
(* Deletes.                                                                *)

\* deleteStore; prisma.softdelete.middleware turns it into an update.
DeleteStore(c) ==
    LET i == call[c].id IN
    /\ call[c].kind = "delete"
    /\ pc[c] = "idle"
    /\ IF ~Present(i) THEN Refused(c)
       ELSE /\ store' = [store EXCEPT ![i].state = "deleted"]
            /\ Ends(c, "done")
            /\ UNCHANGED <<lastId, schedule, subs, call, aux>>

\* deleteBranch: not the branch a store was created with.
DeleteBranch(c) ==
    LET i == call[c].id IN
    /\ call[c].kind = "remove"
    /\ pc[c] = "idle"
    /\ IF ~Present(i) \/ (store[i].main # 0 /\ store[i].first) THEN Refused(c)
       ELSE /\ store' = [store EXCEPT ![i].state = "deleted"]
            /\ Ends(c, "done")
            /\ UNCHANGED <<lastId, schedule, subs, call, aux>>

\* deleteNotVerifiedStores: the rows older than a day, which are those with
\* the smallest ids, are gone; their branches lose the main store, and their
\* schedules go with them.  A row that a withdrawal or an add-on relies on
\* makes the whole statement fail.
Purge(c) ==
    /\ call[c].kind = "purge"
    /\ pc[c] = "idle"
    /\ \/ Refused(c)
       \/ \E n \in Ids :
             LET old == {i \in Ids : Present(i) /\ i <= n} IN
             /\ store' = [i \in Ids |->
                            IF i \in old THEN NoRow
                            ELSE IF store[i].main \in old
                                 THEN [store[i] EXCEPT !.main = 0]
                            ELSE store[i]]
             /\ schedule' = {s \in schedule : s.store \notin old}
             /\ Ends(c, "done")
             /\ UNCHANGED <<lastId, subs, call, aux>>

-----------------------------------------------------------------------------
(* ScheduleController.                                                     *)

\* Mutant: gt for gte.
Clash_Strict(m, open) == {s \in schedule : s.store = m /\ s.close > open}

\* scheduleExist, for the day of the week of the body.
Clash(m, open) == {s \in schedule : s.store = m /\ s.close >= open}

\* returnUnique, createSchedule up to scheduleExist, which ran before as well.
ScheduleCheck(c) ==
    LET i == call[c].id
        m == store[i].main
    IN  /\ call[c].kind = "schedule"
        /\ pc[c] = "idle"
        /\ IF ~Vendor(i) \/ m = 0 \/ call[c].close <= call[c].open
              \/ Clash(m, call[c].open) # {}
           THEN Refused(c)
           ELSE /\ mem' = [mem EXCEPT ![c].id = m]
                /\ pc' = [pc EXCEPT ![c] = "checked"]
                /\ Crosses(c)
                /\ UNCHANGED <<tables, call, repeated, apart, toggled, last>>

\* storeSchedule.create; by is auxiliary.
ScheduleInsert(c) ==
    /\ call[c].kind = "schedule"
    /\ pc[c] = "checked"
    /\ Present(mem[c].id)
    /\ schedule' = schedule \cup {[store |-> mem[c].id, open |-> call[c].open,
                                   close |-> call[c].close, by |-> c]}
    /\ Ends(c, "done")
    /\ UNCHANGED <<store, lastId, subs, call, aux>>

\* deleteSchedule
Unschedule(c) ==
    /\ call[c].kind = "unschedule"
    /\ pc[c] = "idle"
    /\ IF schedule = {} THEN Refused(c)
       ELSE /\ \E s \in schedule : schedule' = schedule \ {s}
            /\ Ends(c, "done")
            /\ UNCHANGED <<store, lastId, subs, call, aux>>

-----------------------------------------------------------------------------
(* PlanController.subscribe, by the vendor of store call[c].id.            *)

\* The strategy reads mainStoreId, and the controller takes mainStoreId ||
\* storeId; then checkSubscribe.
SubscribeRead(c) ==
    LET i == call[c].id IN
    /\ call[c].kind = "subscribe"
    /\ pc[c] = "idle"
    /\ IF ~Vendor(i) \/ call[c].plan \notin Paid THEN Refused(c)
       ELSE /\ mem' = [mem EXCEPT ![c].id = IF store[i].main = 0 THEN i ELSE store[i].main]
            /\ pc' = [pc EXCEPT ![c] = "read"]
            /\ UNCHANGED <<tables, call, aux>>

\* Mutant: the vendor's main store is read as a branch's is.
SubscribeFails_Absent(s) == ~Present(s)

\* `{ id: store.mainStoreId }`: Prisma refuses null for the column id, and the
\* statements before it are rolled back.
SubscribeFails(s) == ~Present(s) \/ store[s].main = 0

\* The transaction: the subscription is active and the family has the plan.
SubscribeCommit(c) ==
    LET s == mem[c].id
        family == RowsOf(store[s].main) \cup RowsOf(s)
    IN  /\ call[c].kind = "subscribe"
        /\ pc[c] = "read"
        /\ IF SubscribeFails(s) THEN Refused(c)
           ELSE /\ subs' = subs \cup {[store |-> s, plan |-> call[c].plan]}
                /\ store' = [i \in Ids |-> IF i \in family
                                           THEN [store[i] EXCEPT !.plan = call[c].plan]
                                           ELSE store[i]]
                /\ Ends(c, "done")
                /\ UNCHANGED <<lastId, schedule, call, aux>>

-----------------------------------------------------------------------------
(* checkClosedStores.                                                      *)

HoursOf(m) == {<<s.open, s.close>> : s \in {t \in schedule : t.store = m}}

Branches == {i \in Ids : Live(i) /\ store[i].main # 0}

TurnOf(i) == [id |-> i, main |-> store[i].main, temp |-> store[i].temp,
              hours |-> HoursOf(store[i].main)]

\* store.findMany: every branch with its flag and the hours of its main store.
CloseRead(c) ==
    /\ call[c].kind = "close"
    /\ pc[c] = "idle"
    /\ mem' = [mem EXCEPT ![c].todo = {TurnOf(i) : i \in Branches}]
    /\ pc' = [pc EXCEPT ![c] = "closing"]
    /\ UNCHANGED <<tables, call, aux>>

\* isStoreClosed
IsStoreClosed(hours, now) == \A h \in hours : ~(h[1] <= now /\ now <= h[2])

\* Mutant: the flag temporarilyClosed is left out.
CloseValue_IgnoresFlag(b, now) == IsStoreClosed(b.hours, now)

CloseValue(b, now) == b.temp \/ IsStoreClosed(b.hours, now)

\* One turn of the loop: store.updateMany for the family of one branch.
CloseWrite(c) ==
    /\ call[c].kind = "close"
    /\ pc[c] = "closing"
    /\ \E b \in mem[c].todo, now \in Times :
          /\ store' = [i \in Ids |->
                         IF i \in RowsOf(b.main)
                         THEN [store[i] EXCEPT !.closed = CloseValue(b, now)]
                         ELSE store[i]]
          /\ last' = [i \in Ids |->
                        IF i \in RowsOf(b.main)
                        THEN [id |-> b.id, main |-> b.main, temp |-> b.temp]
                        ELSE last[i]]
          /\ toggled' = IF store[b.id].temp = b.temp THEN toggled \ {b.id}
                                                     ELSE toggled \cup {b.id}
          /\ mem' = [mem EXCEPT ![c].todo = @ \ {b}]
    /\ UNCHANGED <<lastId, schedule, subs, call, pc, crossed, repeated, apart>>

CloseEnd(c) ==
    /\ call[c].kind = "close"
    /\ pc[c] = "closing"
    /\ mem[c].todo = {}
    /\ Ends(c, "done")
    /\ UNCHANGED <<tables, call, aux>>

\* A restart, a lost connection, a row that is not there any more: what a
\* transaction wrote is rolled back, what single statements wrote stays.
FailCall(c) ==
    /\ InFlight(c)
    /\ Ends(c, "failed")
    /\ UNCHANGED <<tables, call, aux>>

Next ==
    \E c \in Calls :
        \/ CreateCheck(c) \/ CreateInsert(c) \/ CreateCommit(c)
        \/ BranchRead(c) \/ BranchCommit(c)
        \/ UpdateCheck(c) \/ UpdateRow(c) \/ UpdateRead(c) \/ UpdateSpread(c)
        \/ DeleteStore(c) \/ DeleteBranch(c) \/ Purge(c)
        \/ ScheduleCheck(c) \/ ScheduleInsert(c) \/ Unschedule(c)
        \/ SubscribeRead(c) \/ SubscribeCommit(c)
        \/ CloseRead(c) \/ CloseWrite(c) \/ CloseEnd(c)
        \/ FailCall(c)

Spec == Init /\ [][Next]_vars

-----------------------------------------------------------------------------
(* Properties                                                              *)

\* Type correctness of the tables and of the calls on them.
TypeOK ==
    /\ store \in [Ids -> Row]
    /\ lastId \in Ids \cup {0}
    /\ schedule \subseteq [store : Ids, open : Times, close : Times, by : Calls]
    /\ subs \subseteq [store : Ids, plan : Plans]
    /\ call \in [Calls -> Inputs]
    /\ pc \in [Calls -> PCs]
    /\ mem \in [Calls -> Mem]
    /\ crossed \subseteq Calls
    /\ repeated \subseteq Ids
    /\ apart \subseteq Ids
    /\ toggled \subseteq Ids
    /\ last \in [Ids -> Wrote]

\* A branch has the status of its main store, so that suspending a store closes
\* its branches: unless the branch was created while another call ran, or an
\* update addressed to a branch gave a status to part of a family.
StatusAgrees ==
    \A i \in Ids :
        LET m == store[i].main IN
        Present(i) /\ m # 0 /\ {i, m} \cap apart = {} => store[i].status = store[m].status

\* validateUnique keeps the names of stores apart although no index does: two
\* families share a name only if one of the rows was written by calls that
\* overlapped, from a deleted store, by the updateMany of another family, by a
\* vendor who gave a store of another family the name of the own one, or got the
\* name from such a row, by a copy or by a check that found it.
NamesApart ==
    \A i, j \in Ids :
        /\ Live(i) /\ Live(j)
        /\ store[i].kin # store[j].kin
        /\ store[i].name = store[j].name
        => {i, j} \cap repeated # {}

\* A branch that is temporarily closed is shown open only because of the turn of
\* another branch of its main store, not closed itself, that came last in
\* checkClosedStores, or because it was closed after its own flag was read.
OpenExplained ==
    \A i \in Ids :
        /\ Live(i) /\ store[i].main # 0
        /\ store[i].temp /\ ~store[i].closed
        /\ i \notin toggled
        => /\ last[i].id \in Ids \ {i}
           /\ last[i].main = store[i].main
           /\ ~last[i].temp

\* The hours of one store overlap only if calls of createSchedule did.
SchedulesDisjoint ==
    \A s, t \in schedule :
        /\ s # t /\ s.store = t.store
        /\ s.open <= t.close /\ t.open <= s.close
        => {s.by, t.by} \cap crossed # {}

\* A main store is there and has no main store of its own, whatever is created,
\* purged and failed.  So no call of subscribe ever reaches its end, and every
\* store keeps the plan it was created with.
NothingSubscribed ==
    /\ subs = {}
    /\ \A i \in Ids :
          /\ store[i].plan = DefaultPlan
          /\ store[i].main # 0 =>
                Present(store[i].main) /\ store[store[i].main].main = 0

\* What checkSubscribe announces, `check if the user can subscribe`: a call it
\* lets pass, for stores nobody purges, is not refused afterwards.
CheckedSubscribes ==
    \A c \in Calls :
        /\ call[c].kind = "subscribe" /\ call[c].plan \in Paid
        /\ \A d \in Calls : call[d].kind # "purge"
        /\ Vendor(call[c].id)
        => pc[c] # "refused"

=============================================================================
