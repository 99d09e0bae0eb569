-------------------------- MODULE RegisterOtpProofs --------------------------
(***************************************************************************)
(* Theorems about RegisterOtp for any number of calls, phones, roles and   *)
(* codes, for every window and every bound on the delay of a lookup.        *)
(***************************************************************************)
EXTENDS RegisterOtp, FiniteSetTheorems, TLAPS

LEMMA AgeFacts ==
    /\ 0 \in Ages
    /\ \A a \in Ages : Older(a) \in Ages
    /\ \A a, b \in Ages : a <= b => Older(a) <= Older(b)
    /\ \A a \in Ages, d \in 0 .. Delay : a - d \in -Delay .. Old
  BY WindowAssumption DEF Ages, Older, Old

LEMMA NewRowType ==
    ASSUME TypeOK, NEW g \in Generations
    PROVE  Created(g) \in Row /\ (Present(slot[g]) => Updated(g) \in Row)
  BY AgeFacts DEF TypeOK, Created, Updated, Row

LEMMA StepTyped == TypeOK /\ [Next]_vars => TypeOK'
<1> SUFFICES ASSUME TypeOK, [Next]_vars PROVE TypeOK'
  OBVIOUS
<1> USE DEF gvars, vvars
<1>1. ASSUME NEW g \in Generations, GenRead(g) PROVE TypeOK'
  <2>1. row[slot[g]].times \in Nat
    BY DEF TypeOK, Row
  <2> QED
    BY <1>1, <2>1, AgeFacts DEF TypeOK, GenRead, GPCs
<1>2. ASSUME NEW g \in Generations, GenUpsert(g) PROVE TypeOK'
  <2> DEFINE new == IF Present(slot[g]) THEN Updated(g) ELSE Created(g)
  <2>1. new \in Row
    BY NewRowType
  <2>2. new.times \in Nat
    BY <2>1 DEF Row
  <2>3. new.life \in Generations \cup {Nobody}
    BY <2>1 DEF Row
  <2>4. /\ row' = [row EXCEPT ![slot[g]] = new]
        /\ count' = [count EXCEPT ![g] = new.times]
        /\ life' = [life EXCEPT ![g] = new.life]
    BY <1>2 DEF GenUpsert
  <2> HIDE DEF new
  <2>5. row' \in [Slots -> Row]
    BY <2>1, <2>4 DEF TypeOK
  <2>6. count' \in [Generations -> Nat]
    BY <2>2, <2>4 DEF TypeOK
  <2>7. life' \in [Generations -> Generations \cup {Nobody}]
    BY <2>3, <2>4 DEF TypeOK
  <2> QED
    BY <1>2, <2>5, <2>6, <2>7, AgeFacts DEF TypeOK, GenUpsert, GPCs
<1>3. ASSUME NEW g \in Generations, GenSend(g) PROVE TypeOK'
  BY <1>3 DEF TypeOK, GenSend, GPCs
<1>4. ASSUME NEW g \in Generations, GenFail(g) PROVE TypeOK'
  BY <1>4, AgeFacts DEF TypeOK, GenFail, GPCs
<1>5. ASSUME NEW v \in Verifications, NEW otp \in Codes, VerifyRead(v, otp)
      PROVE  TypeOK'
  <2>1. 0 \in 0 .. Delay
    BY WindowAssumption
  <2>2. \A s \in Slots : /\ row[s].gen \in Generations \cup {Nobody}
                         /\ row[s].wrote - asked[v] \in -Delay .. Old
    <3>1. \A s \in Slots : row[s].wrote \in Ages
      BY DEF TypeOK, Row
    <3>2. asked[v] \in 0 .. Delay
      BY DEF TypeOK
    <3> QED
      BY <3>1, <3>2, AgeFacts DEF TypeOK, Row
  <2>3. asked' \in [Verifications -> 0 .. Delay]
    BY <1>5, <2>1 DEF TypeOK, VerifyRead
  <2>4. foundAge' \in [Verifications -> -Delay .. Old]
    BY <1>5, <2>2 DEF TypeOK, VerifyRead, Matching
  <2>5. found' \in [Verifications -> Generations \cup {Nobody}]
    BY <1>5, <2>2 DEF TypeOK, VerifyRead, Matching
  <2> QED
    BY <1>5, <2>3, <2>4, <2>5 DEF TypeOK, VerifyRead, VPCs
<1>6. ASSUME NEW v \in Verifications, VerifyDelete(v) PROVE TypeOK'
  <2>1. NoRow \in Row
    BY AgeFacts DEF NoRow, Row
  <2> QED
    BY <1>6, <2>1 DEF TypeOK, VerifyDelete, VPCs
<1>7. ASSUME NEW v \in Verifications, VerifyFail(v) \/ VerifyAsk(v) PROVE TypeOK'
  <2>1. 0 \in 0 .. Delay
    BY WindowAssumption
  <2> QED
    BY <1>7, <2>1 DEF TypeOK, VerifyFail, VerifyAsk, VPCs
<1>8. CASE Tick
  <2>1. \A g \in Generations : stamp[g] \in Ages
    BY DEF TypeOK
  <2>2. stamp' \in [Generations -> Ages]
    BY <1>8, <2>1, AgeFacts DEF Tick
  <2> DEFINE aged(s) ==
        [row[s] EXCEPT !.age = IF Present(s) THEN Older(@) ELSE 0,
                       !.wrote = IF Present(s) THEN Older(@) ELSE 0]
  <2>3. ASSUME NEW s \in Slots PROVE aged(s) \in Row
    <3>1. row[s] \in Row
      BY DEF TypeOK
    <3>2. /\ (IF Present(s) THEN Older(row[s].age) ELSE 0) \in Ages
          /\ (IF Present(s) THEN Older(row[s].wrote) ELSE 0) \in Ages
      BY <3>1, AgeFacts DEF Row
    <3> QED
      BY <3>1, <3>2 DEF Row
  <2>4. row' = [s \in Slots |-> aged(s)]
    BY <1>8 DEF Tick
  <2> HIDE DEF aged
  <2>5. row' \in [Slots -> Row]
    BY <2>3, <2>4
  <2>6. asked' \in [Verifications -> 0 .. Delay]
    <3>1. \A v \in Verifications : asked[v] \in 0 .. Delay
      BY DEF TypeOK
    <3>2. /\ \A v \in Verifications : Waiting(v) => asked[v] < Delay
          /\ asked' = [v \in Verifications |->
                         IF Waiting(v) THEN asked[v] + 1 ELSE asked[v]]
      BY <1>8, Zenon DEF Tick
    <3>3. \A v \in Verifications : Waiting(v) => asked[v] + 1 \in 0 .. Delay
      BY <3>1, <3>2, WindowAssumption
    <3> QED
      BY <3>1, <3>2, <3>3
  <2> QED
    BY <1>8, <2>2, <2>5, <2>6 DEF TypeOK, Tick
<1>9. CASE UNCHANGED vars
  BY <1>9 DEF TypeOK, vars
<1> QED
  BY <1>1, <1>2, <1>3, <1>4, <1>5, <1>6, <1>7, <1>8, <1>9 DEF Next

\* Type correctness of the codes, the rows and the calls.
THEOREM TypeCorrect == Spec => []TypeOK
<1>1. 0 \in 0 .. Delay /\ 0 \in -Delay .. Old
  BY WindowAssumption DEF Old
<1>2. Init => TypeOK
  BY <1>1, AgeFacts DEF Init, TypeOK, Row, NoRow, GPCs, VPCs
<1> QED
  BY <1>2, StepTyped, PTL DEF Spec

-----------------------------------------------------------------------------
\* The age of createdAt is at least the time since the row was last written:
\* the refresh never writes a date later than the write itself.
FreshInvariant ==
    /\ \A s \in Slots : row[s].wrote <= row[s].age
    /\ AcceptedFresh

LEMMA StepFresh == TypeOK /\ FreshInvariant /\ [Next]_vars => FreshInvariant'
<1> SUFFICES ASSUME TypeOK, FreshInvariant, [Next]_vars PROVE FreshInvariant'
  OBVIOUS
<1> USE DEF gvars, vvars
<1>1. ASSUME NEW g \in Generations, GenUpsert(g) PROVE FreshInvariant'
  <2> DEFINE new == IF Present(slot[g]) THEN Updated(g) ELSE Created(g)
  <2>1. new.wrote = 0 /\ new.age \in Ages
    <3>1. new \in Row
      BY NewRowType
    <3> QED
      BY <3>1 DEF Row, Updated, Created
  <2>2. row' = [row EXCEPT ![slot[g]] = new]
    BY <1>1 DEF GenUpsert
  <2> HIDE DEF new
  <2>3. \A s \in Slots : row'[s].wrote <= row'[s].age
    <3> SUFFICES ASSUME NEW s \in Slots PROVE row'[s].wrote <= row'[s].age
      OBVIOUS
    <3>1. row'[s] = new \/ row'[s] = row[s]
      BY <2>2 DEF TypeOK
    <3>2. 0 <= new.age
      BY <2>1 DEF Ages
    <3> QED
      BY <2>1, <3>1, <3>2 DEF FreshInvariant
  <2> QED
    BY <1>1, <2>3 DEF FreshInvariant, AcceptedFresh, GenUpsert
<1>2. ASSUME NEW v \in Verifications, NEW otp \in Codes, VerifyRead(v, otp)
      PROVE  FreshInvariant'
  <2>1. \A s \in Slots : row[s].age <= Window + asked[v] =>
                             row[s].wrote - asked[v] <= Window
    <3> SUFFICES ASSUME NEW s \in Slots, row[s].age <= Window + asked[v]
                 PROVE  row[s].wrote - asked[v] <= Window
      OBVIOUS
    <3>1. /\ row[s].age \in Int /\ row[s].wrote \in Int
          /\ Window \in Int /\ asked[v] \in Int
      BY WindowAssumption DEF TypeOK, Row, Ages, Old
    <3> QED
      BY <3>1 DEF FreshInvariant
  <2> QED
    BY <1>2, <2>1 DEF FreshInvariant, AcceptedFresh, VerifyRead, Matching, TypeOK
<1>3. ASSUME NEW v \in Verifications, VerifyDelete(v) PROVE FreshInvariant'
  BY <1>3 DEF FreshInvariant, AcceptedFresh, VerifyDelete, NoRow, TypeOK
<1>4. ASSUME NEW v \in Verifications, VerifyFail(v) \/ VerifyAsk(v)
      PROVE  FreshInvariant'
  BY <1>4 DEF FreshInvariant, AcceptedFresh, VerifyFail, VerifyAsk, TypeOK
<1>5. CASE Tick
  <2>1. \A s \in Slots : row'[s].wrote <= row'[s].age
    <3> SUFFICES ASSUME NEW s \in Slots PROVE row'[s].wrote <= row'[s].age
      OBVIOUS
    <3>1. row[s].age \in Ages /\ row[s].wrote \in Ages
      BY DEF TypeOK, Row
    <3>2. /\ row'[s].age = IF Present(s) THEN Older(row[s].age) ELSE 0
          /\ row'[s].wrote = IF Present(s) THEN Older(row[s].wrote) ELSE 0
      BY <1>5 DEF Tick, TypeOK, Row
    <3> QED
      BY <3>1, <3>2, AgeFacts DEF FreshInvariant
  <2> QED
    BY <1>5, <2>1 DEF FreshInvariant, AcceptedFresh, Tick
<1>6. CASE UNCHANGED <<row, vpc, foundAge>>
  BY <1>6 DEF FreshInvariant, AcceptedFresh
<1> QED
  BY <1>1, <1>2, <1>3, <1>4, <1>5, <1>6 DEF Next, GenRead, GenSend, GenFail, vars

\* A code is accepted only when it was stored within the window before the
\* verification computed its cutoff, for any number of overlapping requests and
\* whatever passes between the cutoff and the lookup.
THEOREM AcceptedIsFresh == Spec => []AcceptedFresh
<1>1. Init => FreshInvariant
  BY DEF Init, FreshInvariant, AcceptedFresh, NoRow
<1> QED
  BY <1>1, TypeCorrect, StepFresh, PTL DEF Spec, FreshInvariant

-----------------------------------------------------------------------------
(* Which generation wrote what.  life[g] # Nobody says that g has written. *)

NotYet(g) == gpc[g] \in {"idle", "read"}

\* A generation has a life from its upsert on.
LivesBegin ==
    \A g \in Generations : /\ NotYet(g) => life[g] = Nobody
                           /\ Wrote(g) => life[g] # Nobody

\* A row shows the slot, the life and the count of its last writer.
RowsMatchWriters ==
    \A s \in Slots : Present(s) =>
        /\ row[s].gen \in Generations
        /\ slot[row[s].gen] = s
        /\ row[s].life \in Generations
        /\ life[row[s].gen] = row[s].life
        /\ count[row[s].gen] = row[s].times

\* The creator of a row belongs to its life and to its slot.
CreatorsInLife ==
    \A g \in Generations : life[g] # Nobody =>
        life[life[g]] = life[g] /\ slot[life[g]] = slot[g]

\* The counts stored in one life differ, have no gaps and end with the row's.
CountsBounded ==
    \A g \in Generations, s \in Slots :
        life[g] # Nobody /\ Present(s) /\ row[s].life = life[g]
            => count[g] <= row[s].times

CountsDiffer ==
    \A g, h \in Generations :
        g # h /\ life[g] # Nobody /\ life[h] = life[g] => count[g] # count[h]

CountsFromZero ==
    \A g \in Generations : life[g] # Nobody =>
        \A j \in 0 .. count[g] :
            \E h \in Generations : life[h] = life[g] /\ count[h] = j

LifeInvariant ==
    /\ LivesBegin
    /\ RowsMatchWriters
    /\ CreatorsInLife
    /\ CountsBounded
    /\ CountsDiffer
    /\ CountsFromZero

\* What a step other than an upsert leaves alone.
Quiet ==
    /\ UNCHANGED <<slot, count, life>>
    /\ \A s \in Slots :
          \/ row'[s].gen = Nobody
          \/ /\ row'[s].gen = row[s].gen
             /\ row'[s].life = row[s].life
             /\ row'[s].times = row[s].times
    /\ \A g \in Generations : /\ gpc'[g] \in {"idle", "read"} => NotYet(g)
                              /\ Wrote(g)' => Wrote(g)

LEMMA QuietSteps ==
    ASSUME TypeOK, [Next]_vars, ~\E g \in Generations : GenUpsert(g)
    PROVE  Quiet
<1> USE DEF gvars, vvars, NotYet, Wrote
<1>1. ASSUME NEW g \in Generations, GenRead(g) PROVE Quiet
  BY <1>1 DEF TypeOK, GenRead, Quiet
<1>2. ASSUME NEW g \in Generations, GenSend(g) PROVE Quiet
  BY <1>2 DEF TypeOK, GenSend, Quiet
<1>3. ASSUME NEW g \in Generations, GenFail(g) PROVE Quiet
  BY <1>3 DEF TypeOK, GenFail, Quiet
<1>4. ASSUME NEW v \in Verifications, NEW otp \in Codes, VerifyRead(v, otp)
      PROVE  Quiet
  BY <1>4 DEF TypeOK, VerifyRead, Quiet
<1>5. ASSUME NEW v \in Verifications, VerifyDelete(v) PROVE Quiet
  BY <1>5 DEF TypeOK, VerifyDelete, NoRow, Quiet
<1>6. ASSUME NEW v \in Verifications, VerifyFail(v) \/ VerifyAsk(v) PROVE Quiet
  BY <1>6 DEF TypeOK, VerifyFail, VerifyAsk, Quiet
<1>7. CASE Tick
  BY <1>7 DEF TypeOK, Tick, Row, Quiet
<1>8. CASE UNCHANGED vars
  BY <1>8 DEF vars, Quiet
<1> QED
  BY <1>1, <1>2, <1>3, <1>4, <1>5, <1>6, <1>7, <1>8 DEF Next

LEMMA QuietKeepsLives ==
    ASSUME TypeOK, LifeInvariant, Quiet
    PROVE  LifeInvariant'
<1>1. LivesBegin'
  BY DEF LifeInvariant, LivesBegin, Quiet, NotYet
<1>2. RowsMatchWriters'
  BY DEF LifeInvariant, RowsMatchWriters, Quiet, Present
<1>3. CreatorsInLife' /\ CountsDiffer' /\ CountsFromZero'
  BY DEF LifeInvariant, CreatorsInLife, CountsDiffer, CountsFromZero, Quiet
<1>4. CountsBounded'
  BY DEF LifeInvariant, CountsBounded, Quiet, Present
<1> QED
  BY <1>1, <1>2, <1>3, <1>4 DEF LifeInvariant

LEMMA UpsertKeepsLives ==
    ASSUME TypeOK, LifeInvariant, NEW g \in Generations, GenUpsert(g)
    PROVE  LifeInvariant'
<1> DEFINE s == slot[g]
           new == IF Present(s) THEN Updated(g) ELSE Created(g)
<1>1. /\ life[g] = Nobody
      /\ \A h \in Generations : life[h] # g
  BY NobodyAssumption
     DEF LifeInvariant, LivesBegin, CreatorsInLife, GenUpsert, NotYet
<1>2. /\ s \in Slots /\ new \in Row
      /\ new.gen = g
      /\ new.life \in Generations
      /\ new.times \in Nat
  <2>1. s \in Slots /\ new \in Row
    BY NewRowType DEF TypeOK
  <2>2. new.gen = g
    BY DEF Updated, Created
  <2>3. new.life \in Generations
    BY <2>1 DEF Updated, Created, LifeInvariant, RowsMatchWriters
  <2> QED
    BY <2>1, <2>2, <2>3 DEF Row
<1>3. /\ row' = [row EXCEPT ![s] = new]
      /\ count' = [count EXCEPT ![g] = new.times]
      /\ life' = [life EXCEPT ![g] = new.life]
      /\ gpc' = [gpc EXCEPT ![g] = "written"]
      /\ slot' = slot
  BY DEF GenUpsert
<1>4. /\ row'[s] = new
      /\ \A t \in Slots \ {s} : row'[t] = row[t]
      /\ count'[g] = new.times /\ life'[g] = new.life
      /\ gpc'[g] = "written"
      /\ \A h \in Generations \ {g} :
            count'[h] = count[h] /\ life'[h] = life[h] /\ gpc'[h] = gpc[h]
  BY <1>2, <1>3 DEF TypeOK
\* Whether the upsert creates or updates, the new count follows all counts of
\* the life it joins.
<1>5. \/ /\ new.life = g /\ new.times = 0
      \/ /\ Present(s) /\ new.life = row[s].life
         /\ new.times = row[s].times + 1
         /\ row[s].times \in Nat
  <2>1. row[s].times \in Nat
    BY <1>2 DEF TypeOK, Row
  <2> QED
    BY <2>1 DEF Updated, Created
<1>6. ASSUME NEW h \in Generations, life[h] = new.life
      PROVE  count[h] < new.times
  <2>1. CASE new.life = g
    BY <1>1, <1>6, <2>1
  <2>2. CASE /\ Present(s) /\ new.life = row[s].life
             /\ new.times = row[s].times + 1
             /\ row[s].times \in Nat
    <3>1. life[h] # Nobody
      BY <1>2, <1>6, NobodyAssumption
    <3>2. count[h] <= row[s].times /\ count[h] \in Nat
      BY <1>2, <1>6, <2>2, <3>1 DEF LifeInvariant, CountsBounded, TypeOK
    <3> QED
      BY <2>2, <3>2
  <2> QED
    BY <1>5, <2>1, <2>2
<1> HIDE DEF new, s
<1>7. LivesBegin'
  BY <1>2, <1>4, NobodyAssumption
     DEF LifeInvariant, LivesBegin, NotYet, Wrote
<1>8. RowsMatchWriters'
  <2> SUFFICES ASSUME NEW t \in Slots, row'[t].gen # Nobody
               PROVE  /\ row'[t].gen \in Generations
                      /\ slot[row'[t].gen] = t
                      /\ row'[t].life \in Generations
                      /\ life'[row'[t].gen] = row'[t].life
                      /\ count'[row'[t].gen] = row'[t].times
    BY <1>3 DEF RowsMatchWriters, Present
  <2>1. CASE t = s
    BY <1>2, <1>4, <2>1 DEF s
  <2>2. CASE t # s
    BY <1>1, <1>4, <2>2, NobodyAssumption
       DEF LifeInvariant, RowsMatchWriters, Present
  <2> QED
    BY <2>1, <2>2
<1>9. CreatorsInLife'
  <2>1. new.life = g \/ (life[new.life] = new.life /\ slot[new.life] = slot[g])
    BY <1>2, <1>5, NobodyAssumption
       DEF LifeInvariant, RowsMatchWriters, CreatorsInLife, s
  <2>2. new.life # g => life'[new.life] = new.life
    BY <1>2, <1>4, <2>1
  <2> SUFFICES ASSUME NEW h \in Generations, life'[h] # Nobody
               PROVE  life'[life'[h]] = life'[h] /\ slot[life'[h]] = slot[h]
    BY <1>3 DEF CreatorsInLife
  <2>3. CASE h = g
    BY <1>2, <1>4, <2>1, <2>2, <2>3
  <2>4. CASE h # g
    <3>1. /\ life'[h] = life[h] /\ life[h] # Nobody /\ life[h] # g
          /\ life[h] \in Generations
          /\ life[life[h]] = life[h] /\ slot[life[h]] = slot[h]
      BY <1>1, <1>4, <2>4 DEF LifeInvariant, CreatorsInLife, TypeOK
    <3> QED
      BY <1>4, <3>1
  <2> QED
    BY <2>3, <2>4
<1>10. CountsBounded'
  <2> SUFFICES ASSUME NEW h \in Generations, NEW t \in Slots,
                      life'[h] # Nobody, row'[t].gen # Nobody,
                      row'[t].life = life'[h]
               PROVE  count'[h] <= row'[t].times
    BY DEF CountsBounded, Present
  <2>1. CASE t = s /\ h = g
    BY <1>2, <1>4, <2>1
  <2>2. CASE t = s /\ h # g
    <3>1. life[h] = new.life /\ count'[h] = count[h] /\ row'[t] = new
      BY <1>4, <2>2
    <3>2. count[h] < new.times /\ count[h] \in Int
      BY <1>6, <3>1 DEF TypeOK
    <3> QED
      BY <1>2, <3>1, <3>2
  <2>3. CASE t # s /\ h # g
    BY <1>4, <2>3 DEF LifeInvariant, CountsBounded, Present
  \* Another slot's row is not of the life g joins: creators have one slot.
  <2>4. CASE t # s /\ h = g
    <3>1. row[t].life = new.life /\ Present(t)
      BY <1>4, <2>4 DEF Present
    <3>2. /\ row[t].gen \in Generations
          /\ life[row[t].gen] = new.life /\ slot[row[t].gen] = t
      BY <3>1 DEF LifeInvariant, RowsMatchWriters
    <3>3. slot[new.life] = t
      BY <1>2, <3>2, NobodyAssumption DEF LifeInvariant, CreatorsInLife
    <3>4. new.life # g
      BY <1>1, <3>2
    <3>5. /\ Present(s) /\ new.life = row[s].life
      BY <1>5, <3>4
    <3>6. slot[new.life] = s
      BY <1>2, <3>5, NobodyAssumption
         DEF LifeInvariant, RowsMatchWriters, CreatorsInLife
    <3> QED
      BY <2>4, <3>3, <3>6
  <2> QED
    BY <2>1, <2>2, <2>3, <2>4
<1>11. CountsDiffer'
  <2> SUFFICES ASSUME NEW h \in Generations, NEW k \in Generations, h # k,
                      life'[h] # Nobody, life'[k] = life'[h]
               PROVE  count'[h] # count'[k]
    BY DEF CountsDiffer
  <2>1. CASE h # g /\ k # g
    BY <1>4, <2>1 DEF LifeInvariant, CountsDiffer
  <2>2. CASE h = g
    <3>1. count[k] < new.times /\ count'[k] = count[k] /\ count[k] \in Int
      BY <1>4, <1>6, <2>2 DEF TypeOK
    <3> QED
      BY <1>2, <1>4, <2>2, <3>1
  <2>3. CASE k = g
    <3>1. count[h] < new.times /\ count'[h] = count[h] /\ count[h] \in Int
      BY <1>4, <1>6, <2>3 DEF TypeOK
    <3> QED
      BY <1>2, <1>4, <2>3, <3>1
  <2> QED
    BY <2>1, <2>2, <2>3
<1>12. CountsFromZero'
  <2> SUFFICES ASSUME NEW h \in Generations, life'[h] # Nobody,
                      NEW j \in 0 .. count'[h]
               PROVE  \E k \in Generations : life'[k] = life'[h] /\ count'[k] = j
    BY DEF CountsFromZero
  <2>1. CASE h # g
    <3>1. PICK k \in Generations : life[k] = life[h] /\ count[k] = j
      BY <1>4, <2>1 DEF LifeInvariant, CountsFromZero
    <3>2. k # g
      BY <1>1, <1>4, <2>1, <3>1
    <3> QED
      BY <1>4, <2>1, <3>1, <3>2
  <2>2. CASE h = g /\ j = new.times
    BY <1>4, <2>2
  <2>3. CASE h = g /\ j # new.times
    <3>1. /\ Present(s) /\ new.life = row[s].life
          /\ j \in 0 .. row[s].times
      BY <1>2, <1>4, <1>5, <2>3
    <3>2. PICK w \in Generations : /\ life[w] = new.life /\ life[w] # Nobody
                                   /\ count[w] = row[s].times
      BY <1>2, <3>1, NobodyAssumption DEF LifeInvariant, RowsMatchWriters
    <3>3. PICK k \in Generations : life[k] = new.life /\ count[k] = j
      BY <3>1, <3>2 DEF LifeInvariant, CountsFromZero
    <3>4. k # g
      BY <1>1, <1>2, <3>3, NobodyAssumption
    <3> QED
      BY <1>4, <2>3, <3>3, <3>4
  <2> QED
    BY <2>1, <2>2, <2>3
<1> QED
  BY <1>7, <1>8, <1>9, <1>10, <1>11, <1>12 DEF LifeInvariant

LEMMA LivesAlways == Spec => []LifeInvariant
<1>1. Init => LifeInvariant
  BY DEF Init, LifeInvariant, LivesBegin, RowsMatchWriters, CreatorsInLife,
         CountsBounded, CountsDiffer, CountsFromZero, Present, NoRow, Wrote
<1>2. TypeOK /\ LifeInvariant /\ [Next]_vars => LifeInvariant'
  BY QuietSteps, QuietKeepsLives, UpsertKeepsLives
<1> QED
  BY <1>1, <1>2, TypeCorrect, PTL DEF Spec

-----------------------------------------------------------------------------
\* What the limit decided agrees with the count that was stored.
Decided ==
    \A g \in Generations : /\ gpc[g] = "sent" => count[g] <= Limit
                           /\ gpc[g] = "refused" => count[g] > Limit

LEMMA DecidedAlways == Spec => []Decided
<1>1. Init => Decided
  BY DEF Init, Decided
<1>2. TypeOK /\ Decided /\ [Next]_vars => Decided'
  <2> SUFFICES ASSUME TypeOK, Decided, [Next]_vars PROVE Decided'
    OBVIOUS
  <2> USE DEF gvars, vvars
  <2>1. ASSUME NEW g \in Generations, GenUpsert(g) PROVE Decided'
    BY <2>1 DEF TypeOK, Decided, GenUpsert
  <2>2. ASSUME NEW g \in Generations, GenSend(g) PROVE Decided'
    <3> SUFFICES ASSUME NEW h \in Generations
                 PROVE  /\ gpc'[h] = "sent" => count[h] <= Limit
                        /\ gpc'[h] = "refused" => count[h] > Limit
      BY <2>2 DEF Decided, GenSend
    <3>1. count[h] \in Nat
      BY DEF TypeOK
    <3> QED
      BY <2>2, <3>1 DEF TypeOK, Decided, GenSend, Limit
  <2>3. ASSUME NEW g \in Generations, GenRead(g) \/ GenFail(g) PROVE Decided'
    BY <2>3 DEF TypeOK, Decided, GenRead, GenFail
  <2>4. CASE UNCHANGED <<gpc, count>>
    BY <2>4 DEF Decided
  <2> QED
    BY <2>1, <2>2, <2>3, <2>4
       DEF Next, VerifyAsk, VerifyRead, VerifyDelete, VerifyFail, Tick, vars
<1> QED
  BY <1>1, <1>2, TypeCorrect, PTL DEF Spec

\* The SMS of one life carry different counts below three.
LEMMA ThreeCounts ==
    ASSUME TypeOK, LifeInvariant, Decided
    PROVE  SmsLimit
<1> SUFFICES ASSUME NEW g \in Generations
             PROVE  Cardinality({h \in Generations :
                                   gpc[h] = "sent" /\ life[h] = g}) <= 3
  BY DEF SmsLimit
<1> DEFINE S == {h \in Generations : gpc[h] = "sent" /\ life[h] = g}
           f == [h \in S |-> count[h]]
<1>1. \A h \in S : f[h] \in 0 .. 2
  BY DEF TypeOK, Decided, Limit
<1>2. \A h, k \in S : h # k => f[h] # f[k]
  BY NobodyAssumption DEF LifeInvariant, CountsDiffer
<1>3. f \in Injection(S, 0 .. 2)
  BY <1>1, <1>2 DEF Injection, IsInjective
<1>4. IsFiniteSet(0 .. 2) /\ Cardinality(0 .. 2) = 3
  <2> DEFINE n == Cardinality(0 .. 2)
  <2>1. \A a, b \in Int :
           /\ IsFiniteSet(a .. b)
           /\ Cardinality(a .. b) = IF a > b THEN 0 ELSE b - a + 1
    BY FS_Interval
  <2>2. 0 \in Int /\ 2 \in Int
    OBVIOUS
  <2>3. IsFiniteSet(0 .. 2) /\ n = IF 0 > 2 THEN 0 ELSE 2 - 0 + 1
    BY <2>1, <2>2, Zenon
  <2> HIDE DEF n
  <2>4. n = 3
    BY <2>3
  <2> QED
    BY <2>3, <2>4 DEF n
<1>5. Cardinality(S) <= Cardinality(0 .. 2)
  BY <1>3, <1>4, FS_Injection DEF ExistsInjection
<1> QED
  BY <1>4, <1>5

\* At most three SMS are sent between the creation of a row and the
\* verification that deletes it, for any number of overlapping requests.
THEOREM SmsAreLimited == Spec => []SmsLimit
  BY TypeCorrect, LivesAlways, DecidedAlways, ThreeCounts, PTL

LEMMA RefusedLast ==
    ASSUME TypeOK, LifeInvariant, Decided
    PROVE  RefusedOnlyAfterThree
<1> SUFFICES ASSUME NEW g \in Generations, gpc[g] = "refused"
             PROVE  \E h \in [0 .. Limit -> Generations] :
                       \A i \in 0 .. Limit :
                          h[i] # g /\ life[h[i]] = life[g] /\ count[h[i]] = i
  BY DEF RefusedOnlyAfterThree
<1>1. /\ life[g] # Nobody
      /\ count[g] \in Nat /\ count[g] > Limit
  BY DEF LifeInvariant, LivesBegin, Wrote, Decided, TypeOK
<1>2. \A i \in 0 .. Limit :
         \E k \in Generations : k # g /\ life[k] = life[g] /\ count[k] = i
  <2> SUFFICES ASSUME NEW i \in 0 .. Limit
               PROVE  \E k \in Generations :
                         k # g /\ life[k] = life[g] /\ count[k] = i
    OBVIOUS
  <2>1. i \in 0 .. count[g] /\ i # count[g]
    BY <1>1 DEF Limit
  <2> QED
    BY <1>1, <2>1 DEF LifeInvariant, CountsFromZero
<1> DEFINE h == [i \in 0 .. Limit |->
                   CHOOSE k \in Generations :
                      k # g /\ life[k] = life[g] /\ count[k] = i]
<1>3. \A i \in 0 .. Limit :
         /\ h[i] \in Generations
         /\ h[i] # g /\ life[h[i]] = life[g] /\ count[h[i]] = i
  BY <1>2
<1>4. h \in [0 .. Limit -> Generations]
  BY <1>3
<1> HIDE DEF h
<1> QED
  BY <1>3, <1>4

\* A request is refused only after three others stored the counts 0, 1 and 2
\* in the same row; a verification in between would have lifted the limit.
THEOREM RefusedAfterThree == Spec => []RefusedOnlyAfterThree
  BY TypeCorrect, LivesAlways, DecidedAlways, RefusedLast, PTL

LEMMA PastLimitUnsent ==
    ASSUME TypeOK, LifeInvariant, Decided
    PROVE  ThrottledCodeUnsent
<1> SUFFICES ASSUME NEW s \in Slots, Present(s), row[s].times > Limit
             PROVE  gpc[row[s].gen] # "sent"
  BY DEF ThrottledCodeUnsent
<1>1. row[s].gen \in Generations /\ count[row[s].gen] = row[s].times
  BY DEF LifeInvariant, RowsMatchWriters
<1>2. row[s].times \in Nat
  BY DEF TypeOK, Row
<1> QED
  BY <1>1, <1>2 DEF Decided, Limit

\* A row past the limit always holds a code that was not sent.
THEOREM ThrottledIsUnsent == Spec => []ThrottledCodeUnsent
  BY TypeCorrect, LivesAlways, DecidedAlways, PastLimitUnsent, PTL

-----------------------------------------------------------------------------
\* What a verification found was written for its phone, and is gone when the
\* verification has ended.
FoundInvariant ==
    /\ \A v \in Verifications : vpc[v] \in {"found", "verified"} =>
          /\ found[v] \in Generations
          /\ life[found[v]] # Nobody
          /\ PhoneOf[slot[found[v]]] = vphone[v]
    /\ UsedUp

LEMMA StepFound ==
    TypeOK /\ LifeInvariant /\ FoundInvariant /\ [Next]_vars => FoundInvariant'
<1> SUFFICES ASSUME TypeOK, LifeInvariant, FoundInvariant, [Next]_vars
             PROVE  FoundInvariant'
  OBVIOUS
<1> USE DEF gvars, vvars
<1>1. ASSUME NEW g \in Generations, GenUpsert(g) PROVE FoundInvariant'
  <2>1. life[g] = Nobody
    BY <1>1 DEF LifeInvariant, LivesBegin, NotYet, GenUpsert
  <2>2. /\ UNCHANGED <<slot, vpc, vphone, found>>
        /\ \A h \in Generations \ {g} : life'[h] = life[h]
        /\ \A s \in Slots : row'[s].gen = row[s].gen \/ row'[s].gen = g
    BY <1>1 DEF TypeOK, GenUpsert, Updated, Created
  <2> QED
    BY <2>1, <2>2 DEF FoundInvariant, UsedUp
<1>2. ASSUME NEW v \in Verifications, NEW otp \in Codes, VerifyRead(v, otp)
      PROVE  FoundInvariant'
  <2>1. \A s \in Matching(v, otp) :
           /\ row[s].gen \in Generations
           /\ life[row[s].gen] # Nobody
           /\ PhoneOf[slot[row[s].gen]] = vphone[v]
    BY NobodyAssumption DEF Matching, LifeInvariant, RowsMatchWriters
  <2> QED
    BY <1>2, <2>1 DEF TypeOK, FoundInvariant, UsedUp, VerifyRead
<1>3. ASSUME NEW v \in Verifications, VerifyDelete(v) PROVE FoundInvariant'
  <2>1. ASSUME NEW s \in Slots PROVE row'[s].gen # found[v]
    <3>1. found[v] \in Generations /\ PhoneOf[slot[found[v]]] = vphone[v]
      BY <1>3 DEF FoundInvariant, VerifyDelete
    <3>2. CASE PhoneOf[s] = vphone[v]
      BY <1>3, <3>1, <3>2, NobodyAssumption DEF VerifyDelete, NoRow
    <3>3. CASE PhoneOf[s] # vphone[v]
      <4>1. row'[s] = row[s]
        BY <1>3, <3>3 DEF VerifyDelete
      <4>2. Present(s) => slot[row[s].gen] = s
        BY DEF LifeInvariant, RowsMatchWriters
      <4> QED
        BY <3>1, <3>3, <4>1, <4>2, NobodyAssumption DEF Present
    <3> QED
      BY <3>2, <3>3
  <2>2. \A s \in Slots : row'[s].gen = row[s].gen \/ row'[s].gen = Nobody
    BY <1>3 DEF VerifyDelete, NoRow
  <2>3. \A w \in Verifications \ {v} : vpc'[w] = vpc[w]
    BY <1>3 DEF TypeOK, VerifyDelete
  <2>4. UNCHANGED <<slot, life, vphone, found>> /\ vpc[v] = "found"
    BY <1>3 DEF VerifyDelete
  <2>5. UsedUp'
    BY <2>1, <2>2, <2>3, <2>4, NobodyAssumption DEF FoundInvariant, UsedUp
  <2> QED
    BY <2>3, <2>4, <2>5 DEF FoundInvariant
<1>4. ASSUME NEW v \in Verifications, VerifyFail(v) \/ VerifyAsk(v)
      PROVE  FoundInvariant'
  BY <1>4 DEF TypeOK, FoundInvariant, UsedUp, VerifyFail, VerifyAsk
<1>5. CASE Tick
  <2>1. \A s \in Slots : row'[s].gen = row[s].gen
    BY <1>5 DEF TypeOK, Tick, Row
  <2> QED
    BY <1>5, <2>1 DEF FoundInvariant, UsedUp, Tick
<1>6. CASE UNCHANGED <<row, slot, life, vpc, vphone, found>>
  BY <1>6 DEF FoundInvariant, UsedUp
<1> QED
  BY <1>1, <1>2, <1>3, <1>4, <1>5, <1>6 DEF Next, GenRead, GenSend, GenFail, vars

\* A code whose verification has ended is never accepted again by a
\* verification that starts later.
THEOREM CodesAreUsedUp == Spec => []UsedUp
<1>1. Init => FoundInvariant
  BY DEF Init, FoundInvariant, UsedUp
<1> QED
  BY <1>1, TypeCorrect, LivesAlways, StepFound, PTL DEF Spec, FoundInvariant

=============================================================================
