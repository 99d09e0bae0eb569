--------------------------- MODULE MCStoreFamilies ---------------------------
(* StoreFamilies with two families of stores for TLC.                      *)
EXTENDS StoreFamilies, Bitwise, FiniteSets, Sequences

MCBitOr(i, j) == i | j

Branch(main, name) ==
    [NoRow EXCEPT !.state = "live", !.main = main, !.kin = main, !.first = TRUE,
                  !.name = name, !.status = "ACTIVE"]

Main(id, name) == [Branch(0, name) EXCEPT !.kin = id, !.first = FALSE]

\* Stores 1 and 3, created one after the other, each with its first branch:
\* 1 | 2 = 3.
MCExisting ==
    {[i \in Ids |->
        CASE i = 1 -> Main(1, "x") [] i = 2 -> Branch(1, "x")
          [] i = 3 -> Main(3, "y") [] i = 4 -> Branch(3, "y")
          [] OTHER -> NoRow]}

UpdateInput(from, id, name, status, temp) ==
    [kind |-> "update", from |-> from, id |-> id, name |-> name, status |-> status,
     temp |-> temp]

InputList ==
    <<[kind |-> "close"],
      [kind |-> "create", by |-> "visitor", name |-> "z"],
      [kind |-> "create", by |-> "admin", name |-> "x"],
      [kind |-> "branch", id |-> 2],
      [kind |-> "branch", id |-> 4],
      UpdateInput(2, 2, "z", Unset, Unset),
      UpdateInput(2, 4, "x", Unset, Unset),
      UpdateInput(2, 2, Unset, Unset, TRUE),
      UpdateInput(4, 4, Unset, Unset, FALSE),
      UpdateInput(0, 1, Unset, "PENDING", Unset),
      UpdateInput(0, 2, Unset, "PENDING", Unset),
      [kind |-> "delete", id |-> 1],
      [kind |-> "remove", id |-> 2],
      [kind |-> "schedule", id |-> 2, open |-> 1, close |-> 2],
      [kind |-> "schedule", id |-> 2, open |-> 2, close |-> 3],
      [kind |-> "subscribe", id |-> 2, plan |-> 2],
      [kind |-> "unschedule"],
      [kind |-> "purge"]>>

Elements(list) == {list[i] : i \in 1 .. Len(list)}

MCInputs == Elements(InputList)

Rank == [x \in MCInputs |-> CHOOSE i \in 1 .. Len(InputList) : InputList[i] = x]

\* Calls differ only in what they are asked: one order of the inputs is enough, and
\* of calls that are asked the same the first one starts first.
Ordered ==
    \A c \in Calls \ {1} :
        /\ Rank[call[c - 1]] <= Rank[call[c]]
        /\ call[c - 1] = call[c] /\ pc[c - 1] = "idle" => pc[c] = "idle"

\* Bound: three calls, or four about names and the statuses of branches.
Active == {c \in Calls : pc[c] # "idle" \/ call[c].kind # "close"}

Copying(c) ==
    \/ call[c].kind \in {"create", "branch", "delete"}
    \/ call[c].kind = "update" /\ call[c].temp = Unset /\ call[c].id # 1

AtMostFour == Cardinality(Active) <= 3 \/ \A c \in Active : Copying(c)

Bounded == Ordered /\ AtMostFour

=============================================================================
