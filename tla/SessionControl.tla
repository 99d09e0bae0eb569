--------------------------- MODULE SessionControl ---------------------------
(***************************************************************************)
(* What access control promises the customers, without the routes, devices, *)
(* codes and crons behind it: who is verified stays so, only the verified   *)
(* are granted sessions, and a session ends, for good, only by its own      *)
(* customer or because it is among the oldest.  Accounts implements it.     *)
(***************************************************************************)
EXTENDS Naturals

CONSTANTS
    Ids,        \* one for each session that may be granted
    Accounts

VARIABLES
    verified,   \* the accounts that have been verified
    sessions,   \* the sessions that authorise requests, with their accounts
    age         \* the position of each session among those granted, or 0

Init ==
    /\ verified \in SUBSET Accounts
    /\ sessions = {}
    /\ age = [id \in Ids |-> 0]

Verify(account) ==
    /\ verified' = verified \cup {account}
    /\ UNCHANGED <<sessions, age>>

Grant(id, account) ==
    /\ account \in verified
    /\ age[id] = 0
    /\ sessions' = sessions \cup {[id |-> id, of |-> account]}
    /\ \A other \in Ids : age[other] < age'[id]
    /\ age' = [age EXCEPT ![id] = age'[id]]
    /\ UNCHANGED verified

\* The customer ends some of their sessions.
End(account) ==
    /\ sessions' \subseteq sessions
    /\ \A s \in sessions \ sessions' : s.of = account
    /\ UNCHANGED <<verified, age>>

\* No session outlives a younger one.
Expire ==
    /\ sessions' \subseteq sessions
    /\ \A s \in sessions \ sessions', kept \in sessions' : age[s.id] < age[kept.id]
    /\ UNCHANGED <<verified, age>>

Next ==
    \/ \E account \in Accounts :
          \/ Verify(account)
          \/ End(account)
          \/ \E id \in Ids : Grant(id, account)
    \/ Expire

Spec == Init /\ [][Next]_<<verified, sessions, age>>

=============================================================================
