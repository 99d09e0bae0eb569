----------------------------- MODULE SumTheorems -----------------------------
(***************************************************************************)
(* What SumFunctionOnSet (Functions) computes on a finite set: the facts    *)
(* the proofs about amounts rest on.  The induction over the subsets of a   *)
(* finite set is WFMin of WellFoundedInduction: a non-empty set of subsets  *)
(* has a minimal one.                                                       *)
(***************************************************************************)
EXTENDS Integers, FiniteSets, Functions, FiniteSetTheorems, WellFoundedInduction, TLAPS

\* The element the fold takes next, and the equation its function satisfies.
Pick(s) == CHOOSE x \in s : TRUE

Sums(g, f, S) ==
    g = [s \in SUBSET S |-> IF s = {} THEN 0 ELSE f[Pick(s)] + g[s \ {Pick(s)}]]

\* A non-empty set of subsets of a finite set has a minimal element.
LEMMA Minimal ==
    ASSUME NEW S, IsFiniteSet(S), NEW T \in SUBSET SUBSET S, T # {}
    PROVE  \E U \in T : \A V \in T : V \subseteq U => V = U
<1>1. IsWellFoundedOn(StrictSubsetOrdering(S), SUBSET S)
  BY FS_StrictSubsetOrderingWellFounded, FS_FiniteSubsetsOfFinite
<1>2. \E U \in T : \A V \in T : ~(<<V, U>> \in StrictSubsetOrdering(S))
  BY <1>1, WFMin
<1> QED
  BY <1>2 DEF StrictSubsetOrdering

LEMMA PickIn ==
    ASSUME NEW s, s # {}
    PROVE  Pick(s) \in s
  BY DEF Pick

LEMMA SumsAt ==
    ASSUME NEW g, NEW f, NEW S, Sums(g, f, S), NEW s \in SUBSET S
    PROVE  g[s] = IF s = {} THEN 0 ELSE f[Pick(s)] + g[s \ {Pick(s)}]
  BY Zenon DEF Sums

\* Two functions that satisfy the equation agree where both are defined.
LEMMA SumsAgree ==
    ASSUME NEW f, NEW A, NEW B, NEW g, NEW h, Sums(g, f, A), Sums(h, f, B),
           NEW S, S \subseteq A, S \subseteq B, IsFiniteSet(S)
    PROVE  g[S] = h[S]
<1> DEFINE T == {s \in SUBSET S : g[s] # h[s]}
<1> SUFFICES ASSUME T # {} PROVE FALSE
  OBVIOUS
<1>0. T \in SUBSET SUBSET S
  OBVIOUS
<1>1. PICK U \in T : \A V \in T : V \subseteq U => V = U
  <2> HIDE DEF T
  <2> QED
    BY <1>0, Minimal
<1>2. U \in SUBSET A /\ U \in SUBSET B /\ U \subseteq S
  BY <1>1
<1>3. U # {}
  BY <1>1, <1>2, SumsAt
<1>4. U \ {Pick(U)} \notin T
  BY <1>1, <1>3, PickIn
<1>5. g[U \ {Pick(U)}] = h[U \ {Pick(U)}]
  BY <1>2, <1>4
<1>6. g[U] = f[Pick(U)] + g[U \ {Pick(U)}] /\ h[U] = f[Pick(U)] + h[U \ {Pick(U)}]
  BY <1>2, <1>3, SumsAt
<1> QED
  BY <1>1, <1>5, <1>6

\* Every finite set has a function that satisfies the equation.
LEMMA SumsExist ==
    ASSUME NEW f, NEW S, IsFiniteSet(S)
    PROVE  \E g : Sums(g, f, S)
<1> DEFINE T == {s \in SUBSET S : ~ \E g : Sums(g, f, s)}
<1> SUFFICES ASSUME T # {} PROVE FALSE
  OBVIOUS
<1>0. T \in SUBSET SUBSET S
  OBVIOUS
<1>1. PICK U \in T : \A V \in T : V \subseteq U => V = U
  <2> HIDE DEF T
  <2> QED
    BY <1>0, Minimal
<1>2. U \in SUBSET S /\ ~ \E g : Sums(g, f, U)
  BY <1>1
<1>3. \A V \in SUBSET U : V # U => \E g : Sums(g, f, V)
  BY <1>1, <1>2
<1> DEFINE part(V) == CHOOSE g : Sums(g, f, V)
           rest(s) == s \ {Pick(s)}
           all == [s \in SUBSET U |->
                     IF s = {} THEN 0 ELSE f[Pick(s)] + part(rest(s))[rest(s)]]
<1>4. ASSUME NEW V \in SUBSET U, V # U PROVE Sums(part(V), f, V)
  BY <1>3, <1>4, Zenon
<1>5. ASSUME NEW s \in SUBSET U, s # {} PROVE rest(s) \in SUBSET U /\ rest(s) # U
  BY <1>5, PickIn
<1>6. ASSUME NEW V \in SUBSET U, V # U PROVE all[V] = part(V)[V]
  <2>1. CASE V = {}
    <3>1. all[V] = 0
      BY <2>1
    <3>2. part(V)[V] = 0
      <4> HIDE DEF part
      <4> QED
        BY <1>4, <1>6, <2>1, SumsAt
    <3> QED
      BY <3>1, <3>2
  <2>2. CASE V # {}
    <3>1. all[V] = f[Pick(V)] + part(rest(V))[rest(V)]
      BY <2>2
    <3> HIDE DEF part, all
    <3>2. part(V)[V] = f[Pick(V)] + part(V)[rest(V)]
      BY <1>4, <1>6, <2>2, SumsAt
    <3>3. Sums(part(V), f, V) /\ Sums(part(rest(V)), f, rest(V))
      BY <1>4, <1>5, <1>6, <2>2
    <3>4. IsFiniteSet(rest(V)) /\ rest(V) \subseteq V
      BY <1>2, FS_Subset
    <3>5. part(V)[rest(V)] = part(rest(V))[rest(V)]
      <4> HIDE DEF rest
      <4> QED
        BY <3>3, <3>4, SumsAgree
    <3> QED
      BY <3>1, <3>2, <3>5
  <2> QED
    BY <2>1, <2>2
<1>7. Sums(all, f, U)
  <2>1. ASSUME NEW s \in SUBSET U
        PROVE  all[s] = IF s = {} THEN 0 ELSE f[Pick(s)] + all[s \ {Pick(s)}]
    <3>1. CASE s = {}
      BY <3>1
    <3>2. CASE s # {}
      <4>1. all[s] = f[Pick(s)] + part(rest(s))[rest(s)]
        BY <3>2
      <4>2. all[rest(s)] = part(rest(s))[rest(s)]
        <5> HIDE DEF part, all, rest
        <5> QED
          BY <1>5, <1>6, <3>2
      <4> HIDE DEF part, all
      <4> QED
        BY <3>2, <4>1, <4>2
    <3> QED
      BY <3>1, <3>2
  <2>2. all = [s \in SUBSET U |-> all[s]]
    OBVIOUS
  <2> HIDE DEF all
  <2> QED
    BY <2>1, <2>2 DEF Sums
<1> QED
  BY <1>2, <1>7

\* The library's sum is the value of such a function at the set.
LEMMA SumIsSums ==
    ASSUME NEW f, NEW S, IsFiniteSet(S)
    PROVE  \E g : Sums(g, f, S) /\ SumFunctionOnSet(f, S) = g[S]
<1>1. SumFunctionOnSet(f, S) = (CHOOSE g : Sums(g, f, S))[S]
  BY Zenon DEF SumFunctionOnSet, FoldFunctionOnSet, MapThenFoldSet, Sums, Pick
<1> QED
  BY <1>1, SumsExist

THEOREM SumEmpty ==
    ASSUME NEW f
    PROVE  SumFunctionOnSet(f, {}) = 0
  BY SumIsSums, SumsAt, FS_EmptySet

\* One step of the fold.
LEMMA SumPick ==
    ASSUME NEW f, NEW S, IsFiniteSet(S), S # {}
    PROVE  SumFunctionOnSet(f, S)
             = f[Pick(S)] + SumFunctionOnSet(f, S \ {Pick(S)})
<1> DEFINE R == S \ {Pick(S)}
<1>1. IsFiniteSet(R) /\ R \subseteq S
  BY FS_Subset
<1>2. PICK g : Sums(g, f, S) /\ SumFunctionOnSet(f, S) = g[S]
  BY SumIsSums
<1>3. PICK h : Sums(h, f, R) /\ SumFunctionOnSet(f, R) = h[R]
  BY <1>1, SumIsSums
<1>4. g[R] = h[R]
  <2> HIDE DEF R
  <2> QED
    BY <1>1, <1>2, <1>3, SumsAgree
<1>5. g[S] = f[Pick(S)] + g[R]
  BY <1>2, SumsAt
<1> QED
  BY <1>2, <1>3, <1>4, <1>5

\* A sum of integers is an integer.
THEOREM SumInt ==
    ASSUME NEW S, IsFiniteSet(S), NEW f, \A x \in S : f[x] \in Int
    PROVE  SumFunctionOnSet(f, S) \in Int
<1> DEFINE T == {s \in SUBSET S : SumFunctionOnSet(f, s) \notin Int}
<1> SUFFICES ASSUME T # {} PROVE FALSE
  OBVIOUS
<1>0. T \in SUBSET SUBSET S
  OBVIOUS
<1>1. PICK U \in T : \A V \in T : V \subseteq U => V = U
  <2> HIDE DEF T
  <2> QED
    BY <1>0, Minimal
<1>2. IsFiniteSet(U) /\ U \subseteq S
  BY <1>1, FS_Subset
<1>3. U # {}
  <2>1. SumFunctionOnSet(f, {}) \in Int
    BY SumEmpty
  <2> QED
    BY <1>1, <2>1
<1>4. U \ {Pick(U)} \notin T
  BY <1>1, <1>3, PickIn
<1>5. SumFunctionOnSet(f, U \ {Pick(U)}) \in Int /\ f[Pick(U)] \in Int
  BY <1>2, <1>3, <1>4, PickIn
<1> QED
  BY <1>1, <1>2, <1>3, <1>5, SumPick

\* The order of the fold does not matter: any element can be taken out.
THEOREM SumRemove ==
    ASSUME NEW S, IsFiniteSet(S), NEW f, \A x \in S : f[x] \in Int, NEW x \in S
    PROVE  SumFunctionOnSet(f, S) = f[x] + SumFunctionOnSet(f, S \ {x})
<1> DEFINE Total(s) == SumFunctionOnSet(f, s)
           T == {s \in SUBSET S : \E y \in s : Total(s) # f[y] + Total(s \ {y})}
<1> SUFFICES ASSUME T # {} PROVE FALSE
  <2>1. S \notin T
    OBVIOUS
  <2> QED
    BY <2>1
<1>0. T \in SUBSET SUBSET S
  OBVIOUS
<1>1. PICK U \in T : \A V \in T : V \subseteq U => V = U
  <2> HIDE DEF T
  <2> QED
    BY <1>0, Minimal
<1>2. PICK y \in U : Total(U) # f[y] + Total(U \ {y})
  BY <1>1
<1>3. U \subseteq S
  BY <1>1
<1> HIDE DEF Total
<1> DEFINE p == Pick(U)
           both == U \ {p, y}
<1>4. p \in U
  BY PickIn
<1>5. f[p] \in Int /\ f[y] \in Int
  BY <1>3, <1>4
<1>6. ASSUME NEW V \in SUBSET S
      PROVE  /\ IsFiniteSet(V)
             /\ Total(V) \in Int
             /\ V # {} => Total(V) = f[Pick(V)] + Total(V \ {Pick(V)})
  <2>1. IsFiniteSet(V)
    BY FS_Subset
  <2> QED
    BY <2>1, SumInt, SumPick DEF Total
<1>7. Total(U) = f[p] + Total(U \ {p})
  BY <1>3, <1>4, <1>6
<1>8. p # y
  BY <1>2, <1>7
<1>9. U \ {p} \notin T /\ U \ {y} \notin T
  BY <1>1, <1>2, <1>4
<1>10. y \in U \ {p} /\ p \in U \ {y} /\ (U \ {p}) \ {y} = both /\ (U \ {y}) \ {p} = both
  BY <1>2, <1>4, <1>8
<1>11. /\ Total(U \ {p}) = f[y] + Total(both)
       /\ Total(U \ {y}) = f[p] + Total(both)
  BY <1>3, <1>9, <1>10
<1>12. Total(both) \in Int
  BY <1>3, <1>6
<1> QED
  BY <1>2, <1>5, <1>7, <1>11, <1>12

\* One element more.
THEOREM SumAdd ==
    ASSUME NEW S, IsFiniteSet(S), NEW f, NEW x, x \notin S,
           \A y \in S \cup {x} : f[y] \in Int
    PROVE  SumFunctionOnSet(f, S \cup {x}) = SumFunctionOnSet(f, S) + f[x]
<1>1. IsFiniteSet(S \cup {x}) /\ (S \cup {x}) \ {x} = S
  BY FS_AddElement
<1>2. SumFunctionOnSet(f, S) \in Int
  BY SumInt
<1>3. SumFunctionOnSet(f, S \cup {x}) = f[x] + SumFunctionOnSet(f, (S \cup {x}) \ {x})
  BY <1>1, SumRemove
<1>4. f[x] \in Int
  OBVIOUS
<1>5. SumFunctionOnSet(f, S \cup {x}) = f[x] + SumFunctionOnSet(f, S)
  BY <1>1, <1>3
<1> QED
  BY <1>2, <1>4, <1>5

\* Only the values on the set count.
THEOREM SumSame ==
    ASSUME NEW S, IsFiniteSet(S), NEW f, NEW g, \A x \in S : f[x] = g[x]
    PROVE  SumFunctionOnSet(f, S) = SumFunctionOnSet(g, S)
<1> DEFINE T == {s \in SUBSET S : SumFunctionOnSet(f, s) # SumFunctionOnSet(g, s)}
<1> SUFFICES ASSUME T # {} PROVE FALSE
  OBVIOUS
<1>0. T \in SUBSET SUBSET S
  OBVIOUS
<1>1. PICK U \in T : \A V \in T : V \subseteq U => V = U
  <2> HIDE DEF T
  <2> QED
    BY <1>0, Minimal
<1>2. IsFiniteSet(U) /\ U \subseteq S
  BY <1>1, FS_Subset
<1>3. U # {}
  BY <1>1, SumEmpty
<1>4. U \ {Pick(U)} \notin T /\ Pick(U) \in S
  BY <1>1, <1>2, <1>3, PickIn
<1>5. SumFunctionOnSet(f, U \ {Pick(U)}) = SumFunctionOnSet(g, U \ {Pick(U)})
  BY <1>2, <1>4
<1> QED
  BY <1>1, <1>2, <1>3, <1>4, <1>5, SumPick

=============================================================================
