------------------------- MODULE Subsequences_proofs -------------------------
(***************************************************************************)
(* Lemmas about Subsequences. What a recursive definition computes is      *)
(* shown by induction over a set of numbers: the library's induction       *)
(* theorems take the induction hypothesis as an operator, which no prover  *)
(* can instantiate, but a set of the numbers that satisfy it will do.      *)
(***************************************************************************)
EXTENDS Subsequences, Integers, WellFoundedInduction, TLAPS

\* A set that has 0, and with a number the next one, has all numbers.
LEMMA SetInduction ==
  ASSUME NEW T, 0 \in T, \A n \in Nat : n \in T => n + 1 \in T
  PROVE  Nat \subseteq T
<1>1. ASSUME NEW other \in Nat, other \notin T PROVE FALSE
  <2>1. PICK least \in Nat \ T : \A y \in Nat \ T : <<y, least>> \notin OpToRel(<, Nat)
    BY <1>1, NatLessThanWellFounded, WFMin, Zenon
  <2>2. least - 1 \in Nat /\ (least - 1) + 1 = least /\ least - 1 < least
    OBVIOUS
  <2>3. least - 1 \in Nat \ T
    BY <2>2
  <2> QED
    BY <2>1, <2>2, <2>3 DEF OpToRel
<1> QED
  BY <1>1

\* The same for the numbers up to a limit.
LEMMA IntervalInduction ==
  ASSUME NEW N \in Nat, NEW T, 0 \in T, \A n \in 1 .. N : n - 1 \in T => n \in T
  PROVE  0 .. N \subseteq T
<1> DEFINE U == {n \in Nat : n \in 0 .. N => n \in T}
<1>1. 0 \in U /\ \A n \in Nat : n \in U => n + 1 \in U
  OBVIOUS
<1>2. Nat \subseteq U
  <2> HIDE DEF U
  <2> QED
    BY <1>1, SetInduction, Zenon
<1> QED
  BY <1>2

\* A function on 0 .. N that begins with base and goes on with step.
Runs(f, N, S, base, step) ==
  /\ f \in [0 .. N -> S]
  /\ f[0] = base
  /\ \A n \in 1 .. N : f[n] = step[n][f[n - 1]]

\* There is one.
LEMMA RecursionExists ==
  ASSUME NEW N \in Nat, NEW S, NEW base \in S, NEW step \in [1 .. N -> [S -> S]]
  PROVE  \E f : Runs(f, N, S, base, step)
<1> DEFINE T == {m \in 0 .. N : \E f : Runs(f, m, S, base, step)}
<1>1. 0 \in T
  <2> DEFINE f == [n \in 0 .. 0 |-> base]
  <2>1. Runs(f, 0, S, base, step)
    BY DEF Runs
  <2> HIDE DEF f
  <2> QED
    BY <2>1
<1>2. ASSUME NEW n \in 1 .. N, n - 1 \in T PROVE n \in T
  <2>1. PICK f : Runs(f, n - 1, S, base, step)
    BY <1>2
  <2> DEFINE g == [m \in 0 .. n |-> IF m = n THEN step[n][f[n - 1]] ELSE f[m]]
  <2>2. f[n - 1] \in S /\ step[n][f[n - 1]] \in S
    BY <2>1 DEF Runs
  <2>3. g \in [0 .. n -> S]
    BY <2>1, <2>2 DEF Runs
  <2>4. Runs(g, n, S, base, step)
    BY <2>1, <2>3 DEF Runs
  <2> HIDE DEF g
  <2> QED
    BY <2>4
<1>3. 0 .. N \subseteq T
  <2> HIDE DEF T
  <2> QED
    BY <1>1, <1>2, IntervalInduction
<1> QED
  BY <1>3

-----------------------------------------------------------------------------
\* The recursive function of Ascending() satisfies its equation: appending to a
\* list of numbers gives one.
LEMMA AscendingRuns ==
  ASSUME NEW n \in Nat, NEW set
  PROVE  \E f :
           /\ f[0] = <<>>
           /\ \A i \in 1 .. n : f[i] = IF i \in set THEN Append(f[i - 1], i) ELSE f[i - 1]
           /\ Ascending(n, set) = f[n]
<1> DEFINE S == Seq(Nat)
           empty == <<>>
           Next(g, i) == IF i \in set THEN Append(g[i - 1], i) ELSE g[i - 1]
           Value(g, i) == IF i = 0 THEN <<>> ELSE Next(g, i)
           Equation(g) == g = [i \in 0 .. n |-> Value(g, i)]
           step == [i \in 1 .. n |-> [list \in S |-> IF i \in set THEN Append(list, i) ELSE list]]
<1>1. step \in [1 .. n -> [S -> S]] /\ empty \in S
  OBVIOUS
<1>2. PICK g : Runs(g, n, S, empty, step)
  <2> HIDE DEF step, S, empty
  <2> QED
    BY <1>1, RecursionExists, Zenon
<1>3. ASSUME NEW i \in 1 .. n PROVE g[i] = Next(g, i)
  <2>1. g[i - 1] \in S /\ g[i] = step[i][g[i - 1]]
    <3> HIDE DEF S, step, empty
    <3> QED
      BY <1>2 DEF Runs
  <2> QED
    BY <2>1
<1>4. Equation(g)
  <2>1. ASSUME NEW i \in 0 .. n PROVE g[i] = Value(g, i)
    <3> HIDE DEF Next, S, step
    <3> QED
      BY <1>2, <1>3 DEF Runs
  <2> HIDE DEF Value, S, step, empty
  <2> QED
    BY <1>2, <2>1 DEF Runs
<1> DEFINE f == CHOOSE h : Equation(h)
<1>5. Equation(f)
  <2> HIDE DEF Equation
  <2> QED
    BY <1>4, Zenon
<1>6. Ascending(n, set) = f[n]
  BY Zenon DEF Ascending
<1> HIDE DEF f
<1>7. \A i \in 0 .. n : f[i] = Value(f, i)
  <2> HIDE DEF Value
  <2> QED
    BY <1>5
<1>8. f[0] = <<>> /\ \A i \in 1 .. n : f[i] = Next(f, i)
  <2> HIDE DEF Next
  <2> QED
    BY <1>7
<1> QED
  BY <1>6, <1>8, Zenon

\* The list has the numbers up to m that are in the set, in ascending order.
Ascends(list, m, set) ==
  /\ list \in Seq(1 .. m) /\ Len(list) <= m
  /\ \A i \in 1 .. Len(list) : list[i] \in set
  /\ \A i, j \in 1 .. Len(list) : i < j => list[i] < list[j]
  /\ \A k \in 1 .. m : k \in set => \E i \in 1 .. Len(list) : list[i] = k

LEMMA AscendsEmpty == \A set : Ascends(<<>>, 0, set)
  BY DEF Ascends

LEMMA AppendByPosition ==
  ASSUME NEW S, NEW s \in Seq(S), NEW e \in S
  PROVE  /\ Append(s, e) \in Seq(S) /\ Len(Append(s, e)) = Len(s) + 1
         /\ Append(s, e)[Len(s) + 1] = e
         /\ \A i \in 1 .. Len(s) : Append(s, e)[i] = s[i]
  OBVIOUS

LEMMA AscendsLonger ==
  ASSUME NEW m \in Nat \ {0}, NEW set, NEW list, Ascends(list, m - 1, set)
  PROVE  Ascends(IF m \in set THEN Append(list, m) ELSE list, m, set)
<1>1. list \in Seq(1 .. m) /\ Len(list) \in 0 .. m - 1
  BY DEF Ascends
<1>2. CASE m \notin set
  <2>1. \A k \in 1 .. m : k \in set => k \in 1 .. m - 1
    BY <1>2
  <2> QED
    BY <1>1, <1>2, <2>1 DEF Ascends
<1>3. CASE m \in set
  <2> DEFINE longer == Append(list, m)
  <2>1. /\ longer \in Seq(1 .. m) /\ Len(longer) = Len(list) + 1 /\ longer[Len(list) + 1] = m
        /\ \A i \in 1 .. Len(list) : longer[i] = list[i]
    BY <1>1, AppendByPosition
  <2> HIDE DEF longer
  <2>2. \A i \in 1 .. Len(list) : list[i] \in 1 .. m - 1 /\ list[i] \in set
    BY DEF Ascends
  <2>3. \A i \in 1 .. Len(longer) :
          \/ i \in 1 .. Len(list) /\ longer[i] = list[i] /\ list[i] \in 1 .. m - 1 /\ list[i] \in set
          \/ i = Len(list) + 1 /\ longer[i] = m
    BY <1>1, <2>1, <2>2
  <2>4. \A i \in 1 .. Len(longer) : longer[i] \in set
    BY <1>3, <2>3
  <2>5. /\ \A i, j \in 1 .. Len(longer) : i < j => longer[i] < longer[j]
        /\ \A k \in 1 .. m : k \in set => \E i \in 1 .. Len(longer) : longer[i] = k
    <3>1. ASSUME NEW i \in 1 .. Len(longer), NEW j \in 1 .. Len(longer), i < j
          PROVE  longer[i] < longer[j]
      <4>1. i \in 1 .. Len(list) /\ longer[i] = list[i] /\ list[i] \in 1 .. m - 1
        BY <1>1, <2>1, <2>3, <3>1
      <4>2. CASE j = Len(list) + 1
        BY <2>1, <4>1, <4>2
      <4>3. CASE j \in 1 .. Len(list)
        BY <2>1, <3>1, <4>1, <4>3 DEF Ascends
      <4> QED
        BY <1>1, <2>1, <4>2, <4>3
    <3>2. ASSUME NEW k \in 1 .. m, k \in set PROVE \E i \in 1 .. Len(longer) : longer[i] = k
      <4>1. CASE k = m
        BY <1>1, <2>1, <4>1
      <4>2. CASE k \in 1 .. m - 1
        <5>1. PICK i \in 1 .. Len(list) : list[i] = k
          BY <3>2, <4>2 DEF Ascends
        <5> QED
          BY <1>1, <2>1, <5>1
      <4> QED
        BY <4>1, <4>2
    <3> QED
      BY <3>1, <3>2
  <2>6. Ascends(longer, m, set)
    BY <1>1, <2>1, <2>3, <2>4, <2>5 DEF Ascends
  <2> QED
    BY <1>3, <2>6 DEF longer
<1> QED
  BY <1>2, <1>3

LEMMA AscendingAscends ==
  ASSUME NEW n \in Nat, NEW set
  PROVE  Ascends(Ascending(n, set), n, set)
<1>1. PICK f :
        /\ f[0] = <<>>
        /\ \A i \in 1 .. n : f[i] = IF i \in set THEN Append(f[i - 1], i) ELSE f[i - 1]
        /\ Ascending(n, set) = f[n]
  BY AscendingRuns
<1> DEFINE T == {m \in 0 .. n : Ascends(f[m], m, set)}
<1>2. 0 \in T
  BY <1>1, AscendsEmpty
<1>3. ASSUME NEW m \in 1 .. n, m - 1 \in T PROVE m \in T
  <2>1. Ascends(f[m - 1], m - 1, set) /\ m \in Nat \ {0}
    BY <1>3
  <2>2. Ascends(f[m], m, set)
    BY <1>1, <2>1, AscendsLonger
  <2> QED
    BY <2>2
<1>4. 0 .. n \subseteq T
  <2> HIDE DEF T
  <2> QED
    BY <1>2, <1>3, IntervalInduction
<1> QED
  BY <1>1, <1>4

-----------------------------------------------------------------------------
\* What a subsequence is: members of the list at ascending positions, and all of
\* those that were asked for.
LEMMA SubsequenceMembers ==
  ASSUME NEW S, NEW list \in Seq(S), NEW positions
  PROVE  LET kept == Subsequence(list, positions)
             at == Ascending(Len(list), positions)
         IN /\ kept \in Seq(S) /\ Len(kept) <= Len(list) /\ Len(kept) = Len(at)
            /\ at \in Seq(1 .. Len(list))
            /\ \A i \in 1 .. Len(kept) : kept[i] = list[at[i]] /\ at[i] \in 1 .. Len(list) /\ at[i] \in positions
            /\ \A i, j \in 1 .. Len(kept) : i < j => at[i] < at[j]
            /\ \A k \in 1 .. Len(list) : k \in positions => \E i \in 1 .. Len(kept) : at[i] = k
<1> DEFINE at == Ascending(Len(list), positions)
           kept == Subsequence(list, positions)
<1>1. Len(list) \in Nat
  OBVIOUS
<1>2. Ascends(at, Len(list), positions)
  BY <1>1, AscendingAscends
<1>3. kept = [i \in DOMAIN at |-> list[at[i]]]
  BY DEF Subsequence
<1> HIDE DEF at, kept
<1>4. at \in Seq(1 .. Len(list)) /\ DOMAIN at = 1 .. Len(at) /\ Len(at) \in Nat
  BY <1>2 DEF Ascends
<1>5. \A i \in 1 .. Len(at) : at[i] \in 1 .. Len(list) /\ list[at[i]] \in S
  BY <1>4
<1>6. kept \in Seq(S) /\ Len(kept) = Len(at) /\ \A i \in 1 .. Len(at) : kept[i] = list[at[i]]
  BY <1>3, <1>4, <1>5
<1> QED
  BY <1>2, <1>4, <1>5, <1>6 DEF Ascends, at, kept
=============================================================================
