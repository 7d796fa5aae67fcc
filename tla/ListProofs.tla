----------------------------- MODULE ListProofs -----------------------------
(***************************************************************************)
(* Induction over data, for the loops of the dashboard that run over a     *)
(* list.  The principle is stated for a set instead of a predicate, and    *)
(* rests on the least element of a set of numbers.  LoopRuns gives a loop  *)
(* its run, the values its accumulator takes; WithoutFacts is what         *)
(* Without (ListOps) returns, used for the rows of LiveStream and the      *)
(* toasts of Pages.                                                        *)
(***************************************************************************)
EXTENDS ListOps, TLAPS, WellFoundedInduction

\* A set of numbers that is not empty has a least element.
LEMMA LeastElement ==
  ASSUME NEW T \in SUBSET Nat, T # {}
  PROVE  \E n \in T : \A m \in T : n <= m
<1> DEFINE R == OpToRel(<, Nat)
<1>1. IsWellFoundedOn(R, Nat)
  BY NatLessThanWellFounded
<1>2. PICK x \in T : \A y \in T : ~(<<y, x>> \in R)
  <2> HIDE DEF R
  <2> QED BY <1>1, WFMin
<1>3. \A y \in T : <<y, x>> \in R <=> y < x
  BY DEF OpToRel
<1>4. \A y \in T : ~(y < x)
  BY <1>2, <1>3
<1> QED BY <1>4

\* Induction, for a set instead of a predicate.
LEMMA Induction ==
  ASSUME NEW S, 0 \in S, \A n \in Nat : n \in S => n + 1 \in S
  PROVE  \A n \in Nat : n \in S
<1> SUFFICES ASSUME NEW k \in Nat, k \notin S PROVE FALSE
  OBVIOUS
<1> DEFINE T == {n \in Nat : n \notin S}
<1>1. T \in SUBSET Nat /\ T # {}
  OBVIOUS
<1> HIDE DEF T
<1>2. PICK n \in T : \A m \in T : n <= m
  BY <1>1, LeastElement
<1> USE DEF T
<1>3. n \in Nat /\ n # 0 /\ n \notin S
  OBVIOUS
<1>4. n - 1 \in Nat /\ n - 1 \in S
  BY <1>2, <1>3
<1> QED BY <1>3, <1>4

\* A loop over 1..n has a run: the values of its accumulator.
LEMMA LoopRuns ==
  ASSUME NEW A, NEW b \in A, NEW n \in Nat, NEW step \in [1..n -> [A -> A]]
  PROVE  \E f \in [0..n -> A] : f[0] = b /\ \A i \in 1..n : f[i] = step[i][f[i - 1]]
<1> DEFINE Run(f, m) == f \in [0..m -> A] /\ f[0] = b
                        /\ \A i \in 1..m : f[i] = step[i][f[i - 1]]
           S == {m \in Nat : m <= n => \E f : Run(f, m)}
<1>1. 0 \in S
  <2>1. Run([i \in 0..0 |-> b], 0)
    OBVIOUS
  <2> QED BY <2>1
<1>2. ASSUME NEW m \in Nat, m \in S PROVE m + 1 \in S
  <2> SUFFICES ASSUME m + 1 <= n PROVE \E f : Run(f, m + 1)
    OBVIOUS
  <2>1. PICK f : Run(f, m)
    BY <1>2
  <2> DEFINE g == [i \in 0..(m + 1) |-> IF i = m + 1 THEN step[m + 1][f[m]] ELSE f[i]]
  <2>2. step[m + 1][f[m]] \in A
    BY <2>1
  <2>3. g \in [0..(m + 1) -> A] /\ g[0] = b
    BY <2>1, <2>2
  <2>4. ASSUME NEW i \in 1..(m + 1) PROVE g[i] = step[i][g[i - 1]]
    <3>1. CASE i = m + 1
      BY <3>1
    <3>2. CASE i # m + 1
      BY <2>1, <3>2
    <3> QED BY <2>1, <3>1, <3>2
  <2> QED BY <2>3, <2>4
<1> HIDE DEF S
<1>3. n \in S
  BY <1>1, <1>2, Induction
<1> QED BY <1>3 DEF S

\* The same over 0..n.
LEMMA BoundedInduction ==
  ASSUME NEW n \in Nat, NEW S, 0 \in S, \A i \in 1..n : i - 1 \in S => i \in S
  PROVE  \A i \in 0..n : i \in S
<1> DEFINE T == {m \in Nat : m <= n => m \in S}
<1>1. 0 \in T /\ \A m \in Nat : m \in T => m + 1 \in T
  OBVIOUS
<1> HIDE DEF T
<1>2. \A m \in Nat : m \in T
  BY <1>1, Induction
<1> QED BY <1>2 DEF T

\* f holds what the loop of Without has kept after each turn.
WithoutLoop(f, S, s, D) ==
  /\ f \in [0..Len(s) -> Seq(S)] /\ f[0] = <<>>
  /\ \A i \in 1..Len(s) :
       f[i] = IF s[i] \in D THEN f[i - 1] ELSE Append(f[i - 1], s[i])

\* The loop of Without runs to its end.
LEMMA WithoutRun ==
  ASSUME NEW S, NEW s \in Seq(S), NEW D
  PROVE  \E f : WithoutLoop(f, S, s, D) /\ Without(s, D) = f[Len(s)]
<1> DEFINE n == Len(s)
           A == Seq(S)
           none == <<>>
           Turn(a, i) == IF s[i] \in D THEN a ELSE Append(a, s[i])
           step == [i \in 1..n |-> [a \in A |-> Turn(a, i)]]
           Body(f) == [i \in 0..n |-> IF i = 0 THEN none ELSE Turn(f[i - 1], i)]
           g == CHOOSE g : g = Body(g)
<1>1. n \in Nat /\ none \in A
  OBVIOUS
<1>2. \A a \in A, i \in 1..n : Turn(a, i) \in A
  OBVIOUS
<1>3. Without(s, D) = g[n]
  BY DEF Without
<1> HIDE DEF n, A, none, Turn
<1>4. step \in [1..n -> [A -> A]]
  BY <1>2
<1>5. PICK f \in [0..n -> A] : f[0] = none /\ \A i \in 1..n : f[i] = step[i][f[i - 1]]
  <2> HIDE DEF step
  <2> QED BY <1>1, <1>4, LoopRuns
<1>6. f = Body(f)
  <2>1. \A i \in 1..n : f[i] = Turn(f[i - 1], i)
    BY <1>1, <1>5
  <2> QED BY <1>1, <1>5, <2>1
<1>7. g = Body(g)
  <2> HIDE DEF Body
  <2> QED BY <1>6
<1> HIDE DEF g
<1>8. g[0] = none /\ \A i \in 1..n : g[i] = Turn(g[i - 1], i)
  BY <1>1, <1>7
<1>9. g \in [0..n -> A]
  <2> DEFINE T == {i \in 0..n : g[i] \in A}
  <2>1. 0 \in T /\ \A i \in 1..n : i - 1 \in T => i \in T
    BY <1>1, <1>2, <1>8
  <2> HIDE DEF T
  <2>2. \A i \in 0..n : i \in T
    BY <1>1, <2>1, BoundedInduction
  <2> QED BY <1>7, <2>2 DEF T
<1>10. WithoutLoop(g, S, s, D)
  BY <1>8, <1>9 DEF WithoutLoop, n, A, none, Turn
<1> QED BY <1>3, <1>10 DEF n

\* No entry of s is repeated.
Distinct(s) == \A i, j \in 1..Len(s) : s[i] = s[j] => i = j

\* r holds the entries of s up to i that are not in D, and nothing else.
Sifted(r, s, D, i) ==
  /\ Len(r) <= i
  /\ \A j \in 1..Len(r) : \E k \in 1..i : r[j] = s[k] /\ s[k] \notin D
  /\ \A k \in 1..i : s[k] \notin D => \E j \in 1..Len(r) : r[j] = s[k]
  /\ Distinct(s) => Distinct(r)

\* One turn of the loop that skips an entry.
LEMMA SiftedSkip ==
  ASSUME NEW S, NEW s \in Seq(S), NEW D, NEW r \in Seq(S), NEW i \in 1..Len(s),
         Sifted(r, s, D, i - 1), s[i] \in D
  PROVE  Sifted(r, s, D, i)
<1>1. Len(r) <= i
  BY DEF Sifted
<1>2. \A j \in 1..Len(r) : \E k \in 1..i : r[j] = s[k] /\ s[k] \notin D
  <2> TAKE j \in 1..Len(r)
  <2>1. PICK k \in 1..(i - 1) : r[j] = s[k] /\ s[k] \notin D
    BY DEF Sifted
  <2> QED BY <2>1
<1>3. \A k \in 1..i : s[k] \notin D => \E j \in 1..Len(r) : r[j] = s[k]
  <2> SUFFICES ASSUME NEW k \in 1..i, s[k] \notin D PROVE \E j \in 1..Len(r) : r[j] = s[k]
    OBVIOUS
  <2>1. k \in 1..(i - 1)
    OBVIOUS
  <2> QED BY <2>1 DEF Sifted
<1> QED BY <1>1, <1>2, <1>3 DEF Sifted

\* One turn of the loop that appends an entry.
LEMMA SiftedAppend ==
  ASSUME NEW S, NEW s \in Seq(S), NEW D, NEW r \in Seq(S), NEW i \in 1..Len(s),
         Sifted(r, s, D, i - 1), s[i] \notin D
  PROVE  Sifted(Append(r, s[i]), s, D, i)
<1> DEFINE m == Len(r)
           q == Append(r, s[i])
<1>1. /\ m \in Nat /\ i \in Nat /\ Len(q) = m + 1 /\ q[m + 1] = s[i]
      /\ \A j \in 1..m : q[j] = r[j]
  OBVIOUS
<1>2. /\ m <= i - 1
      /\ \A j \in 1..m : \E k \in 1..(i - 1) : r[j] = s[k] /\ s[k] \notin D
      /\ \A k \in 1..(i - 1) : s[k] \notin D => \E j \in 1..m : r[j] = s[k]
      /\ Distinct(s) => Distinct(r)
  BY DEF Sifted
<1> HIDE DEF m, q
<1>3. Len(q) <= i
  BY <1>1, <1>2
<1>4. \A j \in 1..Len(q) : \E k \in 1..i : q[j] = s[k] /\ s[k] \notin D
  <2> SUFFICES ASSUME NEW j \in 1..(m + 1)
               PROVE  \E k \in 1..i : q[j] = s[k] /\ s[k] \notin D
    BY <1>1
  <2>1. CASE j = m + 1
    BY <1>1, <2>1
  <2>2. CASE j # m + 1
    <3>1. j \in 1..m
      BY <1>1, <2>2
    <3>2. PICK k \in 1..(i - 1) : r[j] = s[k] /\ s[k] \notin D
      BY <1>2, <3>1
    <3> QED BY <1>1, <3>1, <3>2
  <2> QED BY <2>1, <2>2
<1>5. \A k \in 1..i : s[k] \notin D => \E j \in 1..Len(q) : q[j] = s[k]
  <2> SUFFICES ASSUME NEW k \in 1..i, s[k] \notin D
               PROVE  \E j \in 1..(m + 1) : q[j] = s[k]
    BY <1>1
  <2>1. CASE k = i
    BY <1>1, <2>1
  <2>2. CASE k # i
    <3>1. PICK j \in 1..m : r[j] = s[k]
      BY <1>1, <1>2, <2>2
    <3> QED BY <1>1, <3>1
  <2> QED BY <2>1, <2>2
<1>6. Distinct(s) => Distinct(q)
  <2> SUFFICES ASSUME Distinct(s), NEW k \in 1..(m + 1), NEW j \in 1..(m + 1), q[k] = q[j]
               PROVE  k = j
    BY <1>1 DEF Distinct
  <2>1. \A l \in 1..m : r[l] # s[i]
    <3> SUFFICES ASSUME NEW l \in 1..m, r[l] = s[i] PROVE FALSE
      OBVIOUS
    <3>1. PICK x \in 1..(i - 1) : r[l] = s[x]
      BY <1>2
    <3>2. x \in 1..Len(s) /\ x # i
      OBVIOUS
    <3> QED BY <3>1, <3>2 DEF Distinct
  <2>2. CASE k \in 1..m /\ j \in 1..m
    BY <1>1, <1>2, <2>2 DEF Distinct, m
  <2>3. CASE k = m + 1 \/ j = m + 1
    BY <1>1, <2>1, <2>3
  <2> QED BY <1>1, <2>2, <2>3
<1> QED BY <1>3, <1>4, <1>5, <1>6 DEF Sifted, q

\* Without removes the entries in D and nothing else, adds nothing, and repeats nothing.
LEMMA WithoutFacts ==
  ASSUME NEW S, NEW s \in Seq(S), NEW D
  PROVE  Without(s, D) \in Seq(S) /\ Sifted(Without(s, D), s, D, Len(s))
<1>1. PICK f : WithoutLoop(f, S, s, D) /\ Without(s, D) = f[Len(s)]
  BY WithoutRun
<1> DEFINE n == Len(s)
           T == {i \in 0..n : Sifted(f[i], s, D, i)}
<1>2. n \in Nat
  OBVIOUS
<1>3. 0 \in T
  BY <1>1, <1>2 DEF WithoutLoop, Sifted, Distinct
<1>4. ASSUME NEW i \in 1..n, i - 1 \in T PROVE i \in T
  <2>1. Sifted(f[i - 1], s, D, i - 1) /\ f[i - 1] \in Seq(S) /\ i \in 0..n
    BY <1>1, <1>2, <1>4 DEF WithoutLoop
  <2>2. CASE s[i] \in D
    <3>1. f[i] = f[i - 1]
      BY <1>1, <2>2 DEF WithoutLoop
    <3>2. Sifted(f[i - 1], s, D, i)
      BY <2>1, <2>2, SiftedSkip
    <3> QED BY <2>1, <3>1, <3>2
  <2>3. CASE s[i] \notin D
    <3>1. f[i] = Append(f[i - 1], s[i])
      BY <1>1, <2>3 DEF WithoutLoop
    <3>2. Sifted(Append(f[i - 1], s[i]), s, D, i)
      BY <2>1, <2>3, SiftedAppend
    <3> QED BY <2>1, <3>1, <3>2
  <2> QED BY <2>2, <2>3
<1> HIDE DEF T
<1>5. n \in T
  <2> HIDE DEF n
  <2>1. \A i \in 0..n : i \in T
    BY <1>2, <1>3, <1>4, BoundedInduction
  <2> QED BY <1>2, <2>1
<1> QED BY <1>1, <1>2, <1>5 DEF T, WithoutLoop

=============================================================================
