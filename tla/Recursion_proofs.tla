-------------------------- MODULE Recursion_proofs --------------------------
(***************************************************************************)
(* Induction over numbers for sets instead of predicates, and what a       *)
(* function defined by recursion over 0..n is: the lemmas that the proofs  *)
(* about lists built element by element rest on.                           *)
(***************************************************************************)
EXTENDS Integers, Sequences, SequencesExt, WellFoundedInduction, NaturalsInduction, TLAPS

\* Every set of numbers that is not empty has a least one.
LEMMA LeastNumber ==
    ASSUME NEW S \in SUBSET Nat, S # {}
    PROVE  \E x \in S : \A y \in S : x <= y
  <1> DEFINE R == OpToRel(<, Nat)
  <1>1. IsWellFoundedOn(R, Nat)
    BY NatLessThanWellFounded
  <1> HIDE DEF R
  <1>2. PICK x \in S : \A y \in S : ~ (<<y, x>> \in R)
    BY <1>1, WFMin
  <1>3. ASSUME NEW y \in S, ~ (x <= y) PROVE <<y, x>> \in R
    BY <1>3 DEF R, OpToRel
  <1>4. QED
    BY <1>2, <1>3

\* A set that has 0, and with a number below n the next one too, has all of 0..n.
LEMMA SetInduction ==
    ASSUME NEW n \in Nat, NEW S, 0 \in S, \A k \in 0..(n - 1) : k \in S => k + 1 \in S
    PROVE  0..n \subseteq S
  <1> DEFINE missing == (0..n) \ S
  <1> SUFFICES ASSUME missing # {} PROVE FALSE
    OBVIOUS
  <1>0. missing \in SUBSET Nat
    OBVIOUS
  <1>1. PICK x \in missing : \A y \in missing : x <= y
    <2> HIDE DEF missing
    <2>1. QED
      BY <1>0, LeastNumber
  <1>2. x # 0 /\ x \in 1..n
    BY <1>1
  <1>3. x - 1 \notin missing /\ x - 1 \in 0..(n - 1)
    BY <1>1, <1>2
  <1>4. x - 1 \in S
    BY <1>3
  <1>5. (x - 1) + 1 \in S
    BY <1>3, <1>4
  <1>6. QED
    BY <1>1, <1>2, <1>5

\* f starts from a, and its value at k is computed by step from the one before.
Recurs(f, n, a, step) ==
    f = [k \in 0..n |-> IF k = 0 THEN a ELSE step[k][f[k - 1]]]

\* Such a function exists for every step that maps S to S,
LEMMA RecursionExists ==
    ASSUME NEW S, NEW a \in S, NEW n \in Nat, NEW step \in [Nat -> [S -> S]]
    PROVE  \E f : Recurs(f, n, a, step)
  <1> DEFINE Good == {k \in 0..n : \E f \in [0..k -> S] : Recurs(f, k, a, step)}
  <1>1. 0 \in Good
    <2>1. [j \in 0..0 |-> a] \in [0..0 -> S]
      OBVIOUS
    <2>2. Recurs([j \in 0..0 |-> a], 0, a, step)
      BY DEF Recurs
    <2>3. QED
      BY <2>1, <2>2
  <1>2. ASSUME NEW k \in 0..(n - 1), k \in Good
        PROVE  k + 1 \in Good
    <2>1. PICK f \in [0..k -> S] : Recurs(f, k, a, step)
      BY <1>2
    <2> DEFINE g == [j \in 0..(k + 1) |-> IF j = k + 1 THEN step[k + 1][f[k]] ELSE f[j]]
    <2>2. step[k + 1][f[k]] \in S
      <3>1. step[k + 1] \in [S -> S] /\ f[k] \in S
        OBVIOUS
      <3>2. QED
        BY <3>1
    <2>3. g \in [0..(k + 1) -> S]
      BY <2>2
    <2>4. ASSUME NEW j \in 0..(k + 1)
          PROVE  g[j] = IF j = 0 THEN a ELSE step[j][g[j - 1]]
      <3>1. CASE j = k + 1
        BY <3>1
      <3>2. CASE j # k + 1
        <4>1. j \in 0..k /\ g[j] = f[j]
          BY <3>2
        <4>2. f[j] = IF j = 0 THEN a ELSE step[j][f[j - 1]]
          BY <4>1, <2>1 DEF Recurs
        <4>3. j # 0 => g[j - 1] = f[j - 1]
          BY <4>1
        <4>4. QED
          BY <4>1, <4>2, <4>3
      <3>3. QED
        BY <3>1, <3>2
    <2> DEFINE h == [j \in 0..(k + 1) |-> IF j = 0 THEN a ELSE step[j][g[j - 1]]]
    <2>5. g = h
      <3> HIDE DEF g
      <3>1. DOMAIN g = 0..(k + 1) /\ g = [j \in 0..(k + 1) |-> g[j]]
        BY <2>3
      <3>2. QED
        BY <3>1, <2>4
    <2>6. Recurs(g, k + 1, a, step)
      BY <2>5 DEF Recurs
    <2> HIDE DEF g
    <2>7. QED
      BY <2>3, <2>6
  <1>3. 0..n \subseteq Good
    <2> HIDE DEF Good
    <2>1. QED
      BY <1>1, <1>2, SetInduction
  <1>4. n \in Good
    BY <1>3
  <1>5. QED
    BY <1>4

\* and all its values are in S.
LEMMA RecursionType ==
    ASSUME NEW S, NEW a \in S, NEW n \in Nat, NEW step \in [Nat -> [S -> S]],
           NEW f, Recurs(f, n, a, step)
    PROVE  f \in [0..n -> S]
  <1> DEFINE Good == {k \in 0..n : f[k] \in S}
  <1>1. DOMAIN f = 0..n /\ \A k \in 0..n : f[k] = IF k = 0 THEN a ELSE step[k][f[k - 1]]
    BY DEF Recurs
  <1>2. 0 \in Good
    BY <1>1
  <1>3. ASSUME NEW k \in 0..(n - 1), k \in Good
        PROVE  k + 1 \in Good
    <2>1. f[k + 1] = step[k + 1][f[k]] /\ f[k] \in S
      BY <1>1, <1>3
    <2>2. step[k + 1] \in [S -> S]
      OBVIOUS
    <2>3. QED
      BY <2>1, <2>2
  <1>4. 0..n \subseteq Good
    <2> HIDE DEF Good
    <2>1. QED
      BY <1>2, <1>3, SetInduction
  <1>5. \A k \in 0..n : f[k] \in S
    BY <1>4
  <1>6. f = [k \in 0..n |-> f[k]]
    BY DEF Recurs
  <1>7. QED
    BY <1>5, <1>6

\* Two functions with the same start and the same steps are the same.
LEMMA RecursionUnique ==
    ASSUME NEW a, NEW n \in Nat, NEW step, NEW f, NEW g,
           Recurs(f, n, a, step), Recurs(g, n, a, step)
    PROVE  f = g
  <1> DEFINE Good == {k \in 0..n : f[k] = g[k]}
  <1>1. \A k \in 0..n : /\ f[k] = IF k = 0 THEN a ELSE step[k][f[k - 1]]
                        /\ g[k] = IF k = 0 THEN a ELSE step[k][g[k - 1]]
    BY DEF Recurs
  <1>2. 0 \in Good
    BY <1>1
  <1>3. ASSUME NEW k \in 0..(n - 1), k \in Good
        PROVE  k + 1 \in Good
    BY <1>1, <1>3
  <1>4. 0..n \subseteq Good
    <2> HIDE DEF Good
    <2>1. QED
      BY <1>2, <1>3, SetInduction
  <1>5. f = [k \in 0..n |-> f[k]] /\ g = [k \in 0..n |-> g[k]]
    BY DEF Recurs
  <1>6. QED
    BY <1>4, <1>5

\* FlattenSeq puts the sequences behind the first one, one after the other,
LEMMA FlattenIs ==
    ASSUME NEW T, NEW s \in Seq(Seq(T)), Len(s) # 0
    PROVE  \E f \in [1..Len(s) -> Seq(T)] :
               /\ \A k \in 1..Len(s) : f[k] = IF k = 1 THEN s[k] ELSE f[k - 1] \o s[k]
               /\ FlattenSeq(s) = f[Len(s)]
  <1> DEFINE n == Len(s)
             Flattens(f) == f = [k \in 1..n |-> IF k = 1 THEN s[k] ELSE f[k - 1] \o s[k]]
             flatten == CHOOSE f : Flattens(f)
  <1>1. n \in Nat /\ \A k \in 1..n : s[k] \in Seq(T)
    OBVIOUS
  <1>2. n # 0
    OBVIOUS
  <1> DEFINE step == [k \in Nat |-> [x \in Seq(T) |->
                         IF k \in 1..n THEN (IF k = 1 THEN s[k] ELSE x \o s[k]) ELSE x]]
  <1>3. step \in [Nat -> [Seq(T) -> Seq(T)]]
    <2>1. ASSUME NEW k \in Nat, NEW x \in Seq(T)
          PROVE  (IF k \in 1..n THEN (IF k = 1 THEN s[k] ELSE x \o s[k]) ELSE x) \in Seq(T)
      <3>1. CASE k \in 1..n
        <4>1. s[k] \in Seq(T)
          BY <3>1, <1>1
        <4>2. x \o s[k] \in Seq(T)
          BY <4>1
        <4>3. QED
          BY <4>1, <4>2
      <3>2. CASE k \notin 1..n
        BY <3>2
      <3>3. QED
        BY <3>1, <3>2
    <2>2. QED
      BY <2>1
  <1>4. <<>> \in Seq(T)
    OBVIOUS
  <1>5. PICK g : Recurs(g, n, <<>>, step)
    <2> HIDE DEF step, n
    <2>1. QED
      BY <1>1, <1>3, <1>4, RecursionExists
  <1>6. g \in [0..n -> Seq(T)]
    <2> HIDE DEF step, n
    <2>1. QED
      BY <1>1, <1>3, <1>4, <1>5, RecursionType
  <1> DEFINE h == [k \in 1..n |-> g[k]]
  <1>7. ASSUME NEW k \in 1..n
        PROVE  h[k] = IF k = 1 THEN s[k] ELSE h[k - 1] \o s[k]
    <2>1. g[k] = step[k][g[k - 1]] /\ g[k - 1] \in Seq(T)
      <3> HIDE DEF step
      <3>1. k \in 0..n /\ k # 0 /\ k - 1 \in 0..n
        BY <1>1
      <3>2. QED
        BY <3>1, <1>5, <1>6 DEF Recurs
    <2>2. step[k][g[k - 1]] = IF k = 1 THEN s[k] ELSE g[k - 1] \o s[k]
      BY <2>1
    <2>3. k # 1 => h[k - 1] = g[k - 1]
      BY <1>1
    <2>4. QED
      BY <2>1, <2>2, <2>3
  <1>8. Flattens(h)
    <2> HIDE DEF h
    <2>1. h = [k \in 1..n |-> h[k]]
      BY DEF h
    <2>2. QED
      BY <2>1, <1>7
  <1>9. Flattens(flatten)
    <2> HIDE DEF Flattens, h
    <2>1. \E f : Flattens(f)
      BY <1>8
    <2>2. QED
      BY <2>1
  <1> HIDE DEF flatten
  <1>10. DOMAIN flatten = 1..n /\ \A k \in 1..n : flatten[k] = IF k = 1 THEN s[k] ELSE flatten[k - 1] \o s[k]
    BY <1>9
  <1> DEFINE Good == {k \in 0..n : k = 0 \/ flatten[k] \in Seq(T)}
  <1>11. 0 \in Good
    BY <1>1
  <1>12. ASSUME NEW k \in 0..(n - 1), k \in Good
         PROVE  k + 1 \in Good
    <2>1. k + 1 \in 1..n /\ s[k + 1] \in Seq(T)
      BY <1>1
    <2>2. flatten[k + 1] = IF k + 1 = 1 THEN s[k + 1] ELSE flatten[k] \o s[k + 1]
      <3> DEFINE m == k + 1
      <3>1. flatten[m] = IF m = 1 THEN s[m] ELSE flatten[m - 1] \o s[m]
        BY <2>1, <1>10
      <3>2. m - 1 = k
        OBVIOUS
      <3> HIDE DEF m
      <3>3. flatten[m] = IF m = 1 THEN s[m] ELSE flatten[k] \o s[m]
        BY <3>1, <3>2
      <3>4. QED
        BY <3>3 DEF m
    <2>3. k # 0 => flatten[k] \in Seq(T)
      BY <1>12
    <2>4. flatten[k + 1] \in Seq(T)
      BY <2>1, <2>2, <2>3
    <2>5. QED
      BY <2>1, <2>4
  <1>13. 0..n \subseteq Good
    <2> HIDE DEF Good, n
    <2>1. QED
      BY <1>1, <1>11, <1>12, SetInduction
  <1>14. flatten \in [1..n -> Seq(T)]
    <2>1. \A k \in 1..n : flatten[k] \in Seq(T)
      <3>1. \A k \in 1..n : k \in 0..n /\ k # 0
        BY <1>1
      <3>2. QED
        BY <1>13, <3>1
    <2>2. flatten = [k \in 1..n |-> flatten[k]]
      BY <1>9
    <2>3. QED
      BY <2>1, <2>2
  <1>15. FlattenSeq(s) = flatten[n]
    BY <1>2 DEF FlattenSeq, flatten
  <1>16. QED
    BY <1>2, <1>10, <1>14, <1>15

\* and makes one sequence out of a sequence of sequences.
LEMMA FlattenType ==
    ASSUME NEW T, NEW s \in Seq(Seq(T))
    PROVE  FlattenSeq(s) \in Seq(T)
  <1>1. CASE Len(s) = 0
    <2>1. FlattenSeq(s) = s /\ s = <<>>
      BY <1>1 DEF FlattenSeq
    <2>2. QED
      BY <2>1
  <1>2. CASE Len(s) # 0
    <2>1. PICK f \in [1..Len(s) -> Seq(T)] : FlattenSeq(s) = f[Len(s)]
      BY <1>2, FlattenIs
    <2>2. Len(s) \in 1..Len(s)
      BY <1>2
    <2>3. QED
      BY <2>1, <2>2
  <1>3. QED
    BY <1>1, <1>2
=============================================================================
