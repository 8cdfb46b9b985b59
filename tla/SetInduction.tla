--------------------------- MODULE SetInduction ---------------------------
(***************************************************************************)
(* Induction over the natural numbers, stated for sets of them, and what   *)
(* it gives: the least element of a set, and the existence of a function   *)
(* that is defined by recursion along a sequence.                          *)
(***************************************************************************)
EXTENDS SequencesExt, WellFoundedInduction, FiniteSetTheorems, SequenceTheorems,
        TLAPS

\* Every set of natural numbers that is not empty has a least element.
LEMMA LeastNatural ==
  ASSUME NEW T \in SUBSET Nat, T # {}
  PROVE  \E m \in T : \A n \in T : m <= n
<1>1. PICK R : /\ IsWellFoundedOn(R, Nat)
               /\ \A m, n \in Nat : <<m, n>> \in R <=> m < n
  <2>1. IsWellFoundedOn(OpToRel(<, Nat), Nat)
    BY NatLessThanWellFounded
  <2>2. \A m, n \in Nat : <<m, n>> \in OpToRel(<, Nat) <=> m < n
    BY DEF OpToRel
  <2>. QED  BY <2>1, <2>2, Zenon
<1>2. T \subseteq Nat /\ IsWellFoundedOn(R, Nat)
  BY <1>1
<1>3. PICK m \in T : \A n \in T : <<n, m>> \notin R
  BY <1>2, WFMin
<1>4. \A n \in T : m \in Nat /\ n \in Nat /\ ~(n < m)
  BY <1>1, <1>2, <1>3, Zenon
<1>. QED  BY <1>4

\* A set that contains 0, and with a number the next one, contains them all.
LEMMA SetInduction ==
  ASSUME NEW S, 0 \in S, \A n \in Nat : n \in S => n + 1 \in S
  PROVE  Nat \subseteq S
<1>1. SUFFICES ASSUME Nat \ S # {} PROVE FALSE
  OBVIOUS
<1>2. PICK m \in Nat \ S : \A n \in Nat \ S : m <= n
  BY <1>1, LeastNatural
<1>3. m - 1 \in Nat /\ m - 1 \in S
  BY <1>2
<1>. QED  BY <1>2, <1>3

\* What is computed along 1 .. n by a step function that is applied to the
\* result of the previous place.
Computes(g, n, base, step) ==
  g = [i \in 1 .. n |-> IF i = 1 THEN base ELSE step[<<g[i - 1], i>>]]

\* Such a recursion has a solution.
LEMMA RecursionExists ==
  ASSUME NEW A, NEW base \in A, NEW step \in [A \X Nat -> A], NEW n \in Nat
  PROVE  \E g \in [1 .. n -> A] : Computes(g, n, base, step)
<1>. DEFINE Solves(g, k) ==
              \A i \in 1 .. k : g[i] = IF i = 1 THEN base ELSE step[<<g[i - 1], i>>]
            S == {k \in Nat : \E g \in [1 .. k -> A] : Solves(g, k)}
<1>1. 0 \in S
  <2>. DEFINE g == [i \in 1 .. 0 |-> base]
  <2>1. g \in [1 .. 0 -> A] /\ Solves(g, 0)
    OBVIOUS
  <2>. HIDE DEF g, Solves
  <2>. QED  BY <2>1
<1>2. ASSUME NEW k \in Nat, k \in S PROVE k + 1 \in S
  <2>1. PICK g \in [1 .. k -> A] : Solves(g, k)
    BY <1>2
  <2>. DEFINE next == IF k = 0 THEN base ELSE step[<<g[k], k + 1>>]
              h == [i \in 1 .. k + 1 |-> IF i = k + 1 THEN next ELSE g[i]]
  <2>2. next \in A
    <3>1. CASE k = 0
      BY <3>1
    <3>2. CASE k # 0
      <4>1. g[k] \in A /\ k + 1 \in Nat
        BY <3>2
      <4>. QED  BY <3>2, <4>1
    <3>. QED  BY <3>1, <3>2
  <2>3. h \in [1 .. k + 1 -> A]
    BY <2>2
  <2>4. ASSUME NEW i \in 1 .. k + 1
        PROVE  h[i] = IF i = 1 THEN base ELSE step[<<h[i - 1], i>>]
    <3>1. CASE i = k + 1
      <4>1. h[i] = next /\ (i = 1 <=> k = 0)
        BY <3>1
      <4>2. k # 0 => h[i - 1] = g[k]
        BY <3>1
      <4>. QED  BY <3>1, <4>1, <4>2
    <3>2. CASE i # k + 1
      <4>1. i \in 1 .. k /\ h[i] = g[i] /\ (i # 1 => h[i - 1] = g[i - 1])
        BY <3>2
      <4>. QED  BY <2>1, <4>1
    <3>. QED  BY <3>1, <3>2
  <2>5. Solves(h, k + 1)
    BY <2>4
  <2>. HIDE DEF h, Solves
  <2>. QED  BY <2>3, <2>5
<1>. HIDE DEF S
<1>3. n \in S
  BY <1>1, <1>2, SetInduction
<1>4. PICK g \in [1 .. n -> A] : Solves(g, n)
  BY <1>3 DEF S
<1>5. Computes(g, n, base, step)
  BY <1>4 DEF Computes
<1>. QED  BY <1>5

\* Among 0 and the values that a function has on a finite set, one is the
\* greatest.
LEMMA GreatestValue ==
  ASSUME NEW S, IsFiniteSet(S), NEW f \in [S -> Int]
  PROVE  \E m \in Nat : /\ m = 0 \/ \E x \in S : m = f[x]
                        /\ \A x \in S : f[x] <= m
<1>1. PICK n \in Nat : ExistsSurjection(1 .. n, S)
  BY FS_NatSurjection
<1>2. PICK g \in [1 .. n -> S] : \A x \in S : \E i \in 1 .. n : g[i] = x
  BY <1>1 DEF ExistsSurjection, Surjection
<1>. DEFINE Greatest(m, k) == /\ m = 0 \/ \E x \in S : m = f[x]
                              /\ \A i \in 1 .. n : i <= k => f[g[i]] <= m
            T == {k \in Nat : \E m \in Nat : Greatest(m, k)}
<1>3. 0 \in T
  BY <1>2
<1>4. ASSUME NEW k \in Nat, k \in T PROVE k + 1 \in T
  <2>1. PICK m \in Nat : Greatest(m, k)
    BY <1>4
  <2>2. CASE k + 1 \in 1 .. n /\ f[g[k + 1]] > m
    <3>. DEFINE v == f[g[k + 1]]
    <3>1. v \in Nat /\ \E x \in S : v = f[x]
      BY <1>2, <2>2
    <3>2. ASSUME NEW i \in 1 .. n, i <= k + 1 PROVE f[g[i]] <= v
      <4>1. CASE i = k + 1
        BY <3>1, <4>1
      <4>2. CASE i # k + 1
        <5>1. i <= k /\ f[g[i]] \in Int
          BY <1>2, <3>2, <4>2
        <5>. QED  BY <2>1, <2>2, <3>1, <5>1
      <4>. QED  BY <4>1, <4>2
    <3>. HIDE DEF v
    <3>. QED  BY <3>1, <3>2
  <2>3. CASE ~(k + 1 \in 1 .. n /\ f[g[k + 1]] > m)
    <3>1. ASSUME NEW i \in 1 .. n, i <= k + 1 PROVE f[g[i]] <= m
      <4>1. f[g[i]] \in Int /\ (i <= k \/ i = k + 1)
        BY <1>2, <3>1
      <4>. QED  BY <2>1, <2>3, <4>1
    <3>. QED  BY <2>1, <3>1
  <2>. QED  BY <2>2, <2>3
<1>. HIDE DEF T
<1>5. n \in T
  BY <1>3, <1>4, SetInduction
<1>6. PICK m \in Nat : Greatest(m, n)
  BY <1>5 DEF T
<1>7. \A x \in S : f[x] <= m
  BY <1>2, <1>6
<1>. QED  BY <1>6, <1>7

(***************************************************************************)
(* The least and the greatest of a set of numbers.                         *)
(***************************************************************************)

\* Min() finds the least of any numbers.
LEMMA MinIsLeast ==
  ASSUME NEW T \in SUBSET Nat, T # {}
  PROVE  Min(T) \in T /\ \A n \in T : Min(T) <= n
<1>1. \E m \in T : \A n \in T : m =< n
  BY LeastNatural
<1>. QED  BY <1>1 DEF Min

\* Max() finds the greatest of finitely many numbers: those below a bound.
LEMMA MaxIsGreatest ==
  ASSUME NEW T \in SUBSET Nat, T # {}, NEW b \in Nat, \A n \in T : n <= b
  PROVE  Max(T) \in T /\ \A n \in T : n <= Max(T)
<1>. DEFINE Bounds == {c \in Nat : \A n \in T : n <= c}
<1>0. Bounds \in SUBSET Nat /\ Bounds # {}
  OBVIOUS
<1>1. PICK m \in Bounds : \A c \in Bounds : m <= c
  <2>. HIDE DEF Bounds
  <2>. QED  BY <1>0, LeastNatural
<1>2. m \in T
  <2>1. SUFFICES ASSUME m \notin T PROVE FALSE
    OBVIOUS
  <2>2. m \in Nat /\ \A n \in T : n \in Nat /\ n < m
    BY <1>1, <2>1
  <2>3. PICK n \in T : TRUE
    OBVIOUS
  <2>4. m - 1 \in Nat
    BY <2>2, <2>3
  <2>5. \A k \in T : k <= m - 1
    BY <2>2
  <2>6. m - 1 \in Bounds
    BY <2>4, <2>5
  <2>7. m <= m - 1
    <3>. HIDE DEF Bounds
    <3>. QED  BY <1>1, <2>6
  <2>. QED  BY <2>2, <2>7
<1>3. \A n \in T : m >= n
  BY <1>1
<1>4. \E x \in T : \A y \in T : x >= y
  BY <1>2, <1>3
<1>5. Max(T) \in T /\ \A y \in T : Max(T) >= y
  BY <1>4 DEF Max
<1>. QED  BY <1>5

\* The greater and the smaller of two numbers.
LEMMA MaxOfTwo ==
  ASSUME NEW a \in Int, NEW b \in Int
  PROVE  Max({a, b}) = IF a >= b THEN a ELSE b
<1>1. \E x \in {a, b} : \A y \in {a, b} : x >= y
  OBVIOUS
<1>2. Max({a, b}) \in {a, b} /\ \A y \in {a, b} : Max({a, b}) >= y
  BY <1>1 DEF Max
<1>. QED  BY <1>2

LEMMA MinOfTwo ==
  ASSUME NEW a \in Int, NEW b \in Int
  PROVE  Min({a, b}) = IF a <= b THEN a ELSE b
<1>1. \E x \in {a, b} : \A y \in {a, b} : x =< y
  OBVIOUS
<1>2. Min({a, b}) \in {a, b} /\ \A y \in {a, b} : Min({a, b}) =< y
  BY <1>1 DEF Min
<1>. QED  BY <1>2

(***************************************************************************)
(* Sequences that are put one behind the other.                            *)
(***************************************************************************)

\* FlattenSeq() puts them together from the first to the last.
LEMMA FlattenRecursion ==
  ASSUME NEW S, NEW seqs \in Seq(Seq(S)), seqs # <<>>
  PROVE  \E g \in [1 .. Len(seqs) -> Seq(S)] :
           /\ FlattenSeq(seqs) = g[Len(seqs)]
           /\ g[1] = seqs[1]
           /\ \A i \in 1 .. Len(seqs) : i # 1 => g[i] = g[i - 1] \o seqs[i]
<1>. DEFINE A == Seq(S)
            n == Len(seqs)
            step == [x \in A \X Nat |-> IF x[2] \in 1 .. n THEN x[1] \o seqs[x[2]] ELSE x[1]]
            P(f) == f = [i \in 1 .. n |-> IF i = 1 THEN seqs[i] ELSE f[i - 1] \o seqs[i]]
<1>1. n \in Nat \ {0} /\ \A i \in 1 .. n : seqs[i] \in A
  BY EmptySeq, ElementOfSeq
<1>2. \A s, t \in A : s \o t \in A
  BY ConcatProperties
<1>3. step \in [A \X Nat -> A]
  <2>. HIDE DEF A, n
  <2>. QED  BY <1>1, <1>2
<1>4. seqs[1] \in A
  BY <1>1
<1>5. PICK f \in [1 .. n -> A] : Computes(f, n, seqs[1], step)
  <2>. HIDE DEF A, n, step
  <2>. QED  BY <1>1, <1>3, <1>4, RecursionExists
<1>6. P(f)
  <2>1. ASSUME NEW i \in 1 .. n, i # 1
        PROVE  step[<<f[i - 1], i>>] = f[i - 1] \o seqs[i]
    <3>1. i \in Nat /\ i - 1 \in 1 .. n
      BY <1>1, <2>1
    <3>. HIDE DEF A, n
    <3>2. f[i - 1] \in A
      BY <3>1
    <3>. DEFINE x == <<f[i - 1], i>>
    <3>3. x \in A \X Nat /\ x[1] = f[i - 1] /\ x[2] = i
      BY <3>1, <3>2
    <3>4. step[x] = IF x[2] \in 1 .. n THEN x[1] \o seqs[x[2]] ELSE x[1]
      <4>. HIDE DEF x
      <4>. QED  BY <3>3 DEF step
    <3>. QED  BY <3>3, <3>4
  <2>. HIDE DEF A, n, step
  <2>. QED  BY <1>5, <2>1 DEF Computes
<1>7. FlattenSeq(seqs) = (CHOOSE g : P(g))[n]
  BY <1>1 DEF FlattenSeq
<1>. DEFINE g == CHOOSE h : P(h)
<1>8. P(g)
  <2>. HIDE DEF P
  <2>. QED  BY <1>6
<1>9. FlattenSeq(seqs) = g[n]
  BY <1>7
<1>. HIDE DEF g
<1>10. g = [i \in 1 .. n |-> IF i = 1 THEN seqs[i] ELSE g[i - 1] \o seqs[i]]
  BY <1>8
<1>11. g[1] = seqs[1] /\ \A i \in 1 .. n : i # 1 => g[i] = g[i - 1] \o seqs[i]
  <2>1. 1 \in 1 .. n
    BY <1>1
  <2>. HIDE DEF n, P, step, A
  <2>2. ASSUME NEW i \in 1 .. n
        PROVE  g[i] = IF i = 1 THEN seqs[i] ELSE g[i - 1] \o seqs[i]
    BY <1>10
  <2>. QED  BY <2>1, <2>2
<1>12. \A k \in Nat : k + 1 \in 1 .. n => g[k + 1] \in A
  <2>. DEFINE T == {k \in Nat : k + 1 \in 1 .. n => g[k + 1] \in A}
  <2>. HIDE DEF A, n
  <2>1. 0 \in T
    BY <1>1, <1>11
  <2>2. ASSUME NEW k \in Nat, k \in T PROVE k + 1 \in T
    <3>1. SUFFICES ASSUME (k + 1) + 1 \in 1 .. n PROVE g[(k + 1) + 1] \in A
      OBVIOUS
    <3>. DEFINE j == (k + 1) + 1
    <3>2. k + 1 \in 1 .. n /\ j # 1 /\ j - 1 = k + 1
      BY <1>1, <3>1
    <3>3. g[k + 1] \in A /\ seqs[j] \in A
      BY <1>1, <2>2, <3>1, <3>2
    <3>4. g[j] = g[k + 1] \o seqs[j]
      <4>. HIDE DEF j
      <4>. QED  BY <1>11, <3>1, <3>2 DEF j
    <3>. QED  BY <1>2, <3>3, <3>4
  <2>. HIDE DEF T
  <2>3. Nat \subseteq T
    BY <2>1, <2>2, SetInduction
  <2>. QED  BY <2>3 DEF T
<1>13. g \in [1 .. n -> A]
  <2>1. ASSUME NEW i \in 1 .. n PROVE g[i] \in A
    <3>1. i - 1 \in Nat /\ (i - 1) + 1 = i
      BY <1>1
    <3>. HIDE DEF A, n
    <3>. QED  BY <1>12, <3>1
  <2>2. g = [i \in 1 .. n |-> g[i]]
    <3>. HIDE DEF n
    <3>. QED  BY <1>10
  <2>. HIDE DEF A, n
  <2>. QED  BY <2>1, <2>2
<1>. QED  BY <1>9, <1>11, <1>13

\* Where each element of the whole comes from: the places are in order, and a
\* part that is not empty has one.
ComesFrom(seqs, flat, place) ==
  /\ place \in [1 .. Len(flat) -> 1 .. Len(seqs)]
  /\ \A m \in 1 .. Len(flat) :
       \E r \in 1 .. Len(seqs[place[m]]) : flat[m] = seqs[place[m]][r]
  /\ \A m, o \in 1 .. Len(flat) : m <= o => place[m] <= place[o]
  /\ \A i \in 1 .. Len(seqs) : seqs[i] # <<>> => \E m \in 1 .. Len(flat) : place[m] = i

LEMMA FlattenPlaces ==
  ASSUME NEW S, NEW seqs \in Seq(Seq(S))
  PROVE  /\ FlattenSeq(seqs) \in Seq(S)
         /\ \E place : ComesFrom(seqs, FlattenSeq(seqs), place)
<1>1. CASE seqs = <<>>
  <2>1. FlattenSeq(seqs) = <<>> /\ Len(seqs) = 0
    BY <1>1 DEF FlattenSeq
  <2>. DEFINE place == [m \in 1 .. 0 |-> 1]
  <2>2. place \in [1 .. 0 -> 1 .. 0]
    OBVIOUS
  <2>3. ComesFrom(seqs, <<>>, place)
    <3>1. Len(<<>>) = 0 /\ 1 .. 0 = {}
      OBVIOUS
    <3>. HIDE DEF place
    <3>. QED  BY <2>1, <2>2, <3>1 DEF ComesFrom
  <2>. QED  BY <2>1, <2>3, EmptySeq
<1>2. CASE seqs # <<>>
  <2>1. PICK g \in [1 .. Len(seqs) -> Seq(S)] :
           /\ FlattenSeq(seqs) = g[Len(seqs)]
           /\ g[1] = seqs[1]
           /\ \A i \in 1 .. Len(seqs) : i # 1 => g[i] = g[i - 1] \o seqs[i]
    BY <1>2, FlattenRecursion
  <2>. DEFINE n == Len(seqs)
              Upto(place, k) ==
                /\ place \in [1 .. Len(g[k]) -> 1 .. k]
                /\ \A m \in 1 .. Len(g[k]) :
                     \E r \in 1 .. Len(seqs[place[m]]) : g[k][m] = seqs[place[m]][r]
                /\ \A m, o \in 1 .. Len(g[k]) : m <= o => place[m] <= place[o]
                /\ \A i \in 1 .. k : seqs[i] # <<>> => \E m \in 1 .. Len(g[k]) : place[m] = i
              T == {k \in Nat : k + 1 \in 1 .. n => \E place : Upto(place, k + 1)}
  <2>2. n \in Nat \ {0} /\ \A i \in 1 .. n : seqs[i] \in Seq(S) /\ g[i] \in Seq(S)
    BY <1>2, EmptySeq, ElementOfSeq
  <2>3. 0 \in T
    <3>1. g[1] = seqs[1] /\ seqs[1] \in Seq(S) /\ Len(seqs[1]) \in Nat
      BY <2>1, <2>2
    <3>. DEFINE place == [m \in 1 .. Len(seqs[1]) |-> 1]
    <3>2. seqs[1] # <<>> => 1 \in 1 .. Len(seqs[1])
      BY <3>1, EmptySeq
    <3>3. place \in [1 .. Len(seqs[1]) -> 1 .. 1] /\ \A m \in 1 .. Len(seqs[1]) : place[m] = 1
      OBVIOUS
    <3>4. \A i \in 1 .. 1 : i = 1
      OBVIOUS
    <3>5. Upto(place, 1)
      <4>. HIDE DEF place
      <4>1. place \in [1 .. Len(g[1]) -> 1 .. 1]
        BY <3>1, <3>3
      <4>2. ASSUME NEW m \in 1 .. Len(g[1])
            PROVE  /\ \E r \in 1 .. Len(seqs[place[m]]) : g[1][m] = seqs[place[m]][r]
                   /\ place[m] = 1
        <5>1. place[m] = 1 /\ m \in 1 .. Len(seqs[place[m]]) /\ g[1][m] = seqs[place[m]][m]
          BY <3>1, <3>3
        <5>. QED  BY <5>1
      <4>3. \A m, o \in 1 .. Len(g[1]) : m <= o => place[m] <= place[o]
        BY <4>2
      <4>4. \A i \in 1 .. 1 : seqs[i] # <<>> => \E m \in 1 .. Len(g[1]) : place[m] = i
        BY <3>1, <3>2, <3>4, <4>2
      <4>. QED  BY <4>1, <4>2, <4>3, <4>4
    <3>. HIDE DEF Upto, place
    <3>. QED  BY <3>5
  <2>4. ASSUME NEW k \in Nat, k \in T PROVE k + 1 \in T
    <3>. DEFINE j == k + 2
    <3>1. SUFFICES ASSUME j \in 1 .. n PROVE \E place : Upto(place, j)
      <4>. HIDE DEF Upto
      <4>1. (k + 1) + 1 = j
        OBVIOUS
      <4>. QED  BY <4>1
    <3>2. j - 1 \in 1 .. n /\ j # 1 /\ j - 1 = k + 1 /\ j - 1 \in Nat
      BY <2>2, <3>1
    <3>. DEFINE i == j - 1
    <3>3. PICK place : Upto(place, i)
      <4>. HIDE DEF Upto
      <4>. QED  BY <2>4, <3>2
    <3>. DEFINE s == g[i]
                t == seqs[j]
                next == [m \in 1 .. Len(s) + Len(t) |-> IF m <= Len(s) THEN place[m] ELSE j]
    <3>4. s \in Seq(S) /\ t \in Seq(S) /\ g[j] = s \o t
      BY <2>1, <2>2, <3>1, <3>2
    <3>5. Len(s) \in Nat /\ Len(t) \in Nat /\ Len(g[j]) = Len(s) + Len(t)
      BY <3>4
    <3>6. \A m \in 1 .. Len(s) + Len(t) :
            g[j][m] = IF m <= Len(s) THEN s[m] ELSE t[m - Len(s)]
      BY <3>4, ConcatProperties
    <3>7. /\ place \in [1 .. Len(s) -> 1 .. i]
          /\ \A m \in 1 .. Len(s) : \E r \in 1 .. Len(seqs[place[m]]) : s[m] = seqs[place[m]][r]
          /\ \A m, o \in 1 .. Len(s) : m <= o => place[m] <= place[o]
          /\ \A h \in 1 .. i : seqs[h] # <<>> => \E m \in 1 .. Len(s) : place[m] = h
      BY <3>3
    <3>8. i \in Nat /\ j = i + 1
      BY <3>2
    <3>9. t # <<>> => Len(t) > 0
      BY <3>4, <3>5, EmptySeq
    <3>. HIDE DEF s, t, i, j
    <3>10. \A m \in 1 .. Len(s) + Len(t) :
             \/ m \in 1 .. Len(s) /\ next[m] = place[m] /\ next[m] \in 1 .. i /\ g[j][m] = s[m]
             \/ /\ m \notin 1 .. Len(s) /\ m > Len(s) /\ next[m] = j
                /\ m - Len(s) \in 1 .. Len(t) /\ g[j][m] = t[m - Len(s)]
      BY <3>5, <3>6, <3>7
    <3>11. next \in [1 .. Len(g[j]) -> 1 .. j]
      BY <3>5, <3>7, <3>8
    <3>. HIDE DEF next
    <3>12. ASSUME NEW m \in 1 .. Len(g[j])
           PROVE  \E r \in 1 .. Len(seqs[next[m]]) : g[j][m] = seqs[next[m]][r]
      <4>1. CASE m \in 1 .. Len(s) /\ next[m] = place[m] /\ g[j][m] = s[m]
        <5>1. PICK r \in 1 .. Len(seqs[place[m]]) : s[m] = seqs[place[m]][r]
          BY <3>7, <4>1
        <5>. QED  BY <4>1, <5>1
      <4>2. CASE next[m] = j /\ m - Len(s) \in 1 .. Len(t) /\ g[j][m] = t[m - Len(s)]
        BY <4>2 DEF t
      <4>. QED  BY <3>5, <3>10, <4>1, <4>2
    <3>13. ASSUME NEW m \in 1 .. Len(g[j]), NEW o \in 1 .. Len(g[j]), m <= o
           PROVE  next[m] <= next[o]
      <4>1. m \in 1 .. Len(s) + Len(t) /\ o \in 1 .. Len(s) + Len(t)
        BY <3>5
      <4>2. CASE o \in 1 .. Len(s)
        <5>1. m \in 1 .. Len(s)
          BY <3>5, <3>13, <4>2
        <5>2. next[m] = place[m] /\ next[o] = place[o]
          BY <3>10, <4>1, <4>2, <5>1
        <5>. QED  BY <3>7, <3>13, <4>2, <5>1, <5>2
      <4>3. CASE o \notin 1 .. Len(s)
        <5>1. next[o] = j
          BY <3>10, <4>1, <4>3
        <5>2. next[m] \in 1 .. i \/ next[m] = j
          BY <3>10, <4>1
        <5>. QED  BY <3>8, <5>1, <5>2
      <4>. QED  BY <4>2, <4>3
    <3>14. ASSUME NEW h \in 1 .. j, seqs[h] # <<>>
           PROVE  \E m \in 1 .. Len(g[j]) : next[m] = h
      <4>1. CASE h = j
        <5>1. Len(s) + 1 \in 1 .. Len(s) + Len(t) /\ ~(Len(s) + 1 \in 1 .. Len(s))
          BY <3>5, <3>9, <3>14, <4>1 DEF t
        <5>. QED  BY <3>5, <3>10, <4>1, <5>1
      <4>2. CASE h # j
        <5>1. h \in 1 .. i
          BY <3>8, <4>2
        <5>2. PICK m \in 1 .. Len(s) : place[m] = h
          BY <3>7, <3>14, <5>1
        <5>3. m \in 1 .. Len(s) + Len(t)
          BY <3>5
        <5>. QED  BY <3>5, <3>10, <5>2, <5>3
      <4>. QED  BY <4>1, <4>2
    <3>15. Upto(next, j)
      BY <3>11, <3>12, <3>13, <3>14
    <3>. HIDE DEF Upto
    <3>. QED  BY <3>15
  <2>. HIDE DEF T
  <2>5. Nat \subseteq T
    BY <2>3, <2>4, SetInduction
  <2>6. n - 1 \in T /\ (n - 1) + 1 = n /\ n \in 1 .. n
    BY <2>2, <2>5
  <2>7. PICK place : Upto(place, n)
    <3>. HIDE DEF Upto, n
    <3>. QED  BY <2>6 DEF T
  <2>8. FlattenSeq(seqs) = g[n]
    BY <2>1
  <2>9. ComesFrom(seqs, g[n], place)
    BY <2>7 DEF ComesFrom
  <2>. QED  BY <2>2, <2>6, <2>8, <2>9
<1>. QED  BY <1>1, <1>2

=============================================================================
