-------------------------- MODULE Profile_proofs --------------------------
(***************************************************************************)
(* Proofs about Profile and PlanChart, for every configuration: any number *)
(* of phases of any length and of any curve, repeated or not, looping or   *)
(* not, any gaps between two evaluations, and charts of any size.          *)
(***************************************************************************)
EXTENDS PlanChart, SetInduction, SequenceTheorems

USE SpecsAssumption, UnitAssumption, BoundAssumption, FlagAssumption
    DEF SpecsAssumption, UnitAssumption, BoundAssumption, FlagAssumption

(***************************************************************************)
(* Where the phases begin.                                                 *)
(***************************************************************************)

\* Starts() is what its recursive definition says it is.
LEMMA StartsRecursion ==
  ASSUME NEW phases \in Seq(Phases)
  PROVE  /\ Starts(phases) \in [1 .. Len(phases) + 1 -> Nat]
         /\ Starts(phases)[1] = 0
         /\ \A i \in 1 .. Len(phases) :
              Starts(phases)[i + 1] = Starts(phases)[i] + phases[i].duration
<1>. DEFINE n == Len(phases) + 1
            step == [x \in Nat \X Nat |->
                       IF x[2] - 1 \in 1 .. Len(phases)
                       THEN x[1] + phases[x[2] - 1].duration ELSE 0]
            P(f) == f = [i \in 1 .. n |->
                           IF i = 1 THEN 0 ELSE f[i - 1] + phases[i - 1].duration]
<1>1. Len(phases) \in Nat /\ n \in Nat
  OBVIOUS
<1>2. \A i \in 1 .. Len(phases) : phases[i].duration \in Nat
  <2>1. \A i \in 1 .. Len(phases) : phases[i] \in Phases
    BY ElementOfSeq
  <2>. QED  BY <2>1 DEF Phases
<1>3. step \in [Nat \X Nat -> Nat]
  <2>. HIDE DEF n
  <2>. QED  BY <1>2
<1>4. PICK f \in [1 .. n -> Nat] : Computes(f, n, 0, step)
  <2>1. 0 \in Nat
    OBVIOUS
  <2>. HIDE DEF n, step
  <2>. QED  BY <1>1, <1>3, <2>1, RecursionExists
<1>5. P(f)
  <2>1. ASSUME NEW i \in 1 .. n, i # 1
        PROVE  step[<<f[i - 1], i>>] = f[i - 1] + phases[i - 1].duration
    <3>1. i \in Nat /\ i - 1 \in 1 .. Len(phases) /\ i - 1 \in 1 .. n
      BY <1>1, <2>1
    <3>2. f[i - 1] \in Nat
      BY <3>1
    <3>. DEFINE x == <<f[i - 1], i>>
    <3>3. x \in Nat \X Nat /\ x[1] = f[i - 1] /\ x[2] = i
      BY <3>1, <3>2
    <3>4. step[x] = IF x[2] - 1 \in 1 .. Len(phases)
                    THEN x[1] + phases[x[2] - 1].duration ELSE 0
      <4>. HIDE DEF x
      <4>. QED  BY <3>3 DEF step
    <3>. QED  BY <3>1, <3>3, <3>4
  <2>. HIDE DEF n, step
  <2>. QED  BY <1>4, <2>1 DEF Computes
<1>6. Starts(phases) = CHOOSE g : P(g)
  BY DEF Starts
<1>7. P(Starts(phases))
  <2>. HIDE DEF P
  <2>. QED  BY <1>5, <1>6
<1>. DEFINE s == Starts(phases)
<1>. HIDE DEF s
<1>8. s = [i \in 1 .. n |-> IF i = 1 THEN 0 ELSE s[i - 1] + phases[i - 1].duration]
  BY <1>7 DEF s
<1>9. DOMAIN s = 1 .. n /\ s[1] = 0
  BY <1>1, <1>8
<1>10. ASSUME NEW i \in 1 .. Len(phases)
       PROVE  s[i + 1] = s[i] + phases[i].duration
  <2>1. i + 1 \in 1 .. n /\ i + 1 # 1 /\ (i + 1) - 1 = i
    BY <1>1
  <2>. QED  BY <1>8, <2>1
<1>11. \A k \in Nat : k + 1 \in 1 .. n => s[k + 1] \in Nat
  <2>. DEFINE S == {k \in Nat : k + 1 \in 1 .. n => s[k + 1] \in Nat}
  <2>1. 0 \in S
    BY <1>9
  <2>2. ASSUME NEW k \in Nat, k \in S PROVE k + 1 \in S
    <3>1. SUFFICES ASSUME (k + 1) + 1 \in 1 .. n PROVE s[(k + 1) + 1] \in Nat
      OBVIOUS
    <3>2. k + 1 \in 1 .. Len(phases) /\ s[k + 1] \in Nat
      BY <1>1, <2>2, <3>1
    <3>. QED  BY <1>2, <1>10, <3>2
  <2>. HIDE DEF S
  <2>3. Nat \subseteq S
    BY <2>1, <2>2, SetInduction
  <2>. QED  BY <2>3 DEF S
<1>12. \A i \in 1 .. n : s[i] \in Nat
  <2>. SUFFICES ASSUME NEW i \in 1 .. n PROVE s[i] \in Nat
    OBVIOUS
  <2>1. i - 1 \in Nat /\ (i - 1) + 1 = i
    BY <1>1
  <2>. QED  BY <1>11, <2>1
<1>13. s \in [1 .. n -> Nat]
  BY <1>8, <1>12
<1>. QED  BY <1>9, <1>10, <1>13 DEF s

(***************************************************************************)
(* The phases of a compiled profile.                                       *)
(***************************************************************************)

\* Sequences that are not empty make up one that is not empty either.
LEMMA FlattenNonEmpty ==
  ASSUME NEW S, NEW seqs \in Seq(Seq(S) \ {<<>>}), seqs # <<>>
  PROVE  FlattenSeq(seqs) \in Seq(S) \ {<<>>}
<1>. DEFINE flat == FlattenSeq(seqs)
<1>1. seqs \in Seq(Seq(S)) /\ 1 \in 1 .. Len(seqs) /\ seqs[1] # <<>>
  BY EmptySeq, ElementOfSeq
<1>2. flat \in Seq(S) /\ \E place : ComesFrom(seqs, flat, place)
  BY <1>1, FlattenPlaces
<1>. HIDE DEF flat
<1>3. \E m \in 1 .. Len(flat) : TRUE
  BY <1>1, <1>2 DEF ComesFrom
<1>4. Len(<<>>) = 0 /\ 1 .. 0 = {}
  OBVIOUS
<1>. QED  BY <1>2, <1>3, <1>4 DEF flat

\* A profile has at least one phase.
LEMMA RepeatedPhases ==
  ASSUME NEW specs \in Seq(Phases), specs # <<>>
  PROVE  Repeated(specs) \in Seq(Phases) \ {<<>>}
<1>. DEFINE times(i) == Max({1, specs[i].repeat})
            copies(i) == [r \in 1 .. times(i) |-> specs[i]]
            all == [i \in DOMAIN specs |-> copies(i)]
<1>1. DOMAIN specs = 1 .. Len(specs) /\ Len(specs) \in Nat \ {0}
  BY EmptySeq, LenProperties
<1>2. ASSUME NEW i \in 1 .. Len(specs)
      PROVE  copies(i) \in Seq(Phases) \ {<<>>}
  <2>1. specs[i] \in Phases
    BY ElementOfSeq
  <2>2. specs[i].repeat \in Int
    BY <2>1 DEF Phases
  <2>3. times(i) \in Nat \ {0}
    BY <2>2, MaxOfTwo
  <2>. HIDE DEF times
  <2>4. copies(i) \in Seq(Phases) /\ Len(copies(i)) = times(i)
    BY <2>1, <2>3
  <2>. QED  BY <2>3, <2>4, EmptySeq
<1>. HIDE DEF copies
<1>3. all \in Seq(Seq(Phases) \ {<<>>}) /\ Len(all) = Len(specs)
  BY <1>1, <1>2
<1>4. all # <<>>
  BY <1>1, <1>3, EmptySeq
<1>5. Repeated(specs) = FlattenSeq(all)
  BY DEF Repeated, copies
<1>. HIDE DEF all
<1>. QED  BY <1>3, <1>4, <1>5, FlattenNonEmpty

(***************************************************************************)
(* The phase in force.                                                     *)
(***************************************************************************)
Profiles ==
  [phases : Seq(Phases) \ {<<>>}, loop : BOOLEAN, holdLast : BOOLEAN]

\* The facts about a profile that the rest needs: its phases, where they
\* begin, and that a pass is no shorter than its last phase.
LEMMA ProfileFacts ==
  ASSUME NEW p \in Profiles
  PROVE  /\ Len(p.phases) \in Nat \ {0} /\ DOMAIN p.phases = 1 .. Len(p.phases)
         /\ \A i \in DOMAIN p.phases : p.phases[i] \in Phases
         /\ Last(p.phases) = p.phases[Len(p.phases)]
         /\ StartOf(p, 1) = 0
         /\ \A i \in DOMAIN p.phases :
              /\ StartOf(p, i) \in Nat /\ StartOf(p, i + 1) \in Nat
              /\ StartOf(p, i + 1) = StartOf(p, i) + p.phases[i].duration
         /\ Total(p) \in Nat
         /\ Total(p) = StartOf(p, Len(p.phases) + 1)
         /\ Total(p) >= p.phases[Len(p.phases)].duration
<1>. DEFINE phases == p.phases
            n == Len(phases)
<1>1. phases \in Seq(Phases) /\ phases # <<>>
  BY DEF Profiles
<1>. HIDE DEF phases
<1>2. n \in Nat \ {0} /\ DOMAIN phases = 1 .. n
  BY <1>1, EmptySeq, LenProperties
<1>3. \A i \in 1 .. n : phases[i] \in Phases
  BY <1>1, ElementOfSeq
<1>4. \A i \in 1 .. n : phases[i].duration \in Nat
  BY <1>3 DEF Phases
<1>5. /\ Starts(phases) \in [1 .. n + 1 -> Nat]
      /\ Starts(phases)[1] = 0
      /\ \A i \in 1 .. n : Starts(phases)[i + 1] = Starts(phases)[i] + phases[i].duration
  BY <1>1, StartsRecursion
<1>. DEFINE s == Starts(phases)
<1>6. \A i : StartOf(p, i) = s[i]
  BY DEF StartOf, phases
<1>. HIDE DEF n, s
<1>7. \A i \in 1 .. n : i \in 1 .. n + 1 /\ i + 1 \in 1 .. n + 1
  BY <1>2
<1>8. \A i \in 1 .. n : s[i] \in Nat /\ s[i + 1] \in Nat
  BY <1>5, <1>7 DEF n, s
<1>9. n \in 1 .. n
  BY <1>2
<1>10. Total(p) = s[n + 1]
  BY <1>6 DEF Total, n, phases
<1>11. s[n + 1] \in Nat /\ s[n + 1] >= phases[n].duration
  BY <1>4, <1>5, <1>8, <1>9 DEF n, s
<1>12. Last(phases) = phases[n]
  BY DEF Last, n
<1>. QED
  BY <1>2, <1>3, <1>5, <1>6, <1>8, <1>10, <1>11, <1>12 DEF n, s, phases

\* Eval() cuts the time line where a phase begins: the phase in force has
\* begun, and it has not ended unless it is the last one.
LEMMA CutAtStarts ==
  ASSUME NEW p \in Profiles, NEW e \in Nat
  PROVE  /\ IndexAt(p, e) \in DOMAIN p.phases
         /\ StartOf(p, IndexAt(p, e)) <= e
         /\ e < StartOf(p, IndexAt(p, e) + 1) \/ IndexAt(p, e) = Len(p.phases)
         /\ \A i \in DOMAIN p.phases :
              e < StartOf(p, i + 1) \/ i = Len(p.phases) => IndexAt(p, e) <= i
<1>. DEFINE n == Len(p.phases)
            T == {i \in DOMAIN p.phases : e < StartOf(p, i + 1) \/ i = Len(p.phases)}
            m == IndexAt(p, e)
<1>1. n \in Nat \ {0} /\ DOMAIN p.phases = 1 .. n
  BY ProfileFacts
<1>2. T \in SUBSET Nat /\ n \in T
  BY <1>1
<1>3. m = Min(T)
  BY DEF IndexAt
<1>4. m \in T /\ \A i \in T : m <= i
  <2>. HIDE DEF T, m
  <2>. QED  BY <1>2, <1>3, MinIsLeast
<1>. HIDE DEF m
<1>5. m \in 1 .. n /\ (e < StartOf(p, m + 1) \/ m = n)
  BY <1>1, <1>4
<1>6. StartOf(p, m) <= e
  <2>1. CASE m = 1
    BY <2>1, ProfileFacts
  <2>2. CASE m # 1
    <3>1. m - 1 \in 1 .. n /\ ~(m <= m - 1) /\ (m - 1) + 1 = m
      BY <1>1, <1>5, <2>2
    <3>2. m - 1 \notin T
      BY <1>4, <3>1
    <3>3. ~(e < StartOf(p, m))
      BY <1>1, <3>1, <3>2
    <3>4. StartOf(p, m) \in Nat
      BY <1>1, <1>5, ProfileFacts
    <3>. QED  BY <3>3, <3>4
  <2>. QED  BY <2>1, <2>2
<1>. QED  BY <1>1, <1>4, <1>5, <1>6 DEF m

\* A later time is not in an earlier phase.
LEMMA CutMonotone ==
  ASSUME NEW p \in Profiles, NEW d \in Nat, NEW e \in Nat, d <= e
  PROVE  IndexAt(p, d) <= IndexAt(p, e)
<1>. DEFINE i == IndexAt(p, e)
<1>1. i \in DOMAIN p.phases /\ (e < StartOf(p, i + 1) \/ i = Len(p.phases))
  BY CutAtStarts
<1>. HIDE DEF i
<1>2. StartOf(p, i + 1) \in Nat
  BY <1>1, ProfileFacts
<1>3. d < StartOf(p, i + 1) \/ i = Len(p.phases)
  BY <1>1, <1>2
<1>. QED  BY <1>1, <1>3, CutAtStarts DEF i

(***************************************************************************)
(* The target of a segment.                                                *)
(***************************************************************************)

\* A part of a number that is at most the whole.
LEMMA PartOf ==
  ASSUME NEW a \in Int, NEW u \in Nat \ {0}, NEW s \in 0 .. u
  PROVE  /\ (a * s) \div u \in Int
         /\ a >= 0 => (a * s) \div u \in 0 .. a
         /\ a < 0 => (a * s) \div u \in a .. 0
<1>. DEFINE x == a * s
            q == x \div u
<1>1. s \in Int /\ x \in Int
  OBVIOUS
<1>2. a >= 0 => 0 <= x /\ x <= a * u
  OBVIOUS
<1>3. a < 0 => a * u <= x /\ x <= 0
  OBVIOUS
<1>. HIDE DEF x
<1>4. q \in Int /\ u * q <= x /\ x < u * q + u
  BY <1>1
<1>. HIDE DEF q
<1>5. a >= 0 => q \in 0 .. a
  <2>1. SUFFICES ASSUME a >= 0 PROVE q >= 0 /\ q <= a
    BY <1>4
  <2>2. q >= 0
    <3>1. SUFFICES ASSUME q <= -1 PROVE FALSE
      BY <1>4
    <3>2. u * q <= -u
      BY <1>4, <3>1
    <3>. QED  BY <1>1, <1>2, <1>4, <2>1, <3>2
  <2>3. q <= a
    <3>1. SUFFICES ASSUME q >= a + 1 PROVE FALSE
      BY <1>4
    <3>2. u * q >= u * a + u
      BY <1>4, <3>1
    <3>3. u * q \in Int /\ u * a \in Int /\ u * a = a * u
      BY <1>4
    <3>. QED  BY <1>1, <1>2, <1>4, <2>1, <3>2, <3>3
  <2>. QED  BY <2>2, <2>3
<1>6. a < 0 => q \in a .. 0
  <2>1. SUFFICES ASSUME a < 0 PROVE q >= a /\ q <= 0
    BY <1>4
  <2>2. q <= 0
    <3>1. SUFFICES ASSUME q >= 1 PROVE FALSE
      BY <1>4
    <3>2. u * q >= u
      BY <1>4, <3>1
    <3>. QED  BY <1>1, <1>3, <1>4, <2>1, <3>2
  <2>3. q >= a
    <3>1. SUFFICES ASSUME q + 1 <= a PROVE FALSE
      BY <1>4
    <3>2. u * (q + 1) <= u * a
      BY <1>4, <3>1
    <3>3. u * q \in Int /\ u * a \in Int /\ u * a = a * u
          /\ u * (q + 1) = u * q + u
      BY <1>4
    <3>. QED  BY <1>1, <1>3, <1>4, <2>1, <3>2, <3>3
  <2>. QED  BY <2>2, <2>3
<1>. QED  BY <1>4, <1>5, <1>6 DEF q, x

\* A curve stays between its ends.
LEMMA ShapeWithin ==
  ASSUME NEW ph \in Phases, NEW in \in Nat
  PROVE  Shape(ph, in) \in 0 .. Unit
<1>1. /\ ph.duration \in Nat /\ ph.period \in Nat \ {0}
      /\ ph.curve \in {"step", "linear", "sawtooth", "triangle", "square"}
  BY DEF Phases
<1>2. Progress(ph, in) \in 0 .. Unit
  <2>1. CASE ph.duration = 0
    BY <2>1 DEF Progress
  <2>2. CASE ph.duration # 0
    <3>. DEFINE d == ph.duration
                x == Unit * in
                q == x \div d
    <3>1. d \in Nat \ {0} /\ x \in Nat
      BY <1>1, <2>2
    <3>. HIDE DEF d, x
    <3>2. q \in Nat
      BY <3>1
    <3>3. Progress(ph, in) = Min({Unit, q})
      BY <2>2 DEF Progress, d, x
    <3>. HIDE DEF q
    <3>4. Unit \in Int /\ q \in Int
      BY <3>2
    <3>5. Min({Unit, q}) = IF Unit <= q THEN Unit ELSE q
      BY <3>4, MinOfTwo
    <3>. QED  BY <3>2, <3>3, <3>5
  <2>. QED  BY <2>1, <2>2
<1>. DEFINE tau == PhaseOfPeriod(ph, in)
<1>3. tau \in 0 .. Unit
  <2>. DEFINE d == ph.period
              r == in % d
  <2>1. d \in Nat \ {0} /\ r \in 0 .. d /\ Unit \in Int /\ Unit >= 0
    BY <1>1
  <2>. HIDE DEF d, r
  <2>2. (Unit * r) \div d \in 0 .. Unit
    BY <2>1, PartOf
  <2>. QED  BY <2>2 DEF PhaseOfPeriod, d, r
<1>. HIDE DEF tau
<1>4. 2 * tau \in Nat /\ 2 * (Unit - tau) \in Nat
      /\ (2 * tau >= Unit => 2 * (Unit - tau) <= Unit)
  BY <1>3
<1>5. CASE ph.curve = "step"
  BY <1>5 DEF Shape
<1>6. CASE ph.curve = "linear"
  BY <1>2, <1>6 DEF Shape
<1>7. CASE ph.curve = "sawtooth"
  BY <1>3, <1>7 DEF Shape, tau
<1>8. CASE ph.curve = "triangle"
  <2>1. Shape(ph, in) = IF 2 * tau < Unit THEN 2 * tau ELSE 2 * (Unit - tau)
    BY <1>8 DEF Shape, tau
  <2>. QED  BY <1>3, <1>4, <2>1
<1>9. CASE ph.curve = "square"
  <2>1. Shape(ph, in) \in {Unit, 0}
    BY <1>9 DEF Shape
  <2>. QED  BY <2>1
<1>. QED  BY <1>1, <1>5, <1>6, <1>7, <1>8, <1>9

\* A target is a natural number. Without a jitter there is one, and it lies
\* between the ends of the segment.
LEMMA ValuesWithin ==
  ASSUME NEW ph \in Phases, NEW in \in Nat
  PROVE  /\ Values(ph, in) \subseteq Nat
         /\ ph.jitter = 0 =>
              \E v \in Nat : /\ Values(ph, in) = {v}
                             /\ v <= ph.from \/ v <= ph.to
<1>. DEFINE a == ph.to - ph.from
            q == (a * Shape(ph, in)) \div Unit
            v == ph.from + q
            spread == (v * ph.jitter) \div Unit
<1>1. ph.from \in Nat /\ ph.to \in Nat /\ ph.jitter \in Nat /\ a \in Int
  BY DEF Phases
<1>2. q \in Int /\ (a >= 0 => q \in 0 .. a) /\ (a < 0 => q \in a .. 0)
  <2>. HIDE DEF a
  <2>. QED  BY <1>1, ShapeWithin, PartOf
<1>. HIDE DEF q
<1>3. v \in Nat /\ (v <= ph.from \/ v <= ph.to)
  BY <1>1, <1>2
<1>4. Values(ph, in) = IF ph.from = 0 /\ ph.to = 0 THEN {0}
                       ELSE {Max({0, v - spread}), v, Max({0, v + spread})}
  BY DEF Values, q
<1>. HIDE DEF v
<1>5. spread \in Int /\ (ph.jitter = 0 => spread = 0)
  <2>. DEFINE x == v * ph.jitter
  <2>1. x \in Int /\ (ph.jitter = 0 => x = 0)
    BY <1>1, <1>3
  <2>. HIDE DEF x
  <2>2. x \div Unit \in Int /\ (x = 0 => x \div Unit = 0)
    BY <2>1
  <2>. QED  BY <2>1, <2>2 DEF x
<1>. HIDE DEF spread
<1>6. /\ Max({0, v - spread}) = IF 0 >= v - spread THEN 0 ELSE v - spread
      /\ Max({0, v + spread}) = IF 0 >= v + spread THEN 0 ELSE v + spread
  <2>. DEFINE l == v - spread
              h == v + spread
  <2>1. 0 \in Int /\ l \in Int /\ h \in Int
    BY <1>3, <1>5
  <2>. HIDE DEF l, h
  <2>2. /\ Max({0, l}) = IF 0 >= l THEN 0 ELSE l
        /\ Max({0, h}) = IF 0 >= h THEN 0 ELSE h
    BY <2>1, MaxOfTwo
  <2>. QED  BY <2>2 DEF l, h
<1>7. Max({0, v - spread}) \in Nat /\ Max({0, v + spread}) \in Nat
  BY <1>3, <1>5, <1>6
<1>8. Values(ph, in) \subseteq Nat
  <2>. DEFINE l == Max({0, v - spread})
              h == Max({0, v + spread})
  <2>. HIDE DEF l, h
  <2>1. l \in Nat /\ h \in Nat
    BY <1>7 DEF l, h
  <2>2. Values(ph, in) = {0} \/ Values(ph, in) = {l, v, h}
    BY <1>4 DEF l, h
  <2>. QED  BY <1>3, <2>1, <2>2
<1>9. ASSUME ph.jitter = 0
      PROVE  \E w \in Nat : Values(ph, in) = {w} /\ (w <= ph.from \/ w <= ph.to)
  <2>1. CASE ph.from = 0 /\ ph.to = 0
    <3>1. Values(ph, in) = {0} /\ 0 \in Nat /\ 0 <= ph.from
      BY <1>4, <2>1
    <3>. QED  BY <3>1
  <2>2. CASE ~(ph.from = 0 /\ ph.to = 0)
    <3>1. Max({0, v - spread}) = v /\ Max({0, v + spread}) = v
      BY <1>3, <1>5, <1>6, <1>9
    <3>2. Values(ph, in) = {v}
      BY <1>4, <2>2, <3>1
    <3>. QED  BY <1>3, <3>2
  <2>. QED  BY <2>1, <2>2
<1>. QED  BY <1>8, <1>9

(***************************************************************************)
(* What Eval() returns: within a single pass, within a loop, at the end    *)
(* that is held, or after it.                                              *)
(***************************************************************************)
Single(p, e) == e < Total(p) \/ Total(p) = 0
Looping(p, e) == ~Single(p, e) /\ p.loop
Holding(p, e) == ~Single(p, e) /\ ~p.loop /\ p.holdLast
Ended(p, e) == ~Single(p, e) /\ ~p.loop /\ ~p.holdLast

\* The time within a pass, and the number of passes before it.
InPass(p, e) == IF Looping(p, e) THEN e % Total(p) ELSE e
Passes(p, e) == IF Looping(p, e) THEN e \div Total(p) ELSE 0

\* A division with remainder: a later time is in a later pass, or further on
\* in the same one.
LEMMA PassesOf ==
  ASSUME NEW p \in Profiles, NEW e \in Nat
  PROVE  /\ InPass(p, e) \in Nat /\ Passes(p, e) \in Nat
         /\ InPass(p, e) <= e /\ Passes(p, e) <= e
         /\ Passes(p, e) * Total(p) + InPass(p, e) = e
         /\ Looping(p, e) => InPass(p, e) < Total(p) /\ Passes(p, e) >= 1
         /\ ~Looping(p, e) => InPass(p, e) = e /\ Passes(p, e) = 0
<1>. DEFINE T == Total(p)
<1>1. T \in Nat
  BY ProfileFacts
<1>. HIDE DEF T
<1>2. CASE ~Looping(p, e)
  <2>1. InPass(p, e) = e /\ Passes(p, e) = 0
    BY <1>2 DEF InPass, Passes
  <2>2. 0 * T + e = e
    BY <1>1
  <2>. QED  BY <1>2, <2>1, <2>2 DEF T
<1>3. CASE Looping(p, e)
  <2>1. T \in Nat \ {0} /\ e >= T
    BY <1>1, <1>3 DEF Looping, Single, T
  <2>. DEFINE q == e \div T
              r == e % T
  <2>2. q \in Nat /\ r \in 0 .. T - 1 /\ e = T * q + r
    BY <2>1
  <2>3. InPass(p, e) = r /\ Passes(p, e) = q
    BY <1>3 DEF InPass, Passes, T
  <2>. HIDE DEF q, r
  <2>4. q >= 1
    <3>1. SUFFICES ASSUME q = 0 PROVE FALSE
      BY <2>2
    <3>2. T * q = 0
      BY <2>1, <3>1
    <3>. QED  BY <2>1, <2>2, <3>2
  <2>5. T * q >= q /\ T * q \in Nat /\ T * q = q * T
    BY <2>1, <2>2
  <2>6. q <= e /\ r <= e /\ q * T + r = e
    BY <2>1, <2>2, <2>5
  <2>. QED  BY <1>3, <2>1, <2>2, <2>3, <2>4, <2>6 DEF T
<1>. QED  BY <1>2, <1>3

\* The position that an answer of Eval() names, and its value.
LEMMA EvalPosition ==
  ASSUME NEW p \in Profiles, NEW e \in Nat, NEW t \in Eval(p, e)
  PROVE  /\ Single(p, e) \/ Looping(p, e) =>
              LET i == IndexAt(p, InPass(p, e))
              IN /\ t.index = i /\ t.in = InPass(p, e) - StartOf(p, i)
                 /\ t.iteration = Passes(p, e) /\ t.finished = FALSE
         /\ Holding(p, e) =>
              /\ t.index = Len(p.phases) /\ t.in = Last(p.phases).duration
              /\ t.iteration = 0 /\ t.finished = FALSE
         /\ Ended(p, e) =>
              /\ t.index = Len(p.phases) /\ t.in = 0 /\ t.iteration = 0
              /\ t.finished = TRUE /\ t.value = 0
         /\ ~Ended(p, e) => t.value \in Values(p.phases[t.index], t.in)
<1>1. CASE Single(p, e)
  <2>1. InPass(p, e) = e /\ Passes(p, e) = 0
    BY <1>1 DEF InPass, Passes, Looping
  <2>. DEFINE i == IndexAt(p, e)
  <2>2. t \in Sample(p, i, e - StartOf(p, i), 0)
    BY <1>1 DEF Single, Eval, Within
  <2>. HIDE DEF i
  <2>3. /\ t.index = i /\ t.in = e - StartOf(p, i) /\ t.iteration = 0
        /\ t.finished = FALSE
        /\ t.value \in Values(p.phases[i], e - StartOf(p, i))
    BY <2>2 DEF Sample
  <2>4. ~Holding(p, e) /\ ~Ended(p, e)
    BY <1>1 DEF Holding, Ended
  <2>. QED  BY <2>1, <2>3, <2>4 DEF i
<1>2. CASE Looping(p, e)
  <2>1. InPass(p, e) = e % Total(p) /\ Passes(p, e) = Iteration(p, e)
    BY <1>2 DEF InPass, Passes, Iteration
  <2>. DEFINE r == e % Total(p)
              i == IndexAt(p, r)
  <2>2. t \in Sample(p, i, r - StartOf(p, i), Iteration(p, e))
    BY <1>2 DEF Looping, Single, Eval, Within
  <2>. HIDE DEF i, r
  <2>3. /\ t.index = i /\ t.in = r - StartOf(p, i) /\ t.iteration = Iteration(p, e)
        /\ t.finished = FALSE
        /\ t.value \in Values(p.phases[i], r - StartOf(p, i))
    BY <2>2 DEF Sample
  <2>4. ~Holding(p, e) /\ ~Ended(p, e)
    BY <1>2 DEF Looping, Holding, Ended
  <2>. QED  BY <2>1, <2>3, <2>4 DEF i, r
<1>3. CASE Holding(p, e)
  <2>1. t \in Sample(p, Len(p.phases), Last(p.phases).duration, 0)
    BY <1>3 DEF Holding, Single, Eval
  <2>2. /\ t.index = Len(p.phases) /\ t.in = Last(p.phases).duration
        /\ t.iteration = 0 /\ t.finished = FALSE
        /\ t.value \in Values(p.phases[Len(p.phases)], Last(p.phases).duration)
    BY <2>1 DEF Sample
  <2>3. ~Single(p, e) /\ ~Looping(p, e) /\ ~Ended(p, e)
    BY <1>3 DEF Holding, Looping, Ended
  <2>. QED  BY <2>2, <2>3
<1>4. CASE Ended(p, e)
  <2>1. t \in Finished(p)
    BY <1>4 DEF Ended, Single, Eval
  <2>2. ~Single(p, e) /\ ~Looping(p, e) /\ ~Holding(p, e)
    BY <1>4 DEF Holding, Looping, Ended
  <2>. QED  BY <1>4, <2>1, <2>2 DEF Finished
<1>5. p.loop \in BOOLEAN /\ p.holdLast \in BOOLEAN
  BY DEF Profiles
<1>. QED  BY <1>1, <1>2, <1>3, <1>4, <1>5 DEF Single, Looping, Holding, Ended

(***************************************************************************)
(* The phases in the order of time: an open-ended one is among the last.   *)
(***************************************************************************)
Ordered(p) ==
  /\ \A i, j \in DOMAIN p.phases :
       i <= j /\ p.phases[i].duration = 0 => p.phases[j].duration = 0
  /\ p.loop => Last(p.phases).duration > 0

\* Repeating phases keeps their order, so an open-ended one stays the last.
LEMMA RepeatedOrder ==
  ASSUME NEW specs \in Seq(Phases), specs # <<>>, DurationsValid(specs)
  PROVE  LET phases == Repeated(specs)
         IN /\ \A i, j \in DOMAIN phases :
                 i <= j /\ phases[i].duration = 0 => phases[j].duration = 0
            /\ Last(phases).duration = Last(specs).duration
<1>. DEFINE times(i) == Max({1, specs[i].repeat})
            copies(i) == [r \in 1 .. times(i) |-> specs[i]]
            all == [i \in DOMAIN specs |-> copies(i)]
            n == Len(specs)
            phases == Repeated(specs)
            m == Len(phases)
<1>1. DOMAIN specs = 1 .. n /\ n \in Nat \ {0} /\ Last(specs) = specs[n]
  BY EmptySeq, LenProperties DEF Last
<1>2. ASSUME NEW i \in 1 .. n
      PROVE  specs[i] \in Phases /\ specs[i].duration \in Nat /\ times(i) \in Nat \ {0}
  <2>1. specs[i] \in Phases
    BY ElementOfSeq
  <2>2. specs[i].repeat \in Int /\ specs[i].duration \in Nat
    BY <2>1 DEF Phases
  <2>. QED  BY <2>1, <2>2, MaxOfTwo
<1>3. phases = FlattenSeq(all)
  BY DEF Repeated
<1>. HIDE DEF times, n
<1>4. ASSUME NEW i \in 1 .. n
      PROVE  /\ copies(i) \in Seq(Phases) /\ copies(i) # <<>>
             /\ \A r \in 1 .. Len(copies(i)) : copies(i)[r] = specs[i]
  <2>1. specs[i] \in Phases /\ times(i) \in Nat \ {0}
    BY <1>2
  <2>2. copies(i) \in Seq(Phases) /\ Len(copies(i)) = times(i)
    BY <2>1
  <2>3. \A r \in 1 .. times(i) : copies(i)[r] = specs[i]
    OBVIOUS
  <2>. HIDE DEF copies
  <2>. QED  BY <2>1, <2>2, <2>3, EmptySeq
<1>. HIDE DEF copies
<1>5. all \in Seq(Seq(Phases)) /\ Len(all) = n /\ \A i \in 1 .. n : all[i] = copies(i)
  BY <1>1, <1>4
<1>. HIDE DEF all
<1>6. phases \in Seq(Phases) \ {<<>>}
  BY RepeatedPhases
<1>7. PICK place : ComesFrom(all, phases, place)
  BY <1>3, <1>5, FlattenPlaces
<1>. HIDE DEF phases
<1>8. m \in Nat \ {0} /\ DOMAIN phases = 1 .. m /\ Last(phases) = phases[m]
  BY <1>6, EmptySeq, LenProperties DEF Last
<1>. HIDE DEF m
<1>9. /\ place \in [1 .. m -> 1 .. n]
      /\ \A i \in 1 .. m : \E r \in 1 .. Len(all[place[i]]) : phases[i] = all[place[i]][r]
      /\ \A i, j \in 1 .. m : i <= j => place[i] <= place[j]
      /\ \A k \in 1 .. n : all[k] # <<>> => \E i \in 1 .. m : place[i] = k
  BY <1>5, <1>7 DEF ComesFrom, m
<1>10. ASSUME NEW i \in 1 .. m
       PROVE  phases[i] = specs[place[i]] /\ place[i] \in 1 .. n
  <2>. DEFINE k == place[i]
  <2>1. k \in 1 .. n
    BY <1>9
  <2>2. PICK r \in 1 .. Len(all[k]) : phases[i] = all[k][r]
    BY <1>9
  <2>. HIDE DEF k
  <2>3. all[k] = copies(k)
    BY <1>5, <2>1
  <2>4. copies(k)[r] = specs[k]
    BY <1>4, <2>1, <2>2, <2>3
  <2>. QED  BY <2>1, <2>2, <2>3, <2>4 DEF k
<1>11. \A k \in 1 .. n : specs[k].duration = 0 => k = n
  <2>1. \A k \in 1 .. n - 1 : specs[k].duration > 0
    BY DEF DurationsValid, n
  <2>2. \A k \in 1 .. n : k # n => k \in 1 .. n - 1
    BY <1>1
  <2>. QED  BY <2>1, <2>2
<1>12. ASSUME NEW i \in 1 .. m, NEW j \in 1 .. m, i <= j, phases[i].duration = 0
       PROVE  phases[j].duration = 0
  <2>1. place[i] = n /\ place[j] \in 1 .. n
    BY <1>10, <1>11, <1>12
  <2>2. place[i] <= place[j]
    BY <1>9, <1>12
  <2>3. place[j] = n
    BY <1>1, <2>1, <2>2
  <2>. QED  BY <1>10, <1>12, <2>1, <2>3
<1>13. phases[m] = specs[n]
  <2>1. n \in 1 .. n /\ m \in 1 .. m
    BY <1>1, <1>8
  <2>2. PICK i \in 1 .. m : place[i] = n
    BY <1>4, <1>5, <1>9, <2>1
  <2>3. n <= place[m] /\ place[m] \in 1 .. n
    BY <1>8, <1>9, <2>1, <2>2
  <2>4. place[m] = n
    BY <1>1, <2>3
  <2>. QED  BY <1>10, <2>1, <2>4
<1>14. /\ \A i, j \in DOMAIN phases :
            i <= j /\ phases[i].duration = 0 => phases[j].duration = 0
       /\ Last(phases).duration = Last(specs).duration
  BY <1>1, <1>8, <1>12, <1>13
<1>. QED  BY <1>14 DEF phases

(***************************************************************************)
(* The inductive invariant: the profile is a compiled one, and the targets *)
(* are an answer of Eval() for the time that has passed.                   *)
(***************************************************************************)
IInv ==
  /\ profile \in Profiles /\ Ordered(profile)
  /\ elapsed \in 0 .. MaxElapsed
  /\ at \in Eval(profile, elapsed)

\* What Compile() accepts becomes a profile with at least one phase.
LEMMA InitInv == Init => IInv
<1>1. SUFFICES ASSUME NEW specs \in Specs, NEW loop \in Loops, NEW holdLast \in HoldLasts,
                      Accepted(specs, loop), profile = Compile(specs, loop, holdLast),
                      elapsed = 0, at \in Eval(profile, 0)
               PROVE  IInv
  BY DEF Init
<1>2. specs \in Seq(Phases) /\ specs # <<>>
  BY <1>1 DEF Accepted
<1>3. Repeated(specs) \in Seq(Phases) \ {<<>>}
  BY <1>2, RepeatedPhases
<1>. DEFINE looping == loop /\ ~OpenEnded(specs)
<1>4. loop \in BOOLEAN /\ holdLast \in BOOLEAN /\ looping \in BOOLEAN
  <2>1. loop \in BOOLEAN /\ holdLast \in BOOLEAN
    OBVIOUS
  <2>2. looping \in BOOLEAN
    BY Zenon
  <2>. QED  BY <2>1, <2>2
<1>5. profile = [phases |-> Repeated(specs), loop |-> looping, holdLast |-> holdLast]
  BY <1>1 DEF Compile
<1>. HIDE DEF looping
<1>6. profile \in Profiles
  BY <1>3, <1>4, <1>5 DEF Profiles
<1>7. /\ \A i, j \in DOMAIN Repeated(specs) :
           i <= j /\ Repeated(specs)[i].duration = 0 => Repeated(specs)[j].duration = 0
      /\ Last(Repeated(specs)).duration = Last(specs).duration
  BY <1>1, <1>2, RepeatedOrder DEF Accepted
<1>8. Last(Repeated(specs)).duration \in Nat
  <2>. DEFINE phases == Repeated(specs)
  <2>1. Len(phases) \in 1 .. Len(phases) /\ phases \in Seq(Phases)
    BY <1>3, EmptySeq, LenProperties
  <2>2. phases[Len(phases)] \in Phases
    BY <2>1, ElementOfSeq
  <2>. QED  BY <2>2 DEF Phases, Last
<1>9. Ordered(profile)
  <2>1. looping => Last(Repeated(specs)).duration > 0
    BY <1>7, <1>8 DEF looping, OpenEnded
  <2>. QED  BY <1>5, <1>7, <2>1 DEF Ordered
<1>. QED  BY <1>1, <1>6, <1>9 DEF IInv

LEMMA StepInv == IInv /\ [Next]_vars => IInv'
<1>. SUFFICES ASSUME IInv, [Next]_vars PROVE IInv'
  OBVIOUS
<1>1. ASSUME NEW gap \in 1 .. MaxGap, Advance(gap) PROVE IInv'
  <2>1. profile' = profile /\ elapsed' = elapsed + gap /\ elapsed' <= MaxElapsed
        /\ at' \in Eval(profile, elapsed')
    BY <1>1 DEF Advance
  <2>2. elapsed' \in 0 .. MaxElapsed
    BY <2>1 DEF IInv
  <2>. QED  BY <2>1, <2>2 DEF IInv
<1>2. CASE UNCHANGED vars
  BY <1>2 DEF vars, IInv
<1>. QED  BY <1>1, <1>2 DEF Next

\* Of every profile that is accepted, Eval() is asked for its targets only at
\* times for which its answer is defined.
THEOREM Invariant == Spec => []IInv
<1>. QED  BY InitInv, StepInv, PTL DEF Spec

(***************************************************************************)
(* The answers tile the time line.                                         *)
(***************************************************************************)

\* What is left of a looping pass lies before its end.
LEMMA LoopTime ==
  ASSUME NEW p \in Profiles, NEW e \in Nat
  PROVE  /\ InPass(p, e) \in Nat
         /\ IndexAt(p, InPass(p, e)) \in DOMAIN p.phases
         /\ InPass(p, e) - StartOf(p, IndexAt(p, InPass(p, e))) \in 0 .. e
<1>1. InPass(p, e) \in Nat /\ InPass(p, e) <= e
  BY PassesOf
<1>. DEFINE r == InPass(p, e)
            i == IndexAt(p, r)
<1>. HIDE DEF r
<1>2. i \in DOMAIN p.phases /\ StartOf(p, i) <= r
  BY <1>1, CutAtStarts DEF r
<1>. HIDE DEF i
<1>3. StartOf(p, i) \in Nat
  BY <1>2, ProfileFacts
<1>4. r - StartOf(p, i) \in 0 .. e
  BY <1>1, <1>2, <1>3 DEF r
<1>. QED  BY <1>1, <1>2, <1>4 DEF i, r

\* An answer names a phase of the profile, and a time within it.
LEMMA EvalType ==
  ASSUME NEW p \in Profiles, NEW e \in Nat, NEW t \in Eval(p, e)
  PROVE  /\ t.index \in DOMAIN p.phases
         /\ t.in \in 0 .. e /\ t.iteration \in 0 .. e
         /\ t.finished \in BOOLEAN /\ t.value \in Nat
<1>1. p.loop \in BOOLEAN /\ p.holdLast \in BOOLEAN
  BY DEF Profiles
<1>2. /\ Len(p.phases) \in DOMAIN p.phases
      /\ Last(p.phases).duration \in Nat /\ Last(p.phases).duration <= Total(p)
  <2>1. Len(p.phases) \in DOMAIN p.phases
    BY ProfileFacts
  <2>2. Last(p.phases) \in Phases /\ Last(p.phases).duration <= Total(p)
    BY <2>1, ProfileFacts
  <2>. QED  BY <2>1, <2>2 DEF Phases
<1>3. /\ t.index \in DOMAIN p.phases
      /\ t.in \in 0 .. e /\ t.iteration \in 0 .. e
      /\ t.finished = TRUE \/ t.finished = FALSE
  <2>1. CASE Single(p, e) \/ Looping(p, e)
    <3>1. Passes(p, e) \in 0 .. e
      <4>1. Passes(p, e) \in Nat /\ Passes(p, e) <= e
        BY PassesOf
      <4>. QED  BY <4>1
    <3>. DEFINE i == IndexAt(p, InPass(p, e))
                d == InPass(p, e) - StartOf(p, i)
    <3>2. i \in DOMAIN p.phases /\ d \in 0 .. e
      BY LoopTime
    <3>3. t.index = i /\ t.in = d /\ t.iteration = Passes(p, e) /\ t.finished = FALSE
      BY <2>1, EvalPosition
    <3>. HIDE DEF i, d
    <3>. QED  BY <3>1, <3>2, <3>3
  <2>2. CASE Holding(p, e)
    <3>1. Total(p) \in Nat /\ Total(p) <= e
      BY <2>2, ProfileFacts DEF Holding, Single
    <3>2. Last(p.phases).duration \in 0 .. e /\ 0 \in 0 .. e
      BY <1>2, <3>1
    <3>3. /\ t.index = Len(p.phases) /\ t.in = Last(p.phases).duration
          /\ t.iteration = 0 /\ t.finished = FALSE
      BY <2>2, EvalPosition
    <3>. QED  BY <1>2, <3>2, <3>3
  <2>3. CASE Ended(p, e)
    <3>1. /\ t.index = Len(p.phases) /\ t.in = 0 /\ t.iteration = 0
          /\ t.finished = TRUE
      BY <2>3, EvalPosition
    <3>. QED  BY <1>2, <3>1
  <2>. QED  BY <1>1, <2>1, <2>2, <2>3 DEF Single, Looping, Holding, Ended
<1>4. t.value \in Nat
  <2>1. CASE Ended(p, e)
    <3>1. t.value = 0
      BY <2>1, EvalPosition
    <3>. QED  BY <3>1
  <2>2. CASE ~Ended(p, e)
    <3>1. t.value \in Values(p.phases[t.index], t.in)
      BY <2>2, EvalPosition
    <3>2. p.phases[t.index] \in Phases /\ t.in \in Nat
      BY <1>3, ProfileFacts
    <3>. QED  BY <3>1, <3>2, ValuesWithin
  <2>. QED  BY <2>1, <2>2
<1>. QED  BY <1>3, <1>4, Zenon

LEMMA TypeInv == IInv => TypeOK
<1>. SUFFICES ASSUME IInv PROVE TypeOK
  OBVIOUS
<1>1. profile \in Profiles /\ elapsed \in Nat /\ elapsed <= MaxElapsed
      /\ at \in Eval(profile, elapsed)
  BY DEF IInv
<1>2. /\ at.index \in DOMAIN profile.phases
      /\ at.in \in 0 .. elapsed /\ at.iteration \in 0 .. elapsed
      /\ at.finished \in BOOLEAN /\ at.value \in Nat
  BY <1>1, EvalType
<1>3. elapsed \in 0 .. MaxElapsed /\ at.in \in 0 .. MaxElapsed /\ at.iteration \in 0 .. MaxElapsed
  BY <1>1, <1>2
<1>. QED  BY <1>2, <1>3 DEF TypeOK

LEMMA TilesInv == IInv => Tiles
<1>. SUFFICES ASSUME IInv, ~at.finished, ~Held
              PROVE  /\ at.iteration * Total(profile) + StartOf(profile, at.index) + at.in = elapsed
                     /\ at.in >= 0
                     /\ profile.phases[at.index].duration > 0 =>
                          at.in < profile.phases[at.index].duration
  BY DEF Tiles
<1>. DEFINE p == profile
            r == InPass(p, elapsed)
            i == IndexAt(p, r)
            dur == p.phases[i].duration
<1>1. p \in Profiles /\ elapsed \in Nat /\ at \in Eval(p, elapsed)
  BY DEF IInv
<1>2. Total(p) \in Nat /\ p.loop \in BOOLEAN /\ p.holdLast \in BOOLEAN
  BY <1>1, ProfileFacts DEF Profiles
<1>3. ~Holding(p, elapsed)
  BY <1>1, <1>2 DEF Holding, Single, Held
<1>4. ~Ended(p, elapsed)
  BY <1>1, EvalPosition
<1>5. Single(p, elapsed) \/ Looping(p, elapsed)
  BY <1>3, <1>4 DEF Single, Looping, Holding, Ended
<1>6. at.index = i /\ at.in = r - StartOf(p, i) /\ at.iteration = Passes(p, elapsed)
  BY <1>1, <1>5, EvalPosition
<1>7. r \in Nat /\ Passes(p, elapsed) \in Nat /\ Passes(p, elapsed) * Total(p) + r = elapsed
  BY <1>1, PassesOf
<1>8. r < Total(p) \/ Total(p) = 0
  BY <1>1, <1>5, PassesOf DEF Single, Looping
<1>. HIDE DEF p, r
<1>9. i \in DOMAIN p.phases /\ StartOf(p, i) <= r
      /\ (r < StartOf(p, i + 1) \/ i = Len(p.phases))
  BY <1>1, <1>7, CutAtStarts
<1>. HIDE DEF i
<1>10. /\ StartOf(p, i) \in Nat /\ StartOf(p, i + 1) \in Nat
       /\ StartOf(p, i + 1) = StartOf(p, i) + dur
       /\ p.phases[i] \in Phases
  BY <1>1, <1>9, ProfileFacts
<1>11. dur \in Nat
  BY <1>10 DEF Phases
<1>12. i = Len(p.phases) => Total(p) = StartOf(p, i + 1) /\ Total(p) >= dur
  BY <1>1, ProfileFacts
<1>. HIDE DEF dur
<1>13. dur > 0 => r - StartOf(p, i) < dur
  BY <1>7, <1>8, <1>9, <1>10, <1>11, <1>12, <1>2
<1>14. Passes(p, elapsed) * Total(p) + StartOf(p, i) + (r - StartOf(p, i)) = elapsed
  <2>. DEFINE x == Passes(p, elapsed) * Total(p)
  <2>1. x \in Nat /\ x + r = elapsed
    BY <1>2, <1>7
  <2>. HIDE DEF x
  <2>2. x + StartOf(p, i) + (r - StartOf(p, i)) = elapsed
    BY <1>7, <1>10, <2>1
  <2>. QED  BY <2>2 DEF x
<1>15. r - StartOf(p, i) >= 0
  BY <1>7, <1>9, <1>10
<1>. QED  BY <1>6, <1>13, <1>14, <1>15 DEF p, dur

\* However a profile is made up, no instant is lost between two phases or two
\* passes, and none belongs to two (Eval, profile.go:240-273).
THEOREM TilingCorrect == Spec => []Inv
<1>1. IInv => Inv
  BY TypeInv, TilesInv DEF Inv
<1>. QED  BY <1>1, Invariant, PTL

(***************************************************************************)
(* The peak.                                                               *)
(***************************************************************************)

\* The numbers that are given with finitely many phases are bounded.
LEMMA EndsBounded ==
  ASSUME NEW phases \in Seq(Phases)
  PROVE  \E b \in Nat : \A i \in 1 .. Len(phases) : phases[i].from <= b /\ phases[i].to <= b
<1>. DEFINE n == Len(phases)
            Bound(k, b) == \A i \in 1 .. n : i <= k => phases[i].from <= b /\ phases[i].to <= b
            S == {k \in Nat : \E b \in Nat : Bound(k, b)}
<1>1. n \in Nat /\ \A i \in 1 .. n : phases[i].from \in Nat /\ phases[i].to \in Nat
  <2>1. n \in Nat
    BY LenProperties
  <2>2. \A i \in 1 .. n : phases[i] \in Phases
    BY ElementOfSeq
  <2>. HIDE DEF n
  <2>. QED  BY <2>1, <2>2 DEF Phases
<1>2. 0 \in S
  <2>1. Bound(0, 0)
    BY <1>1
  <2>. HIDE DEF Bound
  <2>. QED  BY <2>1
<1>3. ASSUME NEW k \in Nat, k \in S PROVE k + 1 \in S
  <2>1. PICK b \in Nat : Bound(k, b)
    BY <1>3
  <2>2. CASE k + 1 \in 1 .. n
    <3>. DEFINE c == b + phases[k + 1].from + phases[k + 1].to
    <3>1. c \in Nat /\ b <= c /\ phases[k + 1].from <= c /\ phases[k + 1].to <= c
      BY <1>1, <2>2
    <3>. HIDE DEF c
    <3>2. ASSUME NEW i \in 1 .. n, i <= k + 1
          PROVE  phases[i].from <= c /\ phases[i].to <= c
      <4>1. CASE i = k + 1
        BY <3>1, <4>1
      <4>2. CASE i # k + 1
        <5>1. i <= k
          BY <1>1, <3>2, <4>2
        <5>2. phases[i].from <= b /\ phases[i].to <= b
          BY <2>1, <5>1
        <5>3. phases[i].from \in Nat /\ phases[i].to \in Nat
          BY <1>1
        <5>. QED  BY <3>1, <5>2, <5>3
      <4>. QED  BY <4>1, <4>2
    <3>3. Bound(k + 1, c)
      BY <3>2
    <3>. HIDE DEF Bound
    <3>. QED  BY <3>1, <3>3
  <2>3. CASE k + 1 \notin 1 .. n
    <3>1. Bound(k + 1, b)
      BY <1>1, <2>1, <2>3
    <3>. HIDE DEF Bound
    <3>. QED  BY <3>1
  <2>. QED  BY <2>2, <2>3
<1>. HIDE DEF S
<1>4. n \in S
  BY <1>1, <1>2, <1>3, SetInduction
<1>5. PICK b \in Nat : Bound(n, b)
  <2>. HIDE DEF n, Bound
  <2>. QED  BY <1>4 DEF S
<1>6. ASSUME NEW i \in 1 .. n
      PROVE  phases[i].from <= b /\ phases[i].to <= b
  <2>1. i <= n
    BY <1>1
  <2>. QED  BY <1>5, <2>1
<1>. QED  BY <1>6

\* The peak is no less than either end of any phase.
LEMMA PeakOverAll ==
  ASSUME NEW p \in Profiles, NEW i \in DOMAIN p.phases
  PROVE  /\ Peak(p) \in Nat
         /\ p.phases[i].from <= Peak(p) /\ p.phases[i].to <= Peak(p)
<1>. DEFINE phases == p.phases
            T == UNION {{phases[j].from, phases[j].to} : j \in DOMAIN phases}
<1>1. phases \in Seq(Phases) /\ DOMAIN phases = 1 .. Len(phases)
  BY ProfileFacts DEF Profiles
<1>2. \A j \in DOMAIN phases : phases[j].from \in Nat /\ phases[j].to \in Nat
  <2>1. \A j \in DOMAIN phases : phases[j] \in Phases
    BY ProfileFacts
  <2>. QED  BY <2>1 DEF Phases
<1>3. Peak(p) = Max(T)
  BY DEF Peak
<1>4. i \in DOMAIN phases
  OBVIOUS
<1>. HIDE DEF phases
<1>5. PICK b \in Nat : \A j \in 1 .. Len(phases) : phases[j].from <= b /\ phases[j].to <= b
  BY <1>1, EndsBounded
<1>6. phases[i].from \in T /\ phases[i].to \in T
  BY <1>4
<1>7. \A x \in T : x \in Nat /\ x <= b
  BY <1>1, <1>2, <1>5
<1>. HIDE DEF T
<1>8. T \in SUBSET Nat /\ T # {}
  BY <1>6, <1>7
<1>9. Max(T) \in T /\ \A x \in T : x <= Max(T)
  BY <1>7, <1>8, MaxIsGreatest
<1>. QED  BY <1>3, <1>6, <1>7, <1>9 DEF phases

\* The worker pool and the warnings are computed from a peak that no target
\* exceeds, unless a jitter is configured (PeakCPU, profile.go:325-335).
THEOREM PeakCorrect == Spec => []WithinPeak
<1>1. IInv => WithinPeak
  <2>. SUFFICES ASSUME IInv, profile.phases[at.index].jitter = 0
                PROVE  at.value <= Peak(profile)
    BY DEF WithinPeak
  <2>. DEFINE ph == profile.phases[at.index]
  <2>1. profile \in Profiles /\ elapsed \in Nat /\ at \in Eval(profile, elapsed)
    BY DEF IInv
  <2>2. at.index \in DOMAIN profile.phases /\ at.in \in Nat
    <3>1. at.index \in DOMAIN profile.phases /\ at.in \in 0 .. elapsed
      BY <2>1, EvalType
    <3>. QED  BY <2>1, <3>1
  <2>3. Peak(profile) \in Nat /\ ph.from <= Peak(profile) /\ ph.to <= Peak(profile)
    BY <2>1, <2>2, PeakOverAll
  <2>4. ph \in Phases
    BY <2>1, <2>2, ProfileFacts
  <2>5. ph.from \in Nat /\ ph.to \in Nat
    BY <2>4 DEF Phases
  <2>6. CASE Ended(profile, elapsed)
    <3>1. at.value = 0
      BY <2>1, <2>6, EvalPosition
    <3>. QED  BY <2>3, <3>1
  <2>7. CASE ~Ended(profile, elapsed)
    <3>1. at.value \in Values(ph, at.in)
      BY <2>1, <2>7, EvalPosition
    <3>. HIDE DEF ph
    <3>2. PICK v \in Nat : Values(ph, at.in) = {v} /\ (v <= ph.from \/ v <= ph.to)
      BY <2>2, <2>4, ValuesWithin DEF ph
    <3>3. at.value = v
      BY <3>1, <3>2
    <3>. QED  BY <2>3, <2>5, <3>2, <3>3
  <2>. QED  BY <2>6, <2>7
<1>. QED  BY <1>1, Invariant, PTL

(***************************************************************************)
(* Steps.                                                                  *)
(***************************************************************************)

\* Of two evaluations in a loop the later one is in a later pass, or no less
\* far in the same one.
LEMMA PassesMonotone ==
  ASSUME NEW p \in Profiles, NEW d \in Nat, NEW e \in Nat, d <= e,
         Looping(p, d), Looping(p, e)
  PROVE  /\ Passes(p, d) <= Passes(p, e)
         /\ Passes(p, d) = Passes(p, e) => InPass(p, d) <= InPass(p, e)
<1>. DEFINE T == Total(p)
            q == Passes(p, d)
            k == Passes(p, e)
            r == InPass(p, d)
            s == InPass(p, e)
<1>1. T \in Nat /\ q \in Nat /\ k \in Nat /\ r \in Nat /\ s \in Nat
      /\ q * T + r = d /\ k * T + s = e /\ r < T /\ s < T
  BY ProfileFacts, PassesOf
<1>. HIDE DEF T, q, k, r, s
<1>2. q * T \in Nat /\ k * T \in Nat
  BY <1>1
<1>3. q <= k
  <2>1. SUFFICES ASSUME q >= k + 1 PROVE FALSE
    BY <1>1
  <2>2. q * T >= (k + 1) * T
    BY <1>1, <2>1
  <2>3. (k + 1) * T = k * T + T
    BY <1>1
  <2>. QED  BY <1>1, <1>2, <2>2, <2>3
<1>4. q = k => r <= s
  BY <1>1, <1>2
<1>. QED  BY <1>3, <1>4 DEF q, k, r, s

\* Of two answers the later one is not in an earlier phase of the same pass.
LEMMA EvalInOrder ==
  ASSUME NEW p \in Profiles, NEW d \in Nat, NEW e \in Nat, d <= e,
         NEW s \in Eval(p, d), NEW t \in Eval(p, e)
  PROVE  /\ t.iteration >= s.iteration
         /\ t.index < s.index => t.iteration > s.iteration
<1>1. p.loop \in BOOLEAN /\ p.holdLast \in BOOLEAN /\ Total(p) \in Nat
  BY ProfileFacts DEF Profiles
<1>2. /\ s.index \in 1 .. Len(p.phases) /\ s.iteration \in Nat
      /\ t.index \in 1 .. Len(p.phases) /\ t.iteration \in Nat
      /\ Len(p.phases) \in Nat
  <2>1. /\ s.index \in DOMAIN p.phases /\ s.iteration \in 0 .. d
        /\ t.index \in DOMAIN p.phases /\ t.iteration \in 0 .. e
    BY EvalType
  <2>2. DOMAIN p.phases = 1 .. Len(p.phases) /\ Len(p.phases) \in Nat
    BY ProfileFacts
  <2>3. s.index \in 1 .. Len(p.phases) /\ t.index \in 1 .. Len(p.phases)
    BY <2>1, <2>2, Zenon
  <2>4. s.iteration \in Nat /\ t.iteration \in Nat
    BY <2>1
  <2>. QED  BY <2>2, <2>3, <2>4
<1>3. CASE Single(p, e)
  <2>1. Single(p, d)
    BY <1>1, <1>3 DEF Single
  <2>2. ~Looping(p, d) /\ ~Looping(p, e)
    BY <1>3, <2>1 DEF Looping
  <2>3. InPass(p, d) = d /\ InPass(p, e) = e /\ Passes(p, d) = 0 /\ Passes(p, e) = 0
    BY <2>2 DEF InPass, Passes
  <2>4. /\ s.index = IndexAt(p, InPass(p, d)) /\ s.iteration = Passes(p, d)
        /\ t.index = IndexAt(p, InPass(p, e)) /\ t.iteration = Passes(p, e)
    BY <1>3, <2>1, EvalPosition
  <2>5. s.index <= t.index
    BY <2>3, <2>4, CutMonotone
  <2>. QED  BY <1>2, <2>3, <2>4, <2>5
<1>4. CASE Looping(p, e)
  <2>1. t.index = IndexAt(p, InPass(p, e)) /\ t.iteration = Passes(p, e)
    BY <1>4, EvalPosition
  <2>2. CASE Single(p, d)
    <3>1. ~Looping(p, d)
      BY <2>2 DEF Looping
    <3>2. s.iteration = Passes(p, d) /\ Passes(p, d) = 0
      BY <2>2, <3>1, EvalPosition DEF Passes
    <3>3. t.iteration >= 1
      BY <1>4, <2>1, PassesOf
    <3>. QED  BY <1>2, <3>2, <3>3
  <2>3. CASE Looping(p, d)
    <3>1. s.index = IndexAt(p, InPass(p, d)) /\ s.iteration = Passes(p, d)
      BY <2>3, EvalPosition
    <3>2. Passes(p, d) <= Passes(p, e)
          /\ (Passes(p, d) = Passes(p, e) => InPass(p, d) <= InPass(p, e))
      BY <1>4, <2>3, PassesMonotone
    <3>3. InPass(p, d) \in Nat /\ InPass(p, e) \in Nat
      BY PassesOf
    <3>4. s.iteration = t.iteration => s.index <= t.index
      BY <2>1, <3>1, <3>2, <3>3, CutMonotone
    <3>. QED  BY <1>2, <2>1, <3>1, <3>2, <3>4
  <2>. QED  BY <1>4, <2>2, <2>3 DEF Looping
<1>5. CASE Holding(p, e) \/ Ended(p, e)
  <2>1. t.index = Len(p.phases) /\ t.iteration = 0 /\ ~p.loop
    BY <1>5, EvalPosition DEF Holding, Ended
  <2>2. ~Looping(p, d)
    BY <2>1 DEF Looping
  <2>3. s.iteration = 0
    <3>1. CASE Single(p, d)
      <4>1. s.iteration = Passes(p, d) /\ Passes(p, d) = 0
        BY <2>2, <3>1, EvalPosition DEF Passes
      <4>. QED  BY <4>1
    <3>2. CASE Holding(p, d) \/ Ended(p, d)
      BY <3>2, EvalPosition
    <3>. QED  BY <1>1, <2>2, <3>1, <3>2 DEF Single, Looping, Holding, Ended
  <2>. QED  BY <1>2, <2>1, <2>3
<1>. QED  BY <1>1, <1>3, <1>4, <1>5 DEF Single, Looping, Holding, Ended

\* A tick of the runner after a gap of any length never goes back to an earlier
\* phase within a pass (Run, runner.go:109-122).
THEOREM PhasesInOrderCorrect == Spec => PhasesInOrder
<1>. DEFINE A == /\ at'.iteration >= at.iteration
                 /\ at'.index < at.index => at'.iteration > at.iteration
<1>1. IInv /\ [Next]_vars => [A]_vars
  <2>. SUFFICES ASSUME IInv, NEW gap \in 1 .. MaxGap, Advance(gap) PROVE A
    BY DEF Next
  <2>1. /\ profile \in Profiles /\ elapsed \in Nat
        /\ at \in Eval(profile, elapsed)
    BY DEF IInv
  <2>2. elapsed' = elapsed + gap /\ at' \in Eval(profile, elapsed')
    BY DEF Advance
  <2>3. elapsed' \in Nat /\ elapsed <= elapsed'
    BY <2>1, <2>2
  <2>. QED  BY <2>1, <2>2, <2>3, EvalInOrder
<1>2. IInv /\ [Next]_vars => [/\ at'.iteration >= at.iteration
                              /\ at'.index < at.index => at'.iteration > at.iteration]_vars
  BY <1>1
<1>. QED  BY <1>2, Invariant, PTL DEF Spec, PhasesInOrder

\* The end is final: after it there is no load and no way back, and a target
\* that is held does not move (Eval, profile.go:249-263).
THEOREM EndIsFinalCorrect == Spec => EndIsFinal
<1>1. IInv /\ [Next]_vars =>
        [/\ at.finished => at'.finished
         /\ at'.finished => /\ elapsed' >= Total(profile) /\ at'.value = 0
                            /\ ~profile.loop /\ ~profile.holdLast
         /\ Held /\ lastPhase.duration > 0 /\ lastPhase.jitter = 0
              => at'.value = at.value]_vars
  <2>. SUFFICES ASSUME IInv, NEW gap \in 1 .. MaxGap, Advance(gap)
                PROVE  /\ at.finished => at'.finished
                       /\ at'.finished => /\ elapsed' >= Total(profile) /\ at'.value = 0
                                          /\ ~profile.loop /\ ~profile.holdLast
                       /\ Held /\ lastPhase.duration > 0 /\ lastPhase.jitter = 0
                            => at'.value = at.value
    BY DEF Next
  <2>. DEFINE p == profile
              d == elapsed
              e == elapsed'
  <2>1. /\ p \in Profiles /\ d \in Nat /\ e \in Nat /\ d <= e
        /\ at \in Eval(p, d) /\ at' \in Eval(p, e)
    BY DEF IInv, Advance
  <2>2. p.loop \in BOOLEAN /\ p.holdLast \in BOOLEAN /\ Total(p) \in Nat
    BY <2>1, ProfileFacts DEF Profiles
  <2>. HIDE DEF p, d, e
  <2>3. ASSUME at.finished PROVE at'.finished
    <3>1. Ended(p, d)
      BY <2>1, <2>2, <2>3, EvalPosition DEF Single, Looping, Holding, Ended
    <3>2. Ended(p, e)
      BY <2>1, <2>2, <3>1 DEF Single, Ended
    <3>. QED  BY <2>1, <3>2, EvalPosition
  <2>4. ASSUME at'.finished
        PROVE  e >= Total(p) /\ at'.value = 0 /\ ~p.loop /\ ~p.holdLast
    <3>1. Ended(p, e)
      BY <2>1, <2>2, <2>4, EvalPosition DEF Single, Looping, Holding, Ended
    <3>2. at'.value = 0
      BY <2>1, <3>1, EvalPosition
    <3>. QED  BY <2>1, <2>2, <3>1, <3>2 DEF Single, Ended
  <2>5. ASSUME Held, lastPhase.jitter = 0 PROVE at'.value = at.value
    <3>1. Holding(p, d)
      BY <2>1, <2>2, <2>5 DEF Held, Holding, Single, p, d
    <3>2. Holding(p, e)
      BY <2>1, <2>2, <3>1 DEF Holding, Single
    <3>. DEFINE last == p.phases[Len(p.phases)]
                in == Last(p.phases).duration
    <3>3. ~Ended(p, d) /\ ~Ended(p, e)
      BY <3>1, <3>2 DEF Holding, Ended
    <3>4. at.value \in Values(last, in) /\ at'.value \in Values(last, in)
      BY <2>1, <3>1, <3>2, <3>3, EvalPosition
    <3>5. last \in Phases /\ in = last.duration /\ last = lastPhase
      BY <2>1, ProfileFacts DEF lastPhase, p
    <3>6. in \in Nat /\ last.jitter = 0
      BY <2>5, <3>5 DEF Phases
    <3>. HIDE DEF last, in
    <3>7. PICK v \in Nat : Values(last, in) = {v}
      BY <3>5, <3>6, ValuesWithin
    <3>. QED  BY <3>4, <3>7
  <2>. QED  BY <2>3, <2>4, <2>5 DEF p, d, e
<1>. QED  BY <1>1, Invariant, PTL DEF Spec, EndIsFinal
(***************************************************************************)
(* The chart.                                                              *)
(***************************************************************************)

\* Multiplying by a positive number keeps an order, and can be undone.
LEMMA Scaling ==
  ASSUME NEW n \in Nat \ {0}, NEW a \in Int, NEW b \in Int
  PROVE  /\ n * a \in Int /\ n * b \in Int
         /\ a <= b <=> n * a <= n * b
         /\ a < b <=> n * a < n * b
<1>1. n * a \in Int /\ n * b \in Int
  OBVIOUS
<1>2. ASSUME NEW c \in Int, NEW d \in Int, c <= d PROVE n * c <= n * d
  BY <1>2
<1>3. ASSUME NEW c \in Int, NEW d \in Int, c < d PROVE n * c < n * d
  <2>1. n * (c + 1) <= n * d
    BY <1>2, <1>3
  <2>2. n * (c + 1) = n * c + n
    OBVIOUS
  <2>3. n * c \in Int /\ n * d \in Int
    OBVIOUS
  <2>. QED  BY <2>1, <2>2, <2>3
<1>4. a <= b => n * a <= n * b
  BY <1>2
<1>5. a < b => n * a < n * b
  BY <1>3
<1>6. b < a => n * b < n * a
  BY <1>3
<1>7. b <= a => n * b <= n * a
  BY <1>2
<1>. DEFINE x == n * a
            y == n * b
<1>. HIDE DEF x, y
<1>8. a <= b => x <= y
  BY <1>4 DEF x, y
<1>9. a < b => x < y
  BY <1>5 DEF x, y
<1>10. b < a => y < x
  BY <1>6 DEF x, y
<1>11. b <= a => y <= x
  BY <1>7 DEF x, y
<1>12. x \in Int /\ y \in Int
  BY <1>1 DEF x, y
<1>13. x \in Int /\ y \in Int /\ (a <= b <=> x <= y) /\ (a < b <=> x < y)
  BY <1>8, <1>9, <1>10, <1>11, <1>12
<1>. QED  BY <1>13 DEF x, y

\* A quotient is the last number that, times the divisor, does not exceed.
LEMMA Quotient ==
  ASSUME NEW n \in Nat \ {0}, NEW a \in Nat
  PROVE  /\ a \div n \in Nat
         /\ n * (a \div n) <= a /\ a < n * (a \div n) + n
         /\ \A x \in Nat : /\ x <= a \div n <=> n * x <= a
                           /\ a \div n < x <=> a < n * x
<1>. DEFINE q == a \div n
            y == n * q
<1>1. q \in Nat /\ y <= a /\ a < y + n /\ y \in Nat
  OBVIOUS
<1>. HIDE DEF q
<1>2. ASSUME NEW x \in Nat
      PROVE  (x <= q <=> n * x <= a) /\ (q < x <=> a < n * x)
  <2>. DEFINE z == n * x
  <2>1. x <= q <=> z <= y
    BY <1>1, Scaling
  <2>2. q + 1 <= x <=> n * (q + 1) <= z
    BY <1>1, Scaling
  <2>3. n * (q + 1) = y + n
    BY <1>1
  <2>4. z \in Int
    OBVIOUS
  <2>. HIDE DEF y, z
  <2>5. (x <= q <=> z <= a) /\ (q < x <=> a < z)
    BY <1>1, <2>1, <2>2, <2>3, <2>4
  <2>. QED  BY <2>5 DEF z
<1>. QED  BY <1>1, <1>2 DEF q, y

LEMMA ChartNumbers ==
  /\ Width \in Nat \ {0} /\ Height \in Nat \ {0} /\ SubSamples \in Nat \ {0}
  /\ OpenWindow \in Nat \ {0} /\ SubSamples * Width \in Nat /\ SubSamples * Width >= 6
  /\ Windows \subseteq Nat
  BY ChartAssumption, SamplesAssumption, WindowsAssumption
     DEF ChartAssumption, SamplesAssumption, WindowsAssumption

LEMMA WindowPositive ==
  ASSUME NEW p \in Profiles, NEW asked \in Nat
  PROVE  Window(p, asked) \in Nat \ {0}
<1>1. Total(p) \in Nat
  BY ProfileFacts
<1>. DEFINE pass == IF Total(p) = 0 THEN OpenWindow ELSE Total(p)
<1>2. pass \in Nat \ {0}
  BY <1>1, ChartNumbers
<1>3. Window(p, asked) = IF asked > 0 THEN asked
                         ELSE IF p.loop THEN 2 * pass
                         ELSE IF OpenEnded(p.phases) THEN (4 * pass) \div 3
                         ELSE pass
  BY DEF Window
<1>. HIDE DEF pass
<1>. QED  BY <1>2, <1>3

\* A sample lies in the slice of its column.
LEMMA SampleInSlice ==
  ASSUME NEW w \in Nat \ {0}, NEW c \in Nat, NEW k \in 0 .. SubSamples - 1, NEW s \in Nat
  PROVE  /\ SampleTime(w, c, k) \in Nat
         /\ w * (c + 1) <= Width * s => SampleTime(w, c, k) < s
         /\ Width * s <= w * c => s <= SampleTime(w, c, k)
<1>. DEFINE n == SubSamples * Width
            a == w * (SubSamples * c + k)
<1>1. /\ Width \in Nat \ {0} /\ SubSamples \in Nat \ {0} /\ n \in Nat \ {0}
      /\ SubSamples * c \in Nat /\ k \in Nat
  BY ChartNumbers
<1>2. a \in Nat /\ SampleTime(w, c, k) = a \div n
  BY <1>1 DEF SampleTime
<1>3. n * s = SubSamples * (Width * s)
  BY <1>1
<1>4. w * (c + 1) \in Nat /\ w * c \in Nat /\ Width * s \in Nat
  BY <1>1
<1>5. ASSUME w * (c + 1) <= Width * s PROVE a < n * s
  <2>1. SubSamples * (w * (c + 1)) <= n * s
    BY <1>1, <1>3, <1>4, <1>5, Scaling
  <2>2. SubSamples * c + k < SubSamples * (c + 1)
    <3>1. SubSamples * (c + 1) = SubSamples * c + SubSamples
      BY <1>1
    <3>. QED  BY <1>1, <3>1
  <2>3. a < w * (SubSamples * (c + 1))
    <3>. DEFINE x == SubSamples * c + k
                y == SubSamples * (c + 1)
    <3>1. x \in Int /\ y \in Int
      BY <1>1
    <3>. HIDE DEF x, y
    <3>2. w * x < w * y
      BY <2>2, <3>1, Scaling DEF x, y
    <3>. QED  BY <3>2 DEF x, y
  <2>4. w * (SubSamples * (c + 1)) = SubSamples * (w * (c + 1))
    BY <1>1
  <2>5. n * s \in Nat /\ SubSamples * (w * (c + 1)) \in Nat
    BY <1>1
  <2>. HIDE DEF a, n
  <2>. QED  BY <1>2, <2>1, <2>3, <2>4, <2>5
<1>6. ASSUME Width * s <= w * c PROVE n * s <= a
  <2>1. n * s <= SubSamples * (w * c)
    BY <1>1, <1>3, <1>4, <1>6, Scaling
  <2>2. w * (SubSamples * c) <= a
    <3>. DEFINE x == SubSamples * c
                y == SubSamples * c + k
    <3>1. x \in Int /\ y \in Int /\ x <= y
      BY <1>1
    <3>. HIDE DEF x, y
    <3>2. w * x <= w * y
      BY <3>1, Scaling
    <3>. QED  BY <3>2 DEF x, y
  <2>3. w * (SubSamples * c) = SubSamples * (w * c)
    BY <1>1
  <2>4. n * s \in Nat /\ SubSamples * (w * c) \in Nat
    BY <1>1
  <2>. HIDE DEF a, n
  <2>. QED  BY <1>2, <2>1, <2>2, <2>3, <2>4
<1>. HIDE DEF a, n
<1>7. a \div n \in Nat /\ (s <= a \div n <=> n * s <= a) /\ (a \div n < s <=> a < n * s)
  BY <1>1, <1>2, Quotient
<1>. QED  BY <1>2, <1>5, <1>6, <1>7

\* An instant is in the slice of the column it is marked at.
LEMMA InSlice ==
  ASSUME NEW w \in Nat \ {0}, NEW s \in Nat
  PROVE  /\ ColumnOf(w, s) \in Nat
         /\ \A c \in Nat : /\ c <= ColumnOf(w, s) <=> w * c <= Width * s
                           /\ ColumnOf(w, s) < c <=> Width * s < w * c
<1>. DEFINE a == s * Width
<1>1. a \in Nat /\ a = Width * s
  BY ChartNumbers
<1>. HIDE DEF a
<1>2. ColumnOf(w, s) = a \div w
  BY DEF ColumnOf, a
<1>. QED  BY <1>1, <1>2, Quotient

(***************************************************************************)
(* The marker and the axis.                                                *)
(***************************************************************************)
Before(s, t) ==
  s.iteration < t.iteration \/ (s.iteration = t.iteration /\ s.index <= t.index)

LEMMA MarkerPlaced ==
  ASSUME IInv, NEW w \in Nat \ {0}, NEW c \in Marker(w, elapsed)
  PROVE  /\ \A t \in Eval(profile, SampleTime(w, c, 0)) : Before(t, at)
         /\ \A t \in Eval(profile, SampleTime(w, c + 1, 0)) : Before(at, t)
<1>1. profile \in Profiles /\ elapsed \in Nat /\ at \in Eval(profile, elapsed)
  BY DEF IInv
<1>2. c = ColumnOf(w, elapsed) /\ c \in Nat
  BY <1>1, InSlice DEF Marker
<1>3. 0 \in 0 .. SubSamples - 1 /\ c + 1 \in Nat
  BY <1>2, ChartNumbers
<1>4. w * c <= Width * elapsed /\ Width * elapsed < w * (c + 1)
  <2>1. c <= ColumnOf(w, elapsed) /\ ColumnOf(w, elapsed) < c + 1
    BY <1>2
  <2>. QED  BY <1>1, <1>2, <1>3, <2>1, InSlice
<1>. DEFINE x == SampleTime(w, c, 0)
            y == SampleTime(w, c + 1, 0)
<1>5. x \in Nat /\ x <= elapsed
  <2>. DEFINE a == w * (SubSamples * c + 0)
              n == SubSamples * Width
  <2>1. a \in Nat /\ n \in Nat \ {0} /\ a = SubSamples * (w * c) /\ x = a \div n
    BY <1>2, ChartNumbers DEF SampleTime
  <2>2. n * (elapsed + 1) = SubSamples * (Width * elapsed) + n
    BY <1>1, ChartNumbers
  <2>3. SubSamples * (w * c) <= SubSamples * (Width * elapsed)
    BY <1>1, <1>2, <1>4, ChartNumbers, Scaling
  <2>4. SubSamples * (w * c) \in Nat /\ SubSamples * (Width * elapsed) \in Nat
    BY <1>1, <1>2, ChartNumbers
  <2>. HIDE DEF a, n
  <2>5. a < n * (elapsed + 1)
    BY <2>1, <2>2, <2>3, <2>4
  <2>6. a \div n \in Nat /\ a \div n < elapsed + 1
    BY <1>1, <2>1, <2>5, Quotient
  <2>. QED  BY <1>1, <2>1, <2>6
<1>6. y \in Nat /\ elapsed <= y
  <2>1. Width * elapsed \in Nat /\ w * (c + 1) \in Nat
    BY <1>1, <1>2, ChartNumbers
  <2>2. Width * elapsed <= w * (c + 1)
    BY <1>4, <2>1
  <2>. DEFINE d == c + 1
  <2>3. d \in Nat /\ Width * elapsed <= w * d
    BY <1>3, <2>2
  <2>. HIDE DEF d
  <2>4. SampleTime(w, d, 0) \in Nat /\ elapsed <= SampleTime(w, d, 0)
    BY <1>1, <1>3, <2>3, SampleInSlice
  <2>. QED  BY <2>4 DEF d
<1>7. at.index \in Int /\ at.iteration \in Int
  <2>1. at.index \in DOMAIN profile.phases /\ at.iteration \in 0 .. elapsed
    BY <1>1, EvalType
  <2>2. DOMAIN profile.phases = 1 .. Len(profile.phases) /\ Len(profile.phases) \in Nat
    BY <1>1, ProfileFacts
  <2>. QED  BY <2>1, <2>2
<1>8. ASSUME NEW e \in Nat, NEW t \in Eval(profile, e)
      PROVE  t.index \in Int /\ t.iteration \in Int
  <2>1. t.index \in DOMAIN profile.phases /\ t.iteration \in 0 .. e
    BY <1>1, EvalType
  <2>2. DOMAIN profile.phases = 1 .. Len(profile.phases) /\ Len(profile.phases) \in Nat
    BY <1>1, ProfileFacts
  <2>. QED  BY <2>1, <2>2
<1>. HIDE DEF x, y
<1>9. ASSUME NEW t \in Eval(profile, x) PROVE Before(t, at)
  <2>1. /\ at.iteration >= t.iteration
        /\ at.index < t.index => at.iteration > t.iteration
    BY <1>1, <1>5, <1>9, EvalInOrder
  <2>2. t.index \in Int /\ t.iteration \in Int
    BY <1>5, <1>8, <1>9
  <2>. QED  BY <1>7, <2>1, <2>2 DEF Before
<1>10. ASSUME NEW t \in Eval(profile, y) PROVE Before(at, t)
  <2>1. /\ t.iteration >= at.iteration
        /\ t.index < at.index => t.iteration > at.iteration
    BY <1>1, <1>6, <1>10, EvalInOrder
  <2>2. t.index \in Int /\ t.iteration \in Int
    BY <1>6, <1>8, <1>10
  <2>. QED  BY <1>7, <2>1, <2>2 DEF Before
<1>. QED  BY <1>9, <1>10 DEF x, y

\* The distance of the labels is positive, and no 19 of it fit in the window.
LEMMA StepOfAxis ==
  ASSUME NEW w \in Nat \ {0}
  PROVE  /\ TickStep(w) \in 1 .. w
         /\ w < 19 * Last(NiceSteps) => w < 19 * TickStep(w)
<1>. DEFINE n == Len(NiceSteps)
            nice == {s \in Range(NiceSteps) : s <= w \div 6}
<1>1. /\ NiceSteps \in Seq(Nat \ {0}) /\ NiceSteps # <<>>
      /\ \A i \in 1 .. n - 1 : NiceSteps[i] < NiceSteps[i + 1]
                               /\ NiceSteps[i + 1] <= 3 * NiceSteps[i]
  BY StepsAssumption DEF StepsAssumption
<1>2. n \in Nat \ {0} /\ DOMAIN NiceSteps = 1 .. n /\ Last(NiceSteps) = NiceSteps[n]
  BY <1>1, EmptySeq, LenProperties DEF Last
<1>3. \A i \in 1 .. n : NiceSteps[i] \in Nat \ {0}
  BY <1>1, ElementOfSeq
<1>4. Range(NiceSteps) = {NiceSteps[i] : i \in 1 .. n}
  BY <1>2 DEF Range
<1>. HIDE DEF n
<1>5. TickStep(w) = IF nice = {} THEN w ELSE Max(nice)
  BY DEF TickStep
<1>6. CASE nice = {}
  BY <1>5, <1>6
<1>7. CASE nice # {}
  <2>1. nice \in SUBSET Nat /\ w \div 6 \in Nat /\ \A s \in nice : s <= w \div 6
    BY <1>3, <1>4
  <2>. DEFINE m == Max(nice)
  <2>2. m \in nice /\ \A s \in nice : s <= m
    <3>. HIDE DEF nice
    <3>. QED  BY <1>7, <2>1, MaxIsGreatest
  <2>. HIDE DEF m
  <2>3. PICK i \in 1 .. n : m = NiceSteps[i]
    BY <1>4, <2>2
  <2>4. m \in Nat \ {0} /\ m <= w \div 6
    BY <1>3, <2>2, <2>3
  <2>5. m <= w
    BY <2>4
  <2>6. CASE i = n
    BY <1>2, <1>5, <1>7, <2>3, <2>4, <2>5, <2>6 DEF m
  <2>7. CASE i # n
    <3>1. i \in 1 .. n - 1 /\ i + 1 \in 1 .. n
      BY <1>2, <2>7
    <3>2. m < NiceSteps[i + 1] /\ NiceSteps[i + 1] <= 3 * m /\ NiceSteps[i + 1] \in Nat
      BY <1>1, <1>3, <2>3, <3>1
    <3>3. NiceSteps[i + 1] \notin nice
      BY <2>2, <2>4, <3>2
    <3>4. w \div 6 < NiceSteps[i + 1]
      BY <1>4, <2>1, <3>1, <3>2, <3>3
    <3>5. w < 19 * m
      BY <2>4, <3>2, <3>4
    <3>. QED  BY <1>5, <1>7, <2>4, <2>5, <3>5 DEF m
  <2>. QED  BY <2>6, <2>7
<1>. QED  BY <1>6, <1>7

LEMMA LabelsFew ==
  ASSUME NEW w \in Nat \ {0}, w < 19 * Last(NiceSteps)
  PROVE  Cardinality(Labels(w)) \in 2 .. 19
<1>. DEFINE s == TickStep(w)
            q == w \div s
            f == [k \in 0 .. q |-> s * k]
<1>1. s \in Nat \ {0} /\ s <= w /\ w < 19 * s
  BY StepOfAxis
<1>. HIDE DEF s
<1>2. q \in Nat /\ s * q <= w /\ w < s * q + s
      /\ \A x \in Nat : (x <= q <=> s * x <= w) /\ (q < x <=> w < s * x)
  BY <1>1, Quotient
<1>3. q \in 1 .. 18
  <2>1. s * 1 = s /\ s * 19 = 19 * s
    BY <1>1
  <2>2. 1 <= q /\ q < 19
    BY <1>1, <1>2, <2>1
  <2>. QED  BY <1>2, <2>2
<1>. HIDE DEF q
<1>4. Labels(w) = {t \in 0 .. w : t % s = 0}
  BY DEF Labels, s
<1>5. \A k \in 0 .. q : s * k \in Labels(w)
  <2>. SUFFICES ASSUME NEW k \in 0 .. q PROVE s * k \in Labels(w)
    OBVIOUS
  <2>1. k \in Nat /\ k <= q
    BY <1>3
  <2>2. s * k \in Nat /\ s * k <= w
    BY <1>1, <1>2, <2>1
  <2>3. (s * k) % s = 0
    BY <1>1, <2>1
  <2>. QED  BY <1>4, <2>2, <2>3
<1>6. ASSUME NEW t \in Labels(w) PROVE \E k \in 0 .. q : f[k] = t
  <2>1. t \in Nat /\ t <= w /\ t % s = 0
    BY <1>4
  <2>. DEFINE k == t \div s
  <2>2. k \in Nat /\ t = s * k
    BY <1>1, <2>1
  <2>. HIDE DEF k
  <2>3. k <= q
    BY <1>2, <2>1, <2>2
  <2>. QED  BY <1>3, <2>2, <2>3
<1>7. \A a, b \in 0 .. q : f[a] = f[b] => a = b
  <2>. SUFFICES ASSUME NEW a \in 0 .. q, NEW b \in 0 .. q, s * a = s * b PROVE a = b
    OBVIOUS
  <2>1. a \in Int /\ b \in Int
    BY <1>3
  <2>2. (a <= b <=> s * a <= s * b) /\ (b <= a <=> s * b <= s * a)
        /\ s * a \in Int /\ s * b \in Int
    BY <1>1, <2>1, Scaling
  <2>3. a <= b /\ b <= a
    BY <2>2
  <2>. QED  BY <2>1, <2>3
<1>8. f \in [0 .. q -> Labels(w)]
  BY <1>5
<1>9. ExistsBijection(0 .. q, Labels(w))
  <2>. HIDE DEF f
  <2>. QED  BY <1>6, <1>7, <1>8 DEF ExistsBijection, Bijection, Injection, IsInjective, Surjection
<1>10. IsFiniteSet(0 .. q) /\ Cardinality(0 .. q) = q + 1
  <2>1. 0 \in Int /\ q \in Int /\ ~(0 > q) /\ q - 0 + 1 = q + 1
    BY <1>3
  <2>2. IsFiniteSet(0 .. q) /\ Cardinality(0 .. q) = IF 0 > q THEN 0 ELSE q - 0 + 1
    BY <2>1, FS_Interval
  <2>. QED  BY <2>1, <2>2
<1>11. Cardinality(Labels(w)) = q + 1
  BY <1>9, <1>10, FS_Bijection
<1>. QED  BY <1>3, <1>11

(***************************************************************************)
(* The bands.                                                              *)
(***************************************************************************)

\* With finitely many phases the targets are bounded, jitter included.
LEMMA TargetsBounded ==
  ASSUME NEW p \in Profiles
  PROVE  \E b \in Nat : \A e \in Nat : \A t \in Eval(p, e) : t.value <= b
<1>. DEFINE D == DOMAIN p.phases
            f == [i \in D |-> (p.phases[i].from + p.phases[i].to) * (1 + p.phases[i].jitter)]
<1>1. \A i \in D : p.phases[i] \in Phases
  BY ProfileFacts
<1>2. \A i \in D : /\ p.phases[i].from \in Nat /\ p.phases[i].to \in Nat
                   /\ p.phases[i].jitter \in Nat
  BY <1>1 DEF Phases
<1>3. f \in [D -> Int] /\ IsFiniteSet(D)
  <2>1. \A i \in D : (p.phases[i].from + p.phases[i].to) * (1 + p.phases[i].jitter) \in Int
    BY <1>2
  <2>2. D = 1 .. Len(p.phases) /\ Len(p.phases) \in Nat
    BY ProfileFacts
  <2>. QED  BY <2>1, <2>2, FS_Interval
<1>4. PICK b \in Nat : \A i \in D : f[i] <= b
  <2>. HIDE DEF D, f
  <2>. QED  BY <1>3, GreatestValue
<1>5. ASSUME NEW i \in D, NEW in \in Nat, NEW x \in Values(p.phases[i], in)
      PROVE  x <= b
  <2>. DEFINE ph == p.phases[i]
              a == ph.to - ph.from
              q == (a * Shape(ph, in)) \div Unit
              v == ph.from + q
              spread == (v * ph.jitter) \div Unit
              top == ph.from + ph.to
  <2>1. ph \in Phases /\ ph.from \in Nat /\ ph.to \in Nat /\ ph.jitter \in Nat
    BY <1>1, <1>2
  <2>2. f[i] = top * (1 + ph.jitter) /\ f[i] <= b
    BY <1>4
  <2>3. Values(ph, in) = IF ph.from = 0 /\ ph.to = 0 THEN {0}
                         ELSE {Max({0, v - spread}), v, Max({0, v + spread})}
    BY DEF Values
  <2>4. Shape(ph, in) \in 0 .. Unit
    BY <2>1, ShapeWithin
  <2>. HIDE DEF f, ph
  <2>5. q \in Int /\ (a >= 0 => q \in 0 .. a) /\ (a < 0 => q \in a .. 0)
    <3>1. a \in Int
      BY <2>1
    <3>. HIDE DEF a
    <3>. QED  BY <2>4, <3>1, PartOf
  <2>. HIDE DEF q
  <2>6. v \in 0 .. top /\ top \in Nat
    BY <2>1, <2>5
  <2>. HIDE DEF v, top
  <2>. DEFINE j == ph.jitter
              most == top * j
  <2>7. spread \in Nat /\ spread <= most /\ most \in Nat
    <3>. DEFINE y == v * j
    <3>1. y \in Nat /\ most \in Nat /\ v \in Int /\ top \in Int
      BY <2>1, <2>6
    <3>2. y <= most
      <4>1. CASE j = 0
        BY <2>6, <4>1
      <4>2. CASE j # 0
        <5>1. j \in Nat \ {0} /\ v <= top
          BY <2>1, <2>6, <4>2
        <5>. HIDE DEF j
        <5>2. j * v <= j * top
          BY <3>1, <5>1, Scaling
        <5>3. j * v = v * j /\ j * top = top * j
          BY <3>1, <5>1
        <5>. QED  BY <5>2, <5>3
      <4>. QED  BY <4>1, <4>2
    <3>. HIDE DEF y, most
    <3>3. y \div Unit \in Nat /\ Unit * (y \div Unit) <= y
      BY <3>1, Quotient
    <3>. DEFINE z == y \div Unit
    <3>. HIDE DEF z
    <3>4. z <= Unit * z
      <4>1. 1 * z <= Unit * z
        BY <3>3 DEF z
      <4>. QED  BY <3>3, <4>1 DEF z
    <3>5. Unit * z \in Nat
      BY <3>3 DEF z
    <3>6. z <= most
      BY <3>1, <3>2, <3>3, <3>4, <3>5 DEF z
    <3>. QED  BY <3>1, <3>3, <3>6 DEF z, y
  <2>8. top * (1 + j) = top + most
    BY <2>1, <2>6
  <2>. HIDE DEF spread, most
  <2>9. /\ Max({0, v - spread}) = IF 0 >= v - spread THEN 0 ELSE v - spread
        /\ Max({0, v + spread}) = IF 0 >= v + spread THEN 0 ELSE v + spread
    <3>. DEFINE l == v - spread
                h == v + spread
    <3>1. 0 \in Int /\ l \in Int /\ h \in Int
      BY <2>6, <2>7
    <3>. HIDE DEF l, h
    <3>2. /\ Max({0, l}) = IF 0 >= l THEN 0 ELSE l
          /\ Max({0, h}) = IF 0 >= h THEN 0 ELSE h
      BY <3>1, MaxOfTwo
    <3>. QED  BY <3>2 DEF l, h
  <2>10. x \in {0, Max({0, v - spread}), v, Max({0, v + spread})}
    BY <2>3 DEF ph
  <2>11. f[i] \in Int
    BY <1>3
  <2>12. f[i] = top + most
    BY <2>2, <2>8
  <2>. QED  BY <2>2, <2>6, <2>7, <2>9, <2>10, <2>11, <2>12
<1>6. ASSUME NEW e \in Nat, NEW t \in Eval(p, e) PROVE t.value <= b
  <2>1. CASE Ended(p, e)
    <3>1. t.value = 0
      BY <2>1, EvalPosition
    <3>. QED  BY <3>1
  <2>2. CASE ~Ended(p, e)
    <3>1. t.index \in D /\ t.in \in Nat
      <4>1. t.index \in D /\ t.in \in 0 .. e
        BY EvalType
      <4>. HIDE DEF D
      <4>. QED  BY <4>1
    <3>2. t.value \in Values(p.phases[t.index], t.in)
      BY <2>2, EvalPosition
    <3>. HIDE DEF D
    <3>. QED  BY <1>5, <3>1, <3>2
  <2>. QED  BY <2>1, <2>2
<1>. QED  BY <1>6

\* There is an answer for every instant.
LEMMA EvalNonEmpty ==
  ASSUME NEW p \in Profiles, NEW e \in Nat
  PROVE  Eval(p, e) # {}
<1>1. \A ph, in : Values(ph, in) # {}
  BY DEF Values
<1>2. \A i, in, n : Sample(p, i, in, n) # {}
  <2>. TAKE i, in, n
  <2>1. PICK v \in Values(p.phases[i], in) : TRUE
    BY <1>1
  <2>. QED  BY <2>1 DEF Sample
<1>3. Eval(p, e) # {}
  <2>1. CASE e < Total(p) \/ Total(p) = 0
    <3>1. Eval(p, e) = Within(p, e, 0)
      BY <2>1 DEF Eval
    <3>. QED  BY <1>2, <3>1 DEF Within
  <2>2. CASE ~(e < Total(p) \/ Total(p) = 0) /\ p.loop
    <3>1. Eval(p, e) = Within(p, e % Total(p), Iteration(p, e))
      BY <2>2 DEF Eval
    <3>. QED  BY <1>2, <3>1 DEF Within
  <2>3. CASE ~(e < Total(p) \/ Total(p) = 0) /\ ~p.loop /\ p.holdLast
    <3>1. Eval(p, e) = Sample(p, Len(p.phases), Last(p.phases).duration, 0)
      BY <2>3 DEF Eval
    <3>. QED  BY <1>2, <3>1
  <2>4. CASE ~(e < Total(p) \/ Total(p) = 0) /\ ~p.loop /\ ~p.holdLast
    <3>1. Eval(p, e) = Finished(p)
      BY <2>4 DEF Eval
    <3>. QED  BY <3>1 DEF Finished
  <2>. QED  BY <2>1, <2>2, <2>3, <2>4
<1>. QED  BY <1>3

\* A band lies between two targets.
LEMMA BandNumbers ==
  ASSUME NEW p \in Profiles, NEW w \in Nat \ {0}, NEW c \in Nat,
         NEW b \in Nat, \A e \in Nat : \A t \in Eval(p, e) : t.value <= b
  PROVE  /\ Band(p, w, c).min \in Nat /\ Band(p, w, c).max \in Nat
         /\ Band(p, w, c).min <= Band(p, w, c).max /\ Band(p, w, c).max <= b
<1>. DEFINE T == {t.value : t \in Samples(p, w, c)}
<1>1. Band(p, w, c).min = Min(T) /\ Band(p, w, c).max = Max(T)
  BY DEF Band
<1>2. ASSUME NEW t \in Samples(p, w, c) PROVE t.value \in Nat /\ t.value <= b
  <2>1. PICK k \in 0 .. SubSamples - 1 : t \in Eval(p, SampleTime(w, c, k))
    BY DEF Samples
  <2>. DEFINE e == SampleTime(w, c, k)
  <2>2. e \in Nat
    BY SampleInSlice
  <2>. HIDE DEF e
  <2>3. t \in Eval(p, e)
    BY <2>1 DEF e
  <2>. QED  BY <2>2, <2>3, EvalType
<1>3. Samples(p, w, c) # {}
  <2>1. 0 \in 0 .. SubSamples - 1
    BY ChartNumbers
  <2>2. SampleTime(w, c, 0) \in Nat
    BY <2>1, SampleInSlice
  <2>3. Eval(p, SampleTime(w, c, 0)) # {}
    BY <2>2, EvalNonEmpty
  <2>. QED  BY <2>1, <2>3 DEF Samples
<1>4. T \in SUBSET Nat /\ T # {} /\ \A n \in T : n <= b
  BY <1>2, <1>3
<1>. HIDE DEF T
<1>5. Min(T) \in T /\ \A n \in T : Min(T) <= n
  BY <1>4, MinIsLeast
<1>6. Max(T) \in T /\ \A n \in T : n <= Max(T)
  BY <1>4, MaxIsGreatest
<1>. QED  BY <1>1, <1>4, <1>5, <1>6

\* What a cell of a band is drawn with.
LEMMA CellDrawn ==
  ASSUME NEW band, band.min \in Nat, band.max \in Nat, band.min <= band.max,
         NEW top \in Nat \ {0}, NEW r \in Nat
  PROVE  Cell(band, top, r) # " " <=> top * r < band.max * Height
<1>. DEFINE l == band.min
            h == band.max
            x == l * Height
            y == h * Height
            z == top * r
<1>1. Height \in Nat \ {0}
  BY ChartNumbers
<1>2. Height * l <= Height * h /\ Height * l = x /\ Height * h = y
  BY <1>1, Scaling
<1>3. x \in Nat /\ y \in Nat /\ z \in Nat /\ top * (r + 1) = z + top
  BY <1>1
<1>4. Cell(band, top, r) = IF x >= top * (r + 1) THEN "#" ELSE IF y > z THEN "-" ELSE " "
  BY DEF Cell
<1>. HIDE DEF x, y, z
<1>5. Cell(band, top, r) = IF x >= z + top THEN "#" ELSE IF y > z THEN "-" ELSE " "
  BY <1>3, <1>4
<1>6. Cell(band, top, r) # " " <=> z < y
  <2>1. CASE x >= z + top
    <3>1. z < y
      BY <1>2, <1>3, <2>1
    <3>. QED  BY <1>5, <2>1, <3>1
  <2>2. CASE ~(x >= z + top) /\ z < y
    <3>1. y > z
      BY <1>3, <2>2
    <3>. QED  BY <1>5, <2>2, <3>1
  <2>3. CASE ~(x >= z + top) /\ ~(z < y)
    BY <1>3, <1>5, <2>3
  <2>. QED  BY <2>1, <2>2, <2>3
<1>. QED  BY <1>6 DEF y, z

LEMMA BandsCorrect ==
  ASSUME NEW p \in Profiles, NEW asked \in Nat
  PROVE  BandsDrawn(p, asked)
<1>. DEFINE w     == Window(p, asked)
            bands == [c \in 0 .. Width - 1 |-> Band(p, w, c)]
            tops  == {bands[c].max : c \in DOMAIN bands}
            top   == Max(tops)
            drawn(c, r) == Cell(bands[c], top, r) # " "
<1>1. w \in Nat \ {0}
  BY WindowPositive
<1>. HIDE DEF w
<1>2. PICK b \in Nat : \A e \in Nat : \A t \in Eval(p, e) : t.value <= b
  BY TargetsBounded
<1>3. Width \in Nat \ {0} /\ Height \in Nat \ {0}
  BY ChartNumbers
<1>4. DOMAIN bands = 0 .. Width - 1
  OBVIOUS
<1>5. ASSUME NEW c \in DOMAIN bands
      PROVE  /\ bands[c].min \in Nat /\ bands[c].max \in Nat
             /\ bands[c].min <= bands[c].max /\ bands[c].max <= b
  <2>1. c \in Nat /\ bands[c] = Band(p, w, c)
    BY <1>3
  <2>. HIDE DEF bands
  <2>. QED  BY <1>1, <1>2, <2>1, BandNumbers
<1>6. 0 \in DOMAIN bands
  BY <1>3
<1>. HIDE DEF bands
<1>7. tops \in SUBSET Nat /\ tops # {} /\ \A n \in tops : n <= b
  BY <1>5, <1>6
<1>. HIDE DEF tops
<1>8. top \in tops /\ \A n \in tops : n <= top
  BY <1>2, <1>7, MaxIsGreatest
<1>. HIDE DEF top
<1>9. ASSUME top > 0, NEW c \in DOMAIN bands, NEW r \in 0 .. Height - 1
      PROVE  drawn(c, r) <=> top * r < bands[c].max * Height
  <2>1. top \in Nat \ {0} /\ r \in Nat
    BY <1>3, <1>7, <1>8, <1>9
  <2>3. /\ bands[c].min \in Nat /\ bands[c].max \in Nat
        /\ bands[c].min <= bands[c].max
    BY <1>5
  <2>. DEFINE band == bands[c]
  <2>4. band.min \in Nat /\ band.max \in Nat /\ band.min <= band.max
    BY <2>3
  <2>. HIDE DEF band
  <2>5. Cell(band, top, r) # " " <=> top * r < band.max * Height
    BY <2>1, <2>4, CellDrawn
  <2>. QED  BY <2>5 DEF band
<1>. HIDE DEF drawn
<1>10. ASSUME top > 0 PROVE \E c \in DOMAIN bands : drawn(c, Height - 1)
  <2>1. PICK c \in DOMAIN bands : top = bands[c].max
    BY <1>8 DEF tops
  <2>2. Height - 1 \in 0 .. Height - 1 /\ top \in Nat
    BY <1>3, <1>7, <1>8
  <2>3. top * (Height - 1) < top * Height
    <3>1. top * Height = top * (Height - 1) + top /\ top * (Height - 1) \in Int
      BY <1>3, <2>2
    <3>. QED  BY <1>10, <2>2, <3>1
  <2>. QED  BY <1>9, <1>10, <2>1, <2>2, <2>3
<1>11. ASSUME top > 0, NEW c \in DOMAIN bands PROVE drawn(c, 0) <=> bands[c].max > 0
  <2>1. 0 \in 0 .. Height - 1 /\ bands[c].max \in Nat /\ top \in Nat
    <3>1. bands[c].max \in Nat
      BY <1>5, <1>11
    <3>2. 0 \in 0 .. Height - 1 /\ top \in Nat
      BY <1>3, <1>7, <1>8
    <3>. QED  BY <3>1, <3>2
  <2>2. drawn(c, 0) <=> top * 0 < bands[c].max * Height
    BY <1>9, <1>11, <2>1
  <2>3. 0 < bands[c].max * Height <=> 0 < bands[c].max
    <3>. DEFINE m == bands[c].max
    <3>. HIDE DEF m
    <3>1. m \in Int
      BY <2>1 DEF m
    <3>2. 0 < m <=> Height * 0 < Height * m
      BY <1>3, <3>1, Scaling
    <3>3. Height * 0 = 0 /\ Height * m = m * Height
      BY <1>3, <3>1
    <3>4. 0 < m * Height <=> 0 < m
      BY <3>2, <3>3
    <3>. QED  BY <3>4 DEF m
  <2>4. top * 0 = 0
    BY <2>1
  <2>. QED  BY <2>1, <2>2, <2>3, <2>4
<1>12. ASSUME top > 0, NEW c \in DOMAIN bands, NEW r \in 1 .. Height - 1, drawn(c, r)
       PROVE  drawn(c, r - 1)
  <2>. DEFINE q == r - 1
  <2>1. r \in 0 .. Height - 1 /\ q \in 0 .. Height - 1 /\ r \in Int /\ q \in Int /\ q <= r
    BY <1>3
  <2>2. top \in Nat \ {0}
    BY <1>7, <1>8, <1>12
  <2>. HIDE DEF q
  <2>3. top * q <= top * r
    BY <2>1, <2>2, Scaling
  <2>4. top * r < bands[c].max * Height
    BY <1>9, <1>12, <2>1
  <2>5. top * q \in Int /\ top * r \in Int /\ bands[c].max * Height \in Int
    BY <1>3, <1>5, <2>1, <2>2
  <2>6. top * q < bands[c].max * Height
    BY <2>3, <2>4, <2>5
  <2>7. drawn(c, q)
    BY <1>9, <1>12, <2>1, <2>6
  <2>. QED  BY <2>7 DEF q
<1>13. top > 0 =>
         /\ \E c \in DOMAIN bands : drawn(c, Height - 1)
         /\ \A c \in DOMAIN bands :
              /\ drawn(c, 0) <=> bands[c].max > 0
              /\ \A r \in 1 .. Height - 1 : drawn(c, r) => drawn(c, r - 1)
  BY <1>10, <1>11, <1>12
<1>. QED  BY <1>13 DEF BandsDrawn, drawn, top, tops, bands, w

(***************************************************************************)
(* The phases in the order of time.                                        *)
(***************************************************************************)

\* What begins later is the later phase, and nothing follows an open end.
LEMMA StartsMonotone ==
  ASSUME NEW p \in Profiles, NEW i \in DOMAIN p.phases, NEW j \in 1 .. Len(p.phases) + 1,
         i <= j
  PROVE  /\ StartOf(p, i) <= StartOf(p, j)
         /\ (\A k \in DOMAIN p.phases : i <= k => p.phases[k].duration = 0)
              => StartOf(p, j) = StartOf(p, i)
<1>. DEFINE n == Len(p.phases)
            zeros == \A k \in DOMAIN p.phases : i <= k => p.phases[k].duration = 0
            P(k) == /\ StartOf(p, i + k) \in Nat
                    /\ StartOf(p, i) <= StartOf(p, i + k)
                    /\ zeros => StartOf(p, i + k) = StartOf(p, i)
            S == {k \in Nat : i + k <= n + 1 => P(k)}
<1>1. n \in Nat /\ DOMAIN p.phases = 1 .. n /\ i \in 1 .. n
  BY ProfileFacts
<1>2. \A k \in 1 .. n : /\ StartOf(p, k) \in Nat /\ StartOf(p, k + 1) \in Nat
                        /\ StartOf(p, k + 1) = StartOf(p, k) + p.phases[k].duration
                        /\ p.phases[k].duration \in Nat
  <2>1. \A k \in DOMAIN p.phases : p.phases[k].duration \in Nat
    <3>1. \A k \in DOMAIN p.phases : p.phases[k] \in Phases
      BY ProfileFacts
    <3>. QED  BY <3>1 DEF Phases
  <2>. QED  BY <1>1, <2>1, ProfileFacts
<1>. HIDE DEF n
<1>3. 0 \in S
  <2>1. i + 0 = i
    BY <1>1
  <2>. QED  BY <1>1, <1>2, <2>1
<1>4. ASSUME NEW k \in Nat, k \in S PROVE k + 1 \in S
  <2>. SUFFICES ASSUME i + (k + 1) <= n + 1 PROVE P(k + 1)
    OBVIOUS
  <2>. DEFINE l == i + k
  <2>1. l \in 1 .. n /\ i <= l /\ l + 1 = i + (k + 1)
    BY <1>1
  <2>2. P(k)
    BY <1>4, <1>1, <2>1
  <2>3. StartOf(p, l) \in Nat /\ StartOf(p, i) <= StartOf(p, l)
        /\ (zeros => StartOf(p, l) = StartOf(p, i))
    BY <2>2
  <2>. HIDE DEF l
  <2>4. zeros => p.phases[l].duration = 0
    BY <1>1, <2>1
  <2>. HIDE DEF zeros
  <2>5. /\ StartOf(p, l + 1) \in Nat /\ p.phases[l].duration \in Nat
         /\ StartOf(p, l + 1) = StartOf(p, l) + p.phases[l].duration
         /\ StartOf(p, i) \in Nat
    BY <1>1, <1>2, <2>1
  <2>6. /\ StartOf(p, l + 1) \in Nat /\ StartOf(p, i) <= StartOf(p, l + 1)
        /\ zeros => StartOf(p, l + 1) = StartOf(p, i)
    BY <2>3, <2>4, <2>5
  <2>. QED  BY <2>1, <2>6
<1>5. j - i \in Nat /\ i + (j - i) = j /\ j <= n + 1
  BY <1>1 DEF n
<1>. HIDE DEF S
<1>6. j - i \in S
  BY <1>3, <1>4, <1>5, SetInduction
<1>. QED  BY <1>5, <1>6 DEF S

\* Before a phase begins an answer names an earlier one; once it has begun, an
\* answer of the first pass names it or a later one; and at the open end the
\* last one.
LEMMA IndexBefore ==
  ASSUME NEW p \in Profiles, NEW e \in Nat, NEW t \in Eval(p, e),
         NEW i \in DOMAIN p.phases, e < StartOf(p, i)
  PROVE  t.index < i
<1>1. /\ Len(p.phases) \in Nat \ {0} /\ DOMAIN p.phases = 1 .. Len(p.phases)
      /\ StartOf(p, 1) = 0 /\ StartOf(p, i) \in Nat
      /\ Total(p) = StartOf(p, Len(p.phases) + 1) /\ Total(p) \in Nat
  BY ProfileFacts
<1>2. i - 1 \in DOMAIN p.phases /\ (i - 1) + 1 = i
  <2>1. i # 1
    BY <1>1
  <2>. QED  BY <1>1, <2>1
<1>3. StartOf(p, i) <= Total(p)
  <2>1. Len(p.phases) + 1 \in 1 .. Len(p.phases) + 1 /\ i <= Len(p.phases) + 1
    BY <1>1
  <2>. QED  BY <1>1, <2>1, StartsMonotone
<1>4. Single(p, e)
  BY <1>1, <1>3 DEF Single
<1>5. InPass(p, e) = e
  BY <1>4 DEF InPass, Looping
<1>6. t.index = IndexAt(p, e)
  <2>1. t.index = IndexAt(p, InPass(p, e))
    BY <1>4, EvalPosition
  <2>. QED  BY <1>5, <2>1
<1>7. IndexAt(p, e) <= i - 1 /\ IndexAt(p, e) \in DOMAIN p.phases
  BY <1>2, CutAtStarts
<1>. QED  BY <1>1, <1>6, <1>7

LEMMA IndexAfter ==
  ASSUME NEW p \in Profiles, NEW e \in Nat, NEW t \in Eval(p, e), t.iteration = 0,
         NEW i \in DOMAIN p.phases, StartOf(p, i) <= e
  PROVE  i <= t.index
<1>1. /\ Len(p.phases) \in Nat \ {0} /\ DOMAIN p.phases = 1 .. Len(p.phases)
      /\ p.loop \in BOOLEAN /\ p.holdLast \in BOOLEAN
  BY ProfileFacts DEF Profiles
<1>2. CASE Single(p, e)
  <2>. DEFINE m == IndexAt(p, e)
  <2>1. t.index = m
    <3>1. InPass(p, e) = e
      BY <1>2 DEF InPass, Looping
    <3>2. t.index = IndexAt(p, InPass(p, e))
      BY <1>2, EvalPosition
    <3>. QED  BY <3>1, <3>2
  <2>2. m \in DOMAIN p.phases /\ (e < StartOf(p, m + 1) \/ m = Len(p.phases))
    BY CutAtStarts
  <2>. HIDE DEF m
  <2>3. ASSUME m < i PROVE FALSE
    <3>1. m + 1 \in DOMAIN p.phases /\ m + 1 <= i /\ i \in 1 .. Len(p.phases) + 1
          /\ m # Len(p.phases)
      BY <1>1, <2>2, <2>3
    <3>2. StartOf(p, m + 1) <= StartOf(p, i)
      BY <3>1, StartsMonotone
    <3>3. StartOf(p, m + 1) \in Nat /\ StartOf(p, i) \in Nat
      BY <2>2, ProfileFacts
    <3>. QED  BY <2>2, <3>1, <3>2, <3>3
  <2>. QED  BY <1>1, <2>1, <2>2, <2>3
<1>3. CASE Looping(p, e)
  <2>1. t.iteration = Passes(p, e) /\ Passes(p, e) >= 1
    BY <1>3, EvalPosition, PassesOf
  <2>. QED  BY <2>1
<1>4. CASE Holding(p, e) \/ Ended(p, e)
  <2>1. t.index = Len(p.phases)
    BY <1>4, EvalPosition
  <2>. QED  BY <1>1, <2>1
<1>. QED  BY <1>1, <1>2, <1>3, <1>4 DEF Single, Looping, Holding, Ended

LEMMA IndexAtEnd ==
  ASSUME NEW p \in Profiles, Ordered(p), OpenEnded(p.phases),
         NEW e \in Nat, Total(p) <= e, NEW t \in Eval(p, e)
  PROVE  t.index = Len(p.phases) /\ t.iteration = 0
<1>1. /\ Len(p.phases) \in Nat \ {0} /\ DOMAIN p.phases = 1 .. Len(p.phases)
      /\ p.loop \in BOOLEAN /\ p.holdLast \in BOOLEAN /\ Total(p) \in Nat
      /\ Total(p) = StartOf(p, Len(p.phases) + 1)
  BY ProfileFacts DEF Profiles
<1>2. ~p.loop
  BY DEF Ordered, OpenEnded
<1>3. ~Looping(p, e)
  BY <1>2 DEF Looping
<1>4. CASE Single(p, e)
  <2>. DEFINE m == IndexAt(p, e)
  <2>1. t.index = m /\ t.iteration = 0
    <3>1. InPass(p, e) = e /\ Passes(p, e) = 0
      BY <1>3 DEF InPass, Passes
    <3>2. t.index = IndexAt(p, InPass(p, e)) /\ t.iteration = Passes(p, e)
      BY <1>4, EvalPosition
    <3>. QED  BY <3>1, <3>2
  <2>2. m \in DOMAIN p.phases /\ (e < StartOf(p, m + 1) \/ m = Len(p.phases))
    BY CutAtStarts
  <2>. HIDE DEF m
  <2>3. ASSUME m # Len(p.phases) PROVE FALSE
    <3>. DEFINE l == m + 1
    <3>1. l \in DOMAIN p.phases /\ l <= Len(p.phases) + 1
          /\ Len(p.phases) + 1 \in 1 .. Len(p.phases) + 1
      BY <1>1, <2>2, <2>3
    <3>. HIDE DEF l
    <3>2. StartOf(p, l) <= Total(p)
      BY <1>1, <3>1, StartsMonotone
    <3>3. StartOf(p, l) \in Nat
      BY <3>1, ProfileFacts
    <3>4. e < StartOf(p, l)
      BY <2>2, <2>3 DEF l
    <3>. QED  BY <1>1, <3>2, <3>3, <3>4
  <2>. QED  BY <2>1, <2>3
<1>5. CASE Holding(p, e) \/ Ended(p, e)
  BY <1>5, EvalPosition
<1>. QED  BY <1>1, <1>3, <1>4, <1>5 DEF Single, Looping, Holding, Ended

\* An interval of the window that is no shorter than a sub-sample has a sample.
LEMMA SampleHits ==
  ASSUME NEW w \in Nat \ {0}, NEW s \in Nat, NEW e \in Nat, e <= w,
         SubSamples * Width * (e - s) >= w
  PROVE  \E c \in 0 .. Width - 1, k \in 0 .. SubSamples - 1 :
           /\ SampleTime(w, c, k) \in Nat
           /\ s <= SampleTime(w, c, k) /\ SampleTime(w, c, k) < e
<1>. DEFINE N == SubSamples * Width
            y == N * s
            z == N * e
            a == y + w - 1
            n == a \div w
            c == n \div SubSamples
            k == n - SubSamples * c
            b == w * n
            x == b \div N
<1>1. /\ Width \in Nat \ {0} /\ SubSamples \in Nat \ {0} /\ N \in Nat \ {0}
  BY ChartNumbers
<1>2. y \in Nat /\ z \in Nat /\ a \in Nat
  BY <1>1
<1>3. y + w <= z
  <2>1. N * (e - s) = z - y
    BY <1>1
  <2>. HIDE DEF N, y, z
  <2>. QED  BY <1>2, <2>1 DEF N
<1>4. n \in Nat /\ b \in Nat /\ y <= b /\ b < z
  <2>1. n \in Nat /\ b <= a /\ a < b + w
    BY <1>2, Quotient
  <2>2. b \in Nat
    BY <2>1
  <2>. HIDE DEF n, b, y, z
  <2>. QED  BY <1>2, <1>3, <2>1, <2>2
<1>5. n < N
  <2>1. z <= w * N
    <3>1. N * w = w * N
      BY <1>1
    <3>2. z <= N * w
      BY <1>1, Scaling
    <3>. QED  BY <3>1, <3>2
  <2>2. w * N \in Int
    BY <1>1
  <2>3. b < w * N
    <3>. HIDE DEF b, z, N
    <3>. QED  BY <1>2, <1>4, <2>1, <2>2
  <2>. HIDE DEF n, N
  <2>. QED  BY <1>1, <1>4, <2>3, Scaling
<1>. HIDE DEF n
<1>6. c \in Nat /\ SubSamples * c <= n /\ n < SubSamples * c + SubSamples
      /\ SubSamples * c \in Nat
  BY <1>1, <1>4, Quotient
<1>. HIDE DEF c
<1>7. c \in 0 .. Width - 1
  <2>1. SubSamples * c < SubSamples * Width
    <3>. DEFINE d == SubSamples * c
    <3>1. d \in Nat /\ d <= n
      BY <1>6
    <3>. HIDE DEF d, N
    <3>2. d < N
      BY <1>1, <1>4, <1>5, <3>1
    <3>. QED  BY <3>2 DEF d, N
  <2>2. c < Width
    BY <1>1, <1>6, <2>1, Scaling
  <2>. QED  BY <1>1, <1>6, <2>2
<1>8. k \in 0 .. SubSamples - 1 /\ SubSamples * c + k = n
  <2>. DEFINE d == SubSamples * c
  <2>1. d \in Nat /\ d <= n /\ n < d + SubSamples
    BY <1>6
  <2>. HIDE DEF d
  <2>2. n - d \in 0 .. SubSamples - 1 /\ d + (n - d) = n
    BY <1>1, <1>4, <2>1
  <2>. QED  BY <2>2 DEF d
<1>. HIDE DEF k
<1>9. SampleTime(w, c, k) = x
  BY <1>8 DEF SampleTime
<1>. HIDE DEF N, b
<1>10. x \in Nat /\ (s <= x <=> N * s <= b) /\ (x < e <=> b < N * e)
  BY <1>1, <1>4, Quotient
<1>11. s <= x /\ x < e
  BY <1>4, <1>10
<1>. HIDE DEF x
<1>. QED  BY <1>7, <1>8, <1>9, <1>10, <1>11

\* Every phase of the window that is not too short is seen in some column.
LEMMA PhaseSeen ==
  ASSUME NEW p \in Profiles, Ordered(p), NEW w \in Nat \ {0}, NEW i \in Barred(p),
         LET end == IF p.phases[i].duration = 0 THEN w ELSE Min({w, StartOf(p, i + 1)})
         IN SubSamples * Width * (end - StartOf(p, i)) >= w
  PROVE  LET shown == IF p.phases[i].duration > 0 THEN i ELSE Len(p.phases)
         IN \E c \in 0 .. Width - 1 : shown \in IndicesSeen(p, w, c)
<1>. DEFINE start == StartOf(p, i)
            next == StartOf(p, i + 1)
            end == IF p.phases[i].duration = 0 THEN w ELSE Min({w, next})
            shown == IF p.phases[i].duration > 0 THEN i ELSE Len(p.phases)
<1>1. /\ Len(p.phases) \in Nat \ {0} /\ DOMAIN p.phases = 1 .. Len(p.phases)
      /\ i \in 1 .. Len(p.phases) /\ Total(p) = StartOf(p, Len(p.phases) + 1)
      /\ start \in Nat /\ next \in Nat /\ Total(p) \in Nat
      /\ Last(p.phases) = p.phases[Len(p.phases)]
  BY ProfileFacts DEF Barred
<1>2. p.phases[i].duration \in Nat
  <2>1. p.phases[i] \in Phases
    BY <1>1, ProfileFacts
  <2>. QED  BY <2>1 DEF Phases
<1>. HIDE DEF start, next
<1>3. /\ end \in Nat /\ end <= w
      /\ p.phases[i].duration > 0 => end <= next
  <2>1. CASE p.phases[i].duration = 0
    BY <2>1
  <2>2. CASE p.phases[i].duration # 0
    <3>1. end = Min({w, next})
      BY <2>2
    <3>2. {w, next} \in SUBSET Nat /\ {w, next} # {}
      BY <1>1
    <3>3. Min({w, next}) \in {w, next} /\ \A n \in {w, next} : Min({w, next}) <= n
      BY <3>2, MinIsLeast
    <3>4. end \in {w, next} /\ end <= w /\ end <= next
      BY <3>1, <3>3
    <3>. QED  BY <1>1, <3>4
  <2>. QED  BY <2>1, <2>2
<1>4. SubSamples * Width * (end - start) >= w
  BY DEF start, next
<1>. HIDE DEF end
<1>5. PICK c \in 0 .. Width - 1, k \in 0 .. SubSamples - 1 :
        /\ SampleTime(w, c, k) \in Nat
        /\ start <= SampleTime(w, c, k) /\ SampleTime(w, c, k) < end
  BY <1>1, <1>3, <1>4, SampleHits
<1>. DEFINE x == SampleTime(w, c, k)
<1>6. x \in Nat /\ start <= x /\ x < end
  BY <1>5
<1>7. Eval(p, x) \subseteq Samples(p, w, c)
  BY DEF Samples
<1>. HIDE DEF x
<1>8. PICK t \in Eval(p, x) : TRUE
  BY <1>6, EvalNonEmpty
<1>9. t.index = shown
  <2>1. CASE p.phases[i].duration > 0
    <3>1. x < next
      BY <1>1, <1>3, <1>6, <2>1
    <3>2. next <= Total(p)
      <4>1. CASE i = Len(p.phases)
        BY <1>1, <4>1 DEF next
      <4>2. CASE i # Len(p.phases)
        <5>1. i + 1 \in DOMAIN p.phases /\ i + 1 <= Len(p.phases) + 1
              /\ Len(p.phases) + 1 \in 1 .. Len(p.phases) + 1
          BY <1>1, <4>2
        <5>. QED  BY <1>1, <5>1, StartsMonotone DEF next
      <4>. QED  BY <4>1, <4>2
    <3>3. Single(p, x) /\ InPass(p, x) = x /\ Passes(p, x) = 0
      BY <1>1, <1>6, <3>1, <3>2 DEF Single, InPass, Passes, Looping
    <3>4. t.index = IndexAt(p, InPass(p, x)) /\ t.iteration = Passes(p, x)
      BY <1>6, <1>8, <3>3, EvalPosition
    <3>5. t.index = IndexAt(p, x) /\ t.iteration = 0
      BY <3>3, <3>4
    <3>6. IndexAt(p, x) \in DOMAIN p.phases /\ IndexAt(p, x) <= i
      BY <1>1, <1>6, <3>1, CutAtStarts DEF next
    <3>7. i <= t.index
      BY <1>1, <1>6, <1>8, <3>5, IndexAfter DEF start
    <3>. QED  BY <1>1, <2>1, <3>5, <3>6, <3>7
  <2>2. CASE p.phases[i].duration = 0
    <3>1. \A j \in DOMAIN p.phases : i <= j => p.phases[j].duration = 0
      BY <1>1, <2>2 DEF Ordered
    <3>2. OpenEnded(p.phases)
      BY <1>1, <3>1 DEF OpenEnded
    <3>3. Total(p) = start
      <4>1. Len(p.phases) + 1 \in 1 .. Len(p.phases) + 1 /\ i <= Len(p.phases) + 1
        BY <1>1
      <4>. QED  BY <1>1, <3>1, <4>1, StartsMonotone DEF start
    <3>4. t.index = Len(p.phases)
      BY <1>6, <1>8, <3>2, <3>3, IndexAtEnd
    <3>. QED  BY <2>2, <3>4
  <2>. QED  BY <1>2, <2>1, <2>2
<1>10. shown \in IndicesSeen(p, w, c)
  BY <1>7, <1>8, <1>9 DEF IndicesSeen
<1>. QED  BY <1>10 DEF shown

\* Left of the bar of a phase are earlier ones, right of it is none.
LEMMA PhaseBarred ==
  ASSUME NEW p \in Profiles, NEW w \in Nat \ {0}, NEW i \in DOMAIN p.phases,
         NEW c \in Nat, NEW t \in Samples(p, w, c), t.iteration = 0
  PROVE  /\ c < ColumnOf(w, StartOf(p, i)) => t.index < i
         /\ c > ColumnOf(w, StartOf(p, i)) => t.index >= i
<1>. DEFINE s == StartOf(p, i)
            b == ColumnOf(w, s)
<1>1. s \in Nat
  BY ProfileFacts
<1>2. PICK k \in 0 .. SubSamples - 1 : t \in Eval(p, SampleTime(w, c, k))
  BY DEF Samples
<1>. DEFINE x == SampleTime(w, c, k)
<1>. HIDE DEF s
<1>3. b \in Nat /\ (\A d \in Nat : /\ d <= b <=> w * d <= Width * s
                                   /\ b < d <=> Width * s < w * d)
  BY <1>1, InSlice
<1>. HIDE DEF b
<1>4. /\ x \in Nat
      /\ w * (c + 1) <= Width * s => x < s
      /\ Width * s <= w * c => s <= x
  BY <1>1, SampleInSlice
<1>. HIDE DEF x
<1>5. ASSUME c < b PROVE t.index < i
  <2>1. c + 1 \in Nat /\ c + 1 <= b
    BY <1>3, <1>5
  <2>2. w * (c + 1) <= Width * s
    BY <1>3, <2>1
  <2>. QED  BY <1>2, <1>4, <2>2, IndexBefore DEF s, x
<1>6. ASSUME c > b PROVE t.index >= i
  <2>1. Width * s < w * c
    BY <1>3, <1>6
  <2>2. Width * s \in Int /\ w * c \in Int
    BY <1>1, ChartNumbers
  <2>3. s <= x
    BY <1>4, <2>1, <2>2
  <2>4. i <= t.index
    BY <1>2, <1>4, <2>3, IndexAfter DEF s, x
  <2>. QED  BY <2>4
<1>. QED  BY <1>5, <1>6 DEF b, s

\* The indices of a column, if it is known which phase each sample is in.
LEMMA SeenOf ==
  ASSUME NEW p \in Profiles, NEW w, NEW c, NEW f,
         \A k \in 0 .. SubSamples - 1 :
           /\ SampleTime(w, c, k) \in Nat
           /\ \A t \in Eval(p, SampleTime(w, c, k)) : t.index = f[k]
  PROVE  IndicesSeen(p, w, c) = {f[k] : k \in 0 .. SubSamples - 1}
<1>1. ASSUME NEW k \in 0 .. SubSamples - 1 PROVE f[k] \in IndicesSeen(p, w, c)
  <2>. DEFINE x == SampleTime(w, c, k)
  <2>1. Eval(p, x) \subseteq Samples(p, w, c)
    BY DEF Samples
  <2>2. x \in Nat /\ \A t \in Eval(p, x) : t.index = f[k]
    OBVIOUS
  <2>. HIDE DEF x
  <2>3. PICK t \in Eval(p, x) : TRUE
    BY <2>2, EvalNonEmpty
  <2>. QED  BY <2>1, <2>2, <2>3 DEF IndicesSeen
<1>2. ASSUME NEW i \in IndicesSeen(p, w, c) PROVE \E k \in 0 .. SubSamples - 1 : i = f[k]
  <2>1. PICK t \in Samples(p, w, c) : i = t.index
    BY DEF IndicesSeen
  <2>2. PICK k \in 0 .. SubSamples - 1 : t \in Eval(p, SampleTime(w, c, k))
    BY DEF Samples
  <2>. QED  BY <2>1, <2>2
<1>. QED  BY <1>1, <1>2

\* The samples of the second half of two passes are those of the first half,
\* one pass later.
LEMMA SecondHalf ==
  ASSUME NEW T \in Nat \ {0}, NEW h \in Nat, Width = 2 * h,
         NEW c \in 0 .. h - 1, NEW k \in 0 .. SubSamples - 1
  PROVE  /\ SampleTime(2 * T, c, k) \in 0 .. T - 1
         /\ SampleTime(2 * T, c + h, k) = SampleTime(2 * T, c, k) + T
<1>. DEFINE N == SubSamples * Width
            l == SubSamples * c + k
            v == 2 * T
            a == v * l
            b == v * (SubSamples * (c + h) + k)
            q == a \div N
<1>1. /\ SubSamples \in Nat \ {0} /\ N \in Nat \ {0} /\ N = 2 * (SubSamples * h)
      /\ SubSamples * h \in Nat /\ SubSamples * c \in Nat /\ c \in Nat /\ v \in Nat \ {0}
  BY ChartNumbers
<1>2. l \in Nat /\ l < SubSamples * h
  <2>1. SubSamples * (c + 1) <= SubSamples * h
    BY <1>1, Scaling
  <2>2. SubSamples * (c + 1) = SubSamples * c + SubSamples
    BY <1>1
  <2>. QED  BY <1>1, <2>1, <2>2
<1>3. v * (SubSamples * h) = N * T
  BY <1>1
<1>4. a \in Nat /\ N * T \in Nat /\ a < N * T
  <2>. DEFINE m == SubSamples * h
  <2>1. m \in Nat
    BY <1>1
  <2>. HIDE DEF l, v, N, m
  <2>2. v * l < v * m
    BY <1>1, <1>2, <2>1, Scaling DEF m
  <2>3. v * l \in Nat /\ N * T \in Nat
    BY <1>1, <1>2
  <2>. QED  BY <1>3, <2>2, <2>3 DEF m
<1>5. b = a + N * T
  <2>1. SubSamples * (c + h) + k = l + SubSamples * h
    BY <1>1
  <2>. DEFINE m == SubSamples * h
  <2>2. m \in Nat
    BY <1>1
  <2>. HIDE DEF l, v, N, m
  <2>3. v * (l + m) = v * l + v * m
    BY <1>1, <1>2, <2>2
  <2>. QED  BY <1>3, <2>1, <2>3 DEF m
<1>6. SampleTime(v, c, k) = q /\ SampleTime(v, c + h, k) = b \div N
  BY DEF SampleTime
<1>. HIDE DEF a, b, N, v
<1>7. q \in Nat /\ q < T /\ N * q <= a /\ a < N * q + N
  BY <1>1, <1>4, Quotient
<1>. HIDE DEF q
<1>8. b \div N = q + T
  <2>1. b \in Nat
    BY <1>4, <1>5
  <2>2. N * (q + T) = N * q + N * T /\ N * (q + T + 1) = N * q + N * T + N
    BY <1>1, <1>7
  <2>3. N * q \in Nat
    BY <1>1, <1>7
  <2>4. N * (q + T) <= b /\ b < N * (q + T + 1)
    <3>. DEFINE y == N * q
                z == N * T
    <3>. HIDE DEF y, z
    <3>1. y \in Nat /\ z \in Nat /\ y <= a /\ a < y + N /\ b = a + z
      BY <1>4, <1>5, <1>7, <2>3 DEF y, z
    <3>2. y + z <= b /\ b < y + z + N
      BY <1>1, <1>4, <3>1
    <3>. QED  BY <2>2, <3>2 DEF y, z
  <2>5. q + T \in Nat /\ q + T + 1 \in Nat /\ b \div N \in Nat
    BY <1>1, <1>7, <2>1, Quotient
  <2>6. q + T <= b \div N /\ b \div N < q + T + 1
    BY <1>1, <2>1, <2>4, <2>5, Quotient
  <2>. DEFINE d == b \div N
  <2>. HIDE DEF d
  <2>7. d \in Nat /\ q + T <= d /\ d < q + T + 1
    BY <2>5, <2>6 DEF d
  <2>8. d = q + T
    BY <1>7, <2>7
  <2>. QED  BY <2>8 DEF d
<1>. QED  BY <1>6, <1>7, <1>8 DEF v

\* The two passes of a loop look the same.
LEMMA LoopShownTwice ==
  ASSUME NEW p \in Profiles, Ordered(p), p.loop, Width % 2 = 0,
         NEW c \in 0 .. (Width \div 2) - 1
  PROVE  IndicesSeen(p, Window(p, 0), c) = IndicesSeen(p, Window(p, 0), c + (Width \div 2))
<1>. DEFINE T == Total(p)
            h == Width \div 2
            w == 2 * T
            f == [k \in 0 .. SubSamples - 1 |-> IndexAt(p, SampleTime(w, c, k))]
<1>1. T \in Nat \ {0}
  <2>1. Total(p) \in Nat /\ Total(p) >= Last(p.phases).duration
        /\ Last(p.phases) \in Phases
    BY ProfileFacts
  <2>. QED  BY <2>1 DEF Ordered, Phases
<1>2. Window(p, 0) = w
  BY <1>1 DEF Window
<1>3. Width = 2 * h /\ h \in Nat
  BY ChartNumbers
<1>. HIDE DEF h, T
<1>4. ASSUME NEW k \in 0 .. SubSamples - 1
      PROVE  /\ SampleTime(w, c, k) \in 0 .. T - 1
             /\ SampleTime(w, c + h, k) = SampleTime(w, c, k) + T
  <2>1. c \in 0 .. h - 1
    BY DEF h
  <2>. QED  BY <1>1, <1>3, <2>1, SecondHalf
<1>. HIDE DEF w
<1>5. ASSUME NEW k \in 0 .. SubSamples - 1, NEW t \in Eval(p, SampleTime(w, c, k))
      PROVE  t.index = f[k]
  <2>. DEFINE x == SampleTime(w, c, k)
  <2>1. x \in Nat /\ x < T /\ f[k] = IndexAt(p, x)
    BY <1>1, <1>4
  <2>2. t \in Eval(p, x)
    BY <1>5
  <2>. HIDE DEF x, f
  <2>3. Single(p, x) /\ InPass(p, x) = x
    BY <2>1 DEF Single, InPass, Looping, T
  <2>4. t.index = IndexAt(p, InPass(p, x))
    BY <2>1, <2>2, <2>3, EvalPosition
  <2>. QED  BY <2>1, <2>3, <2>4
<1>6. ASSUME NEW k \in 0 .. SubSamples - 1, NEW t \in Eval(p, SampleTime(w, c + h, k))
      PROVE  t.index = f[k]
  <2>. DEFINE x == SampleTime(w, c, k)
              e == x + T
  <2>1. x \in 0 .. T - 1 /\ f[k] = IndexAt(p, x) /\ SampleTime(w, c + h, k) = e
    BY <1>4
  <2>2. t \in Eval(p, e)
    BY <1>6, <2>1
  <2>. HIDE DEF x, f
  <2>3. e \in Nat /\ e >= T /\ e % T = x
    BY <1>1, <2>1
  <2>. HIDE DEF e
  <2>4. Looping(p, e) /\ InPass(p, e) = x
    BY <1>1, <2>3 DEF Single, InPass, Looping, T
  <2>5. t.index = IndexAt(p, InPass(p, e))
    BY <2>2, <2>3, <2>4, EvalPosition
  <2>. QED  BY <2>1, <2>4, <2>5
<1>. HIDE DEF f
<1>7. \A k \in 0 .. SubSamples - 1 :
        SampleTime(w, c, k) \in Nat /\ SampleTime(w, c + h, k) \in Nat
  BY <1>1, <1>4
<1>8. IndicesSeen(p, w, c) = {f[k] : k \in 0 .. SubSamples - 1}
  BY <1>5, <1>7, SeenOf
<1>9. IndicesSeen(p, w, c + h) = {f[k] : k \in 0 .. SubSamples - 1}
  BY <1>6, <1>7, SeenOf
<1>. QED  BY <1>2, <1>8, <1>9 DEF h

\* The last column of a profile that goes on shows what it is held at.
LEMMA OpenEndShown ==
  ASSUME NEW p \in Profiles, Ordered(p), OpenEnded(p.phases), Window(p, 0) > Total(p)
  PROVE  \E i \in IndicesSeen(p, Window(p, 0), Width - 1) : p.phases[i].duration = 0
<1>. DEFINE w == Window(p, 0)
            T == Total(p)
            N == SubSamples * Width
            c == Width - 1
            k == SubSamples - 1
            x == SampleTime(w, c, k)
<1>1. T \in Nat /\ w \in Nat \ {0} /\ w > T
  BY ProfileFacts, WindowPositive
<1>2. /\ Width \in Nat \ {0} /\ SubSamples \in Nat \ {0} /\ N \in Nat /\ N >= 6
      /\ c \in Nat /\ k \in 0 .. SubSamples - 1
  BY ChartNumbers
<1>3. ~p.loop
  BY DEF Ordered, OpenEnded
<1>4. T > 0 => w = (4 * T) \div 3
  BY <1>1, <1>3 DEF Window
<1>. HIDE DEF w, T
<1>5. 6 * (w - T) >= w
  BY <1>1, <1>4
<1>6. SubSamples * c + k = N - 1
  BY <1>2
<1>7. x = (w * (N - 1)) \div N
  BY <1>6 DEF SampleTime
<1>. HIDE DEF N, c, k, x
<1>8. N * T <= w * (N - 1)
  <2>. DEFINE d == w - T
  <2>1. d \in Nat \ {0} /\ 6 * d >= w
    BY <1>1, <1>5
  <2>2. d * 6 <= d * N
    BY <1>2, <2>1, Scaling
  <2>3. d * N = N * w - N * T /\ d * 6 = 6 * d /\ w * (N - 1) = N * w - w
    BY <1>1, <1>2
  <2>4. N * w \in Int /\ N * T \in Int
    BY <1>1, <1>2
  <2>. HIDE DEF d
  <2>. QED  BY <1>1, <2>1, <2>2, <2>3, <2>4
<1>9. x \in Nat /\ T <= x
  <2>. DEFINE b == w * (N - 1)
  <2>1. b \in Nat /\ N \in Nat \ {0} /\ N * T <= b /\ x = b \div N
    BY <1>1, <1>2, <1>7, <1>8
  <2>. HIDE DEF b
  <2>. QED  BY <1>1, <2>1, Quotient
<1>10. PICK t \in Eval(p, x) : TRUE
  BY <1>9, EvalNonEmpty
<1>11. t \in Samples(p, w, c)
  BY <1>2, <1>10 DEF Samples, x
<1>12. t.index = Len(p.phases)
  BY <1>9, <1>10, IndexAtEnd DEF T
<1>13. p.phases[Len(p.phases)].duration = 0
  BY ProfileFacts DEF OpenEnded
<1>14. t.index \in IndicesSeen(p, w, c)
  BY <1>11 DEF IndicesSeen
<1>. QED  BY <1>12, <1>13, <1>14 DEF w, c

LEMMA PhasesCorrect ==
  ASSUME NEW p \in Profiles, Ordered(p), NEW asked \in Nat
  PROVE  PhasesShown(p, asked)
<1>. DEFINE w       == Window(p, asked)
            columns == 0 .. Width - 1
            seen    == [c \in columns |-> IndicesSeen(p, w, c)]
            end(i)  == IF p.phases[i].duration = 0 THEN w ELSE Min({w, StartOf(p, i + 1)})
<1>1. w \in Nat \ {0} /\ Width \in Nat \ {0}
  BY WindowPositive, ChartNumbers
<1>. HIDE DEF w
<1>2. \A c \in columns : seen[c] = IndicesSeen(p, w, c)
  OBVIOUS
<1>3. ASSUME NEW i \in Barred(p), SubSamples * Width * (end(i) - StartOf(p, i)) >= w
      PROVE  LET shown == IF p.phases[i].duration > 0 THEN i ELSE Len(p.phases)
             IN \E c \in columns : shown \in seen[c]
  <2>. DEFINE shown == IF p.phases[i].duration > 0 THEN i ELSE Len(p.phases)
  <2>1. \E c \in columns : shown \in IndicesSeen(p, w, c)
    BY <1>1, <1>3, PhaseSeen
  <2>. HIDE DEF shown, seen
  <2>2. \E c \in columns : shown \in seen[c]
    BY <1>2, <2>1
  <2>. QED  BY <2>2 DEF shown
<1>4. ASSUME NEW bar \in PhaseBar(p, w), NEW c \in columns, NEW t \in Samples(p, w, c),
             t.iteration = 0
      PROVE  /\ c < bar.column => t.index < bar.index
             /\ c > bar.column => t.index >= bar.index
  <2>1. PICK i \in DOMAIN p.phases :
          bar.index = i /\ bar.column = ColumnOf(w, StartOf(p, i))
    BY DEF PhaseBar, Barred
  <2>2. c \in Nat
    BY <1>1
  <2>3. /\ c < ColumnOf(w, StartOf(p, i)) => t.index < i
        /\ c > ColumnOf(w, StartOf(p, i)) => t.index >= i
    BY <1>1, <1>4, <2>2, PhaseBarred
  <2>. QED  BY <2>1, <2>3
<1>5. ASSUME asked = 0, p.loop, Width % 2 = 0, NEW c \in 0 .. (Width \div 2) - 1
      PROVE  seen[c] = seen[c + (Width \div 2)]
  <2>1. IndicesSeen(p, w, c) = IndicesSeen(p, w, c + (Width \div 2))
    BY <1>5, LoopShownTwice DEF w
  <2>2. c \in columns /\ c + (Width \div 2) \in columns
    BY <1>1, <1>5
  <2>. QED  BY <2>1, <2>2
<1>6. ASSUME asked = 0, OpenEnded(p.phases), w > Total(p)
      PROVE  \E i \in seen[Width - 1] : p.phases[i].duration = 0
  <2>1. \E i \in IndicesSeen(p, w, Width - 1) : p.phases[i].duration = 0
    BY <1>6, OpenEndShown DEF w
  <2>2. Width - 1 \in columns
    BY <1>1
  <2>. QED  BY <2>1, <2>2
<1>. HIDE DEF seen
<1>7. /\ \A i \in Barred(p) :
           SubSamples * Width * (end(i) - StartOf(p, i)) >= w
             => LET shown == IF p.phases[i].duration > 0 THEN i ELSE Len(p.phases)
                IN \E c \in columns : shown \in seen[c]
      /\ \A bar \in PhaseBar(p, w), c \in columns :
           \A t \in Samples(p, w, c) :
             t.iteration = 0 =>
               /\ c < bar.column => t.index < bar.index
               /\ c > bar.column => t.index >= bar.index
      /\ asked = 0 /\ p.loop /\ Width % 2 = 0 =>
           \A c \in 0 .. (Width \div 2) - 1 : seen[c] = seen[c + (Width \div 2)]
      /\ asked = 0 /\ OpenEnded(p.phases) /\ w > Total(p) =>
           \E i \in seen[Width - 1] : p.phases[i].duration = 0
  BY <1>3, <1>4, <1>5, <1>6
<1>. QED  BY <1>7 DEF PhasesShown, seen, w

\* Of every profile, in every state, and for every window that is asked for:
\* the chart shows each phase that is not shorter than a sub-sample, and where
\* it is; its bands are drawn from their targets; and the marker is where the
\* run is.
THEOREM ChartCorrect == Spec => []ChartFaithful
<1>1. ASSUME IInv PROVE ChartFaithful
  <2>1. profile \in Profiles /\ Ordered(profile)
    BY <1>1 DEF IInv
  <2>. SUFFICES ASSUME NEW asked \in Windows
                PROVE  /\ elapsed = 0 => PhasesShown(profile, asked)
                                         /\ BandsDrawn(profile, asked)
                       /\ AxisTrue(profile, asked)
    BY DEF ChartFaithful
  <2>2. asked \in Nat
    BY ChartNumbers
  <2>. DEFINE w == Window(profile, asked)
  <2>3. w \in Nat \ {0}
    BY <2>1, <2>2, WindowPositive
  <2>. HIDE DEF w
  <2>4. w < 19 * Last(NiceSteps) => Cardinality(Labels(w)) \in 2 .. 19
    BY <2>3, LabelsFew
  <2>5. \A c \in Marker(w, elapsed) :
          /\ \A t \in Eval(profile, SampleTime(w, c, 0)) : Before(t, at)
          /\ \A t \in Eval(profile, SampleTime(w, c + 1, 0)) : Before(at, t)
    BY <1>1, <2>3, MarkerPlaced
  <2>6. AxisTrue(profile, asked)
    BY <2>4, <2>5 DEF AxisTrue, Before, w
  <2>. QED  BY <2>1, <2>2, <2>6, PhasesCorrect, BandsCorrect
<1>. QED  BY <1>1, Invariant, PTL
=============================================================================
