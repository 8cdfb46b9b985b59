------------------------------ MODULE Profile ------------------------------
(***************************************************************************)
(* A load profile (internal/profile): phases of fixed length, the last of  *)
(* which may be open-ended (duration 0), and Eval(), which finds the phase *)
(* in force at a given elapsed time and the target it asks for.            *)
(*                                                                         *)
(* The runner and the chart call Eval() at growing times, with gaps of any *)
(* length. Durations are whole ticks, a target and the position on a curve *)
(* are whole numbers (a position is a multiple of 1/Unit). One of the two  *)
(* resources is modelled, the other is evaluated in the same way.          *)
(***************************************************************************)
EXTENDS Integers, Sequences, SequencesExt, FiniteSetsExt

CONSTANTS
  Specs,      \* configured phases: sequences of phase specifications
  Loops,      \* the values of "loop" to consider
  HoldLasts,  \* the values of "hold_last" to consider
  Unit,       \* resolution of a curve: "to" is Unit, "from" is 0
  MaxGap,     \* bound: ticks between two evaluations
  MaxElapsed  \* bound: how long a profile is followed

\* What the configuration says of a phase and its segment.
Phases ==
  [duration : Nat, repeat : Int, from : Nat, to : Nat, period : Nat \ {0},
   curve : {"step", "linear", "sawtooth", "triangle", "square"},
   duty : Nat, jitter : Nat]

ASSUME SpecsAssumption == Specs \subseteq Seq(Phases)
ASSUME UnitAssumption  == Unit \in Nat \ {0}
ASSUME BoundAssumption == MaxGap \in Nat \ {0} /\ MaxElapsed \in Nat
ASSUME FlagAssumption  == Loops \subseteq BOOLEAN /\ HoldLasts \subseteq BOOLEAN

VARIABLES
  profile,  \* the compiled Profile: its phases, Loop and HoldLast
  elapsed,  \* the time Eval() was last asked for
  at        \* the Targets it returned

vars == <<profile, elapsed, at>>

-----------------------------------------------------------------------------
(***************************************************************************)
(* Compile() and Build(): what becomes a profile.                          *)
(***************************************************************************)

\* Only the last phase may omit its duration.
DurationsValid(specs) ==
  \A i \in 1 .. Len(specs) - 1 : specs[i].duration > 0

\* Every phase, repeated as often as its specification says.
Repeated(specs) ==
  FlattenSeq([i \in DOMAIN specs |->
                [r \in 1 .. Max({1, specs[i].repeat}) |-> specs[i]]])

OpenEnded(phases) == Last(phases).duration = 0

\* A loop needs a last phase that ends; for a single phase it is ignored.
Accepted(specs, loop) ==
  /\ specs # <<>>
  /\ DurationsValid(specs)
  /\ loop /\ OpenEnded(specs) => Len(Repeated(specs)) = 1

Compile(specs, loop, holdLast) ==
  [phases |-> Repeated(specs), loop |-> loop /\ ~OpenEnded(specs),
   holdLast |-> holdLast]

\* When each phase begins within one pass; after the last one, the total.
Starts(phases) ==
  LET start[i \in 1 .. Len(phases) + 1] ==
        IF i = 1 THEN 0 ELSE start[i - 1] + phases[i - 1].duration
  IN start

StartOf(p, i) == Starts(p.phases)[i]
Total(p) == StartOf(p, Len(p.phases) + 1)

(***************************************************************************)
(* value() and shape(): the target of one segment.                         *)
(***************************************************************************)

\* The position on the curve after "in" ticks of a phase. Monotonic curves
\* follow the progress of the phase, periodic ones the time spent in it.
Progress(ph, in) ==
  IF ph.duration = 0 THEN Unit ELSE Min({Unit, (Unit * in) \div ph.duration})

PhaseOfPeriod(ph, in) == (Unit * (in % ph.period)) \div ph.period

Shape(ph, in) ==
  LET tau == PhaseOfPeriod(ph, in)
  IN CASE ph.curve = "step"     -> Unit
       [] ph.curve = "linear"   -> Progress(ph, in)
       [] ph.curve = "sawtooth" -> tau
       [] ph.curve = "triangle" -> IF 2 * tau < Unit THEN 2 * tau ELSE 2 * (Unit - tau)
       [] ph.curve = "square"   -> IF tau < ph.duty THEN Unit ELSE 0

\* Jitter multiplies the value by a random factor within 1 +/- jitter, here
\* one of the extremes or none.
Values(ph, in) ==
  LET v == ph.from + ((ph.to - ph.from) * Shape(ph, in)) \div Unit
      spread == (v * ph.jitter) \div Unit
  IN IF ph.from = 0 /\ ph.to = 0 THEN {0}
     ELSE {Max({0, v - spread}), v, Max({0, v + spread})}

\* PeakCPU(), PeakMemory(): over the ends of every phase.
PeakOfTo(p) == Max({p.phases[i].to : i \in DOMAIN p.phases})    \* mutant
Peak(p) == Max(UNION {{p.phases[i].from, p.phases[i].to} : i \in DOMAIN p.phases})

(***************************************************************************)
(* Eval().                                                                 *)
(***************************************************************************)

Sample(p, i, in, iteration) ==
  {[index |-> i, in |-> in, iteration |-> iteration, finished |-> FALSE,
    value |-> v] : v \in Values(p.phases[i], in)}

\* The first phase that has not ended at time e, or the last one.
IndexNextEarly(p, e) ==                     \* mutant: <= for <
  Min({i \in DOMAIN p.phases : e <= StartOf(p, i + 1) \/ i = Len(p.phases)})
IndexAt(p, e) ==
  Min({i \in DOMAIN p.phases : e < StartOf(p, i + 1) \/ i = Len(p.phases)})

Within(p, e, iteration) ==
  LET i == IndexAt(p, e) IN Sample(p, i, e - StartOf(p, i), iteration)

Finished(p) ==
  {[index |-> Len(p.phases), in |-> 0, iteration |-> 0, finished |-> TRUE,
    value |-> 0]}

IterationLost(p, e) == 0                    \* mutant: not counted
Iteration(p, e) == e \div Total(p)

EvalHoldingOn(p, e) ==                      \* mutant: holds with a moving clock
  IF e < Total(p) \/ Total(p) = 0 \/ (p.holdLast /\ ~p.loop) THEN Within(p, e, 0)
  ELSE IF p.loop THEN Within(p, e % Total(p), Iteration(p, e))
  ELSE Finished(p)
Eval(p, e) ==
  IF e < Total(p) \/ Total(p) = 0 THEN Within(p, e, 0)
  ELSE IF p.loop THEN Within(p, e % Total(p), Iteration(p, e))
  ELSE IF p.holdLast THEN Sample(p, Len(p.phases), Last(p.phases).duration, 0)
  ELSE Finished(p)

-----------------------------------------------------------------------------
Init ==
  /\ \E specs \in Specs, loop \in Loops, holdLast \in HoldLasts :
        Accepted(specs, loop) /\ profile = Compile(specs, loop, holdLast)
  /\ elapsed = 0
  /\ at \in Eval(profile, 0)

\* The next evaluation, at most MaxGap ticks later.
Advance(gap) ==
  /\ elapsed + gap <= MaxElapsed
  /\ elapsed' = elapsed + gap
  /\ at' \in Eval(profile, elapsed')
  /\ UNCHANGED profile

Next == \E gap \in 1 .. MaxGap : Advance(gap)

Spec == Init /\ [][Next]_vars /\ WF_vars(Next)

-----------------------------------------------------------------------------
\* Every answer of Eval() names a phase of the profile.
TypeOK ==
  /\ elapsed \in 0 .. MaxElapsed
  /\ at.index \in DOMAIN profile.phases
  /\ at.in \in 0 .. MaxElapsed /\ at.iteration \in 0 .. MaxElapsed
  /\ at.finished \in BOOLEAN /\ at.value \in Nat

lastPhase == Last(profile.phases)

\* The profile has ended and holds the end of its last phase.
Held == /\ ~profile.loop /\ profile.holdLast
        /\ Total(profile) > 0 /\ elapsed >= Total(profile)

\* The phases tile the time line: iterations, the phases before the current
\* one and the time within it add up to the elapsed time, and the time within
\* a phase is less than its length, unless the profile has ended.
Tiles ==
  ~at.finished /\ ~Held =>
    /\ at.iteration * Total(profile) + StartOf(profile, at.index) + at.in = elapsed
    /\ at.in >= 0
    /\ profile.phases[at.index].duration > 0 =>
         at.in < profile.phases[at.index].duration

\* The invariant of Eval(): its answers are of their type and tile the line.
Inv == TypeOK /\ Tiles

\* The targets stay below the peak the worker pool and the warnings of
\* Compile() are computed from (profile.go:323-325), as long as the phase has
\* no jitter: the peak does not know it, and a jitter exceeds it.
WithinPeak ==
  profile.phases[at.index].jitter = 0 => at.value <= Peak(profile)

\* However irregular the evaluations, time moves forward through the phases:
\* an earlier phase comes back only with a later iteration.
PhasesInOrder ==
  [][/\ at'.iteration >= at.iteration
     /\ at'.index < at.index => at'.iteration > at.iteration]_vars

\* The end of a profile is final: it finishes only after its last phase, when
\* it neither loops nor holds, and then for good and without load; hold_last
\* keeps the target of the very end of a last phase that has an end, without
\* any further movement.
EndIsFinal ==
  [][/\ at.finished => at'.finished
     /\ at'.finished => /\ elapsed' >= Total(profile) /\ at'.value = 0
                        /\ ~profile.loop /\ ~profile.holdLast
     /\ Held /\ lastPhase.duration > 0 /\ lastPhase.jitter = 0
          => at'.value = at.value]_vars

\* "Periodic curves are driven by elapsed time within the phase"
\* (DESIGN.md:126): in an open-ended last phase that time goes on.
OpenEndedKeepsTime ==
  OpenEnded(profile.phases) /\ elapsed >= Total(profile) /\ ~at.finished
    => at.in = elapsed - Total(profile)
=============================================================================
