------------------------ MODULE RandomCurve_proofs ------------------------
(***************************************************************************)
(* Proofs about RandomCurve, for any length of the phase, any number of    *)
(* periods and any gaps between two ticks of the runner: as long as no     *)
(* chart is drawn, and in the first pass of the profile, the runner gets   *)
(* one draw after the other, period by period.                             *)
(***************************************************************************)
EXTENDS RandomCurve, TLAPS

USE LengthAssumption, BoundAssumption DEF LengthAssumption, BoundAssumption

Labels == {"idle", "seed", "first", "test", "step", "load", "draw", "return",
           "jitter", "jittered"}

TypeOK ==
  /\ segment \in [loop : BOOLEAN, jittered : BOOLEAN]
  /\ seeded \in BOOLEAN /\ lastTick \in Nat /\ value \in Nat /\ draws \in Nat
  /\ pc \in [Callers -> Labels]
  /\ tick \in [Callers -> Nat] /\ seen \in [Callers -> Nat]
  /\ period \in Nat /\ column \in Nat /\ plans \in Nat
  /\ last \in [period : Nat \cup {-1}, value : Nat]

(***************************************************************************)
(* The inductive invariant. Of the runner alone: where it is, what it has  *)
(* loaded, and how far the state of the curve is ahead of the last value   *)
(* that was returned.                                                      *)
(***************************************************************************)
at == pc["runner"]

\* Without a chart there is only one caller.
OneCaller == Alone => pc["plan"] = "idle" /\ column = 0

\* The first call has to come before anything is returned.
SeedFirst ==
  /\ at \in {"idle", "seed", "first"} /\ ~seeded => last.period = -1
  /\ at = "first" => ~seeded
  /\ at \in Labels \ {"idle", "seed", "first"} => seeded

\* It asks for its own period, and knows what it loaded.
Asked ==
  /\ at \in Labels \ {"idle", "jitter", "jittered"} => tick["runner"] = period
  /\ at \in {"first", "draw", "jittered"} => seen["runner"] = draws
  /\ at = "step" => seen["runner"] = lastTick /\ lastTick < period

\* Between two calls the state is what was last returned.
Returned ==
  at \in {"idle", "seed", "jitter", "jittered"} /\ seeded =>
    last.period >= 0 /\ lastTick = last.period /\ value = last.value

\* The catch-up does not pass the period, ends in it, and draws for every
\* period it passes a new value.
CaughtUpTo ==
  /\ at # "idle" /\ seeded => lastTick <= period
  /\ last.period <= period
  /\ at = "return" => lastTick = period
  /\ at \in {"test", "step", "return"} /\ last.period >= 0 =>
       /\ lastTick >= last.period /\ value >= last.value
       /\ lastTick > last.period => value > last.value
       /\ ~segment.jittered => value - last.value = lastTick - last.period
  /\ at \in {"load", "draw"} /\ last.period >= 0 =>
       /\ lastTick > last.period /\ value >= last.value
       /\ ~segment.jittered => value - last.value + 1 = lastTick - last.period

\* The generator is ahead of the curve only through the jitter.
Ahead ==
  /\ value <= draws
  /\ ~segment.jittered => value = draws /\ at \notin {"jitter", "jittered"}

ByItself ==
  Alone /\ FirstPass => SeedFirst /\ Asked /\ Returned /\ CaughtUpTo /\ Ahead

IInv == TypeOK /\ OneCaller /\ ByItself

-----------------------------------------------------------------------------
LEMMA InitInv == Init => IInv
<1>. SUFFICES ASSUME Init PROVE IInv
  OBVIOUS
<1>1. TypeOK
  <2>1. seeded \in BOOLEAN
    BY Zenon DEF Init
  <2>. QED  BY <2>1 DEF Init, TypeOK, Labels
<1>2. OneCaller
  BY DEF Init, OneCaller, Callers
<1>3. at = "idle" /\ ~seeded /\ last.period = -1 /\ period = 0
  BY DEF Init, at, Callers
<1>4. SeedFirst /\ Asked /\ Returned
  BY <1>3 DEF SeedFirst, Asked, Returned, Labels
<1>5. CaughtUpTo /\ Ahead
  BY <1>3 DEF CaughtUpTo, Ahead, Init
<1>. QED  BY <1>1, <1>2, <1>4, <1>5 DEF IInv, ByItself

\* A period is a natural number, also the one within a pass.
LEMMA TickType ==
  ASSUME TypeOK, NEW p \in Nat
  PROVE  TickAt(p) \in Nat /\ (segment.loop /\ p < Length => TickAt(p) = p)
                           /\ (~segment.loop => TickAt(p) = p)
  BY DEF TickAt

LEMMA TypeStep == TypeOK /\ [Next]_vars => TypeOK'
<1>. SUFFICES ASSUME TypeOK, [Next]_vars PROVE TypeOK'
  OBVIOUS
<1>. USE DEF TypeOK
<1>1. ASSUME NEW gap \in 0 .. MaxGap, RunnerTick(gap) PROVE TypeOK'
  <2>1. period + gap \in Nat
    OBVIOUS
  <2>2. TickAt(period + gap) \in Nat
    BY <2>1, TickType
  <2>. QED  BY <1>1, <2>1, <2>2 DEF RunnerTick, Goto, Labels, Callers, curve, chartVars
<1>2. CASE PlanColumn
  <2>1. TickAt(column) \in Nat
    BY TickType
  <2>. DEFINE n == IF segment.loop THEN 2 * Length ELSE Length
  <2>2. (column + 1) % n \in Nat
    <3>1. n \in Nat \ {0} /\ column + 1 \in Nat
      OBVIOUS
    <3>. HIDE DEF n
    <3>. QED  BY <3>1
  <2>3. plans' \in Nat
    BY <1>2 DEF PlanColumn
  <2>4. column' \in Nat /\ pc' \in [Callers -> Labels] /\ tick' \in [Callers -> Nat]
    BY <1>2, <2>1, <2>2 DEF PlanColumn, Goto, Labels, Callers
  <2>5. /\ segment' = segment /\ seeded' = seeded /\ lastTick' = lastTick
        /\ value' = value /\ draws' = draws /\ seen' = seen
        /\ period' = period /\ last' = last
    BY <1>2 DEF PlanColumn, curve, runnerVars
  <2>. QED  BY <2>3, <2>4, <2>5
<1>3. ASSUME NEW c \in Callers, LoadFirst(c) \/ DrawFirst(c) \/ Seeded(c) PROVE TypeOK'
  <2>1. seeded' \in BOOLEAN
    <3>1. seeded' = seeded \/ seeded' = TRUE
      BY <1>3, Zenon DEF LoadFirst, DrawFirst, Seeded, curve
    <3>. QED  BY <3>1, Zenon
  <2>2. /\ pc' \in [Callers -> Labels] /\ tick' \in [Callers -> Nat]
        /\ seen' \in [Callers -> Nat]
    BY <1>3 DEF LoadFirst, DrawFirst, Seeded, Goto, Labels, locals
  <2>3. lastTick' \in Nat /\ value' \in Nat /\ draws' \in Nat
    BY <1>3 DEF LoadFirst, DrawFirst, Seeded, curve
  <2>4. UNCHANGED <<runnerVars, chartVars>>
    BY <1>3 DEF LoadFirst, DrawFirst, Seeded
  <2>. QED  BY <2>1, <2>2, <2>3, <2>4 DEF runnerVars, chartVars
<1>4. ASSUME NEW c \in Callers, Test(c) \/ Step(c) \/ Load(c) \/ Draw(c) PROVE TypeOK'
  BY <1>4 DEF Test, Step, Load, Draw, Goto, Labels, curve, locals, runnerVars, chartVars
<1>5. ASSUME NEW c \in Callers, CaughtUp(c) \/ Return(c) PROVE TypeOK'
  BY <1>5 DEF CaughtUp, Return, Goto, Labels, curve, locals, runnerVars, chartVars
<1>6. ASSUME NEW c \in Callers, LoadJitter(c) \/ DrawJitter(c) PROVE TypeOK'
  BY <1>6 DEF LoadJitter, DrawJitter, Goto, Labels, curve, locals, runnerVars, chartVars
<1>7. CASE UNCHANGED vars
  BY <1>7 DEF vars, curve, locals, runnerVars, chartVars
<1>. QED  BY <1>1, <1>2, <1>3, <1>4, <1>5, <1>6, <1>7 DEF Next, Value

\* No chart that is drawn is forgotten, and no pass begins anew.
LEMMA OneCallerStep == TypeOK /\ OneCaller /\ [Next]_vars => OneCaller' /\ (Alone' => Alone)
<1>. SUFFICES ASSUME TypeOK, OneCaller, [Next]_vars
              PROVE  OneCaller' /\ (Alone' => Alone)
  OBVIOUS
<1>. USE DEF TypeOK, OneCaller, Alone
<1>1. ASSUME NEW gap \in 0 .. MaxGap, RunnerTick(gap)
      PROVE  OneCaller' /\ (Alone' => Alone)
  BY <1>1 DEF RunnerTick, Goto, Callers, chartVars
<1>2. CASE PlanColumn
  BY <1>2 DEF PlanColumn
<1>3. ASSUME NEW c \in Callers, Value(c) PROVE OneCaller' /\ (Alone' => Alone)
  <2>1. UNCHANGED chartVars /\ (pc[c] = "idle" => FALSE)
    BY <1>3 DEF Value, LoadFirst, DrawFirst, Seeded, Test, Step, Load, Draw, CaughtUp,
                Return, LoadJitter, DrawJitter
  <2>2. \A d \in Callers : d # c => pc'[d] = pc[d]
    BY <1>3 DEF Value, LoadFirst, DrawFirst, Seeded, Test, Step, Load, Draw, CaughtUp,
                Return, LoadJitter, DrawJitter, Goto
  <2>. QED  BY <2>1, <2>2 DEF chartVars, Callers
<1>4. CASE UNCHANGED vars
  BY <1>4 DEF vars, chartVars
<1>. QED  BY <1>1, <1>2, <1>3, <1>4 DEF Next

\* The runner by itself: each of its steps, alone and in the first pass.
LEMMA ByItselfStep == IInv /\ [Next]_vars => ByItself'
<1>. SUFFICES ASSUME IInv, [Next]_vars, Alone', FirstPass'
              PROVE  (SeedFirst /\ Asked /\ Returned /\ CaughtUpTo /\ Ahead)'
  BY DEF ByItself
<1>. DEFINE Goal == (SeedFirst /\ Asked /\ Returned /\ CaughtUpTo /\ Ahead)'
<1>1. TypeOK /\ TypeOK' /\ OneCaller /\ Alone
  BY TypeStep, OneCallerStep DEF IInv
<1>2. segment' = segment /\ period <= period'
  <2>1. ASSUME NEW gap \in 0 .. MaxGap, RunnerTick(gap)
        PROVE  segment' = segment /\ period <= period'
    BY <1>1, <2>1 DEF RunnerTick, chartVars, TypeOK
  <2>2. CASE PlanColumn
    BY <1>1, <2>2 DEF PlanColumn, runnerVars, TypeOK
  <2>3. ASSUME NEW c \in Callers, Value(c)
        PROVE  segment' = segment /\ period <= period'
    BY <1>1, <2>3 DEF Value, LoadFirst, DrawFirst, Seeded, Test, Step, Load, Draw,
                      CaughtUp, Return, LoadJitter, DrawJitter, runnerVars, chartVars, TypeOK
  <2>4. CASE UNCHANGED vars
    BY <1>1, <2>4 DEF vars, runnerVars, chartVars, TypeOK
  <2>. QED  BY <2>1, <2>2, <2>3, <2>4 DEF Next
<1>3. FirstPass
  BY <1>1, <1>2 DEF FirstPass, TypeOK
<1>4. SeedFirst /\ Asked /\ Returned /\ CaughtUpTo /\ Ahead
  BY <1>1, <1>3 DEF IInv, ByItself
<1>. USE DEF SeedFirst, Asked, Returned, CaughtUpTo, Ahead
<1>5. ASSUME NEW gap \in 0 .. MaxGap, RunnerTick(gap) PROVE Goal
  <2>1. at = "idle" /\ at' = "seed" /\ tick'["runner"] = TickAt(period')
        /\ UNCHANGED <<seeded, lastTick, value, draws, last, segment>>
    BY <1>1, <1>5 DEF RunnerTick, Goto, Callers, TypeOK, at, curve, chartVars
  <2>2. TickAt(period') = period'
    BY <1>1, <1>2, <1>5, <2>1, TickType DEF FirstPass, TypeOK, RunnerTick
  <2>. QED  BY <1>1, <1>2, <1>4, <2>1, <2>2 DEF TypeOK, Labels
<1>6. CASE PlanColumn
  BY <1>1, <1>6 DEF PlanColumn, OneCaller, Alone, TypeOK
<1>7. ASSUME NEW c \in Callers, Value(c) PROVE Goal
  <2>. DEFINE r == "runner"
  <2>0. c = r
    BY <1>1, <1>7 DEF OneCaller, Callers, Value, LoadFirst, DrawFirst, Seeded, Test, Step,
                      Load, Draw, CaughtUp, Return, LoadJitter, DrawJitter
  <2>1. CASE LoadFirst(r)
    <3>1. at = "seed" /\ at' = "first" /\ ~seeded /\ seen'[r] = draws /\ tick' = tick
          /\ UNCHANGED <<seeded, lastTick, value, draws, last, segment, period>>
      BY <1>1, <2>1 DEF LoadFirst, Goto, Callers, TypeOK, at, curve, runnerVars, chartVars
    <3>. QED  BY <1>1, <1>4, <3>1 DEF TypeOK, Labels
  <2>2. CASE DrawFirst(r)
    <3>1. at = "first" /\ at' = "return" /\ seeded' /\ lastTick' = tick[r] /\ value' = draws'
          /\ draws' = seen[r] + 1 /\ UNCHANGED <<tick, last, segment, period>>
      BY <1>1, <2>2 DEF DrawFirst, Goto, Callers, TypeOK, at, runnerVars, chartVars
    <3>. QED  BY <1>1, <1>4, <3>1 DEF TypeOK, Labels
  <2>3. CASE Seeded(r)
    <3>1. at = "seed" /\ at' = "test" /\ seeded /\ tick' = tick
          /\ UNCHANGED <<seeded, lastTick, value, draws, last, segment, period>>
      BY <1>1, <2>3 DEF Seeded, Goto, Callers, TypeOK, at, curve, locals, runnerVars, chartVars
    <3>. QED  BY <1>1, <1>4, <3>1 DEF TypeOK, Labels
  <2>4. CASE Test(r)
    <3>1. at = "test" /\ at' = "step" /\ lastTick < tick[r] /\ seen'[r] = lastTick
          /\ tick' = tick
          /\ UNCHANGED <<seeded, lastTick, value, draws, last, segment, period>>
      BY <1>1, <2>4 DEF Test, Goto, Callers, TypeOK, at, curve, runnerVars, chartVars
    <3>. QED  BY <1>1, <1>4, <3>1 DEF TypeOK, Labels
  <2>5. CASE Step(r)
    <3>1. at = "step" /\ at' = "load" /\ lastTick' = seen[r] + 1
          /\ tick' = tick /\ UNCHANGED <<seeded, value, draws, last, segment, period>>
      BY <1>1, <2>5 DEF Step, Goto, Callers, TypeOK, at, runnerVars, chartVars
    <3>. QED  BY <1>1, <1>4, <3>1 DEF TypeOK, Labels
  <2>6. CASE Load(r)
    <3>1. at = "load" /\ at' = "draw" /\ seen'[r] = draws /\ tick' = tick
          /\ UNCHANGED <<seeded, lastTick, value, draws, last, segment, period>>
      BY <1>1, <2>6 DEF Load, Goto, Callers, TypeOK, at, curve, runnerVars, chartVars
    <3>. QED  BY <1>1, <1>4, <3>1 DEF TypeOK, Labels
  <2>7. CASE Draw(r)
    <3>1. at = "draw" /\ at' = "test" /\ draws' = seen[r] + 1 /\ value' = draws'
          /\ tick' = tick /\ UNCHANGED <<seeded, lastTick, last, segment, period>>
      BY <1>1, <2>7 DEF Draw, Goto, Callers, TypeOK, at, runnerVars, chartVars
    <3>. QED  BY <1>1, <1>4, <3>1 DEF TypeOK, Labels
  <2>8. CASE CaughtUp(r)
    <3>1. at = "test" /\ at' = "return" /\ lastTick >= tick[r] /\ tick' = tick
          /\ UNCHANGED <<seeded, lastTick, value, draws, last, segment, period>>
      BY <1>1, <2>8 DEF CaughtUp, Goto, Callers, TypeOK, at, curve, locals, runnerVars, chartVars
    <3>. QED  BY <1>1, <1>4, <3>1 DEF TypeOK, Labels
  <2>9. CASE Return(r)
    <3>1. at = "return" /\ at' \in {"jitter", "idle"}
          /\ (~segment.jittered => at' = "idle")
          /\ last' = [period |-> period, value |-> value]
          /\ UNCHANGED <<seeded, lastTick, value, draws, segment, period>>
      BY <1>1, <2>9 DEF Return, Goto, Callers, TypeOK, at, curve, chartVars
    <3>. QED  BY <1>1, <1>4, <3>1 DEF TypeOK, Labels
  <2>10. CASE LoadJitter(r)
    <3>1. at = "jitter" /\ at' = "jittered" /\ seen'[r] = draws
          /\ UNCHANGED <<seeded, lastTick, value, draws, last, segment, period>>
      BY <1>1, <2>10 DEF LoadJitter, Goto, Callers, TypeOK, at, curve, runnerVars, chartVars
    <3>. QED  BY <1>1, <1>4, <3>1 DEF TypeOK, Labels
  <2>11. CASE DrawJitter(r)
    <3>1. at = "jittered" /\ at' = "idle" /\ draws' = seen[r] + 1
          /\ UNCHANGED <<seeded, lastTick, value, last, segment, period>>
      BY <1>1, <2>11 DEF DrawJitter, Goto, Callers, TypeOK, at, runnerVars, chartVars
    <3>. QED  BY <1>1, <1>4, <3>1 DEF TypeOK, Labels
  <2>. HIDE DEF Goal
  <2>. QED  BY <1>7, <2>0, <2>1, <2>2, <2>3, <2>4, <2>5, <2>6, <2>7, <2>8, <2>9, <2>10,
               <2>11 DEF Value
<1>8. CASE UNCHANGED vars
  <2>1. /\ at' = at /\ seeded' = seeded /\ lastTick' = lastTick /\ value' = value
        /\ draws' = draws /\ tick' = tick /\ seen' = seen /\ last' = last
        /\ segment' = segment /\ period' = period
    BY <1>8 DEF vars, at, curve, locals, runnerVars, chartVars
  <2>. QED  BY <1>4, <2>1
<1>. HIDE DEF SeedFirst, Asked, Returned, CaughtUpTo, Ahead
<1>. QED  BY <1>5, <1>6, <1>7, <1>8 DEF Next

\* As long as no chart is drawn, and before the profile starts over, the state
\* of a random curve is where the runner left it.
THEOREM Invariant == Spec => []IInv
<1>1. IInv /\ [Next]_vars => IInv'
  BY TypeStep, OneCallerStep, ByItselfStep DEF IInv
<1>. QED  BY InitInv, <1>1, PTL DEF Spec

-----------------------------------------------------------------------------
\* What the runner has been given changes only when a call of its own returns,
\* with the value of the period it is in.
LEMMA LastStep ==
  ASSUME IInv, [Next]_vars, Alone
  PROVE  last' = last \/ /\ at = "return"
                         /\ last' = [period |-> period, value |-> value]
<1>1. ASSUME NEW gap \in 0 .. MaxGap, RunnerTick(gap) PROVE last' = last
  BY <1>1 DEF RunnerTick
<1>2. CASE PlanColumn
  BY <1>2 DEF PlanColumn, runnerVars
<1>3. ASSUME NEW c \in Callers, Value(c)
      PROVE  last' = last \/ /\ at = "return"
                             /\ last' = [period |-> period, value |-> value]
  <2>1. CASE Return(c)
    <3>1. c = "runner"
      BY <2>1 DEF IInv, OneCaller, Callers, Return
    <3>. QED  BY <2>1, <3>1 DEF Return, at
  <2>2. CASE ~Return(c)
    BY <1>3, <2>2 DEF Value, LoadFirst, DrawFirst, Seeded, Test, Step, Load, Draw,
                      CaughtUp, LoadJitter, DrawJitter, runnerVars
  <2>. QED  BY <2>1, <2>2
<1>4. CASE UNCHANGED vars
  BY <1>4 DEF vars, runnerVars
<1>. QED  BY <1>1, <1>2, <1>3, <1>4 DEF Next

\* In the first pass, and alone, a call returns a value that is ahead of the
\* last one by the periods that have passed, and is a new one if any has.
LEMMA ReturnAhead ==
  ASSUME IInv, Alone, FirstPass, at = "return", last.period >= 0
  PROVE  /\ period > last.period => value # last.value
         /\ ~segment.jittered => value - last.value = period - last.period
<1>1. SeedFirst /\ Asked /\ CaughtUpTo /\ lastTick = period
  BY DEF IInv, ByItself, CaughtUpTo
<1>2. lastTick \in Nat /\ value \in Nat /\ period \in Nat
      /\ last.period \in Int /\ last.value \in Nat
  BY DEF IInv, TypeOK
<1>. QED  BY <1>1, <1>2 DEF CaughtUpTo

\* A run without jitter is reproducible: which draw the runner gets in the
\* first pass depends on the periods alone, not on the gaps between its ticks
\* (sampleEachPeriod, curve.go:229-248).
THEOREM ReproducibleCorrect == Spec => Reproducible
<1>1. IInv /\ [Next]_vars => [Alone /\ FirstPass /\ ~segment.jittered => Steady]_vars
  <2>. SUFFICES ASSUME IInv, [Next]_vars, Alone, FirstPass, ~segment.jittered,
                       last.period >= 0
                PROVE  last'.value - last.value = last'.period - last.period
    BY DEF Steady
  <2>1. last.period \in Int /\ last.value \in Nat
    BY DEF IInv, TypeOK
  <2>2. CASE last' = last
    BY <2>1, <2>2
  <2>3. CASE at = "return" /\ last' = [period |-> period, value |-> value]
    BY <2>3, ReturnAhead
  <2>. QED  BY <2>2, <2>3, LastStep
<1>. QED  BY <1>1, Invariant, PTL DEF Spec, Reproducible

\* With or without jitter, a later period brings another value, as long as the
\* profile is in its first pass.
THEOREM ResampledCorrect == Spec => ResampledEachPeriod
<1>1. IInv /\ [Next]_vars =>
        [Alone /\ FirstPass /\ last.period >= 0 /\ last'.period > last.period
           => last'.value # last.value]_vars
  <2>. SUFFICES ASSUME IInv, [Next]_vars, Alone, FirstPass, last.period >= 0,
                       last'.period > last.period
                PROVE  last'.value # last.value
    OBVIOUS
  <2>1. last.period \in Int
    BY DEF IInv, TypeOK
  <2>2. last' # last
    BY <2>1
  <2>3. at = "return" /\ last' = [period |-> period, value |-> value]
    BY <2>2, LastStep
  <2>. QED  BY <2>3, ReturnAhead
<1>. QED  BY <1>1, Invariant, PTL DEF Spec, ResampledEachPeriod
=============================================================================
