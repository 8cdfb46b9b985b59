---------------------------- MODULE RandomCurve ----------------------------
(***************************************************************************)
(* A segment with a random curve (internal/profile/curve.go,               *)
(* sampleEachPeriod): its value is drawn anew once per period and held in  *)
(* between. The generator and the state belong to the compiled profile,    *)
(* which the runner evaluates on its ticks and the handlers of "/" and     *)
(* "/plan" evaluate for a whole chart, without a lock.                     *)
(*                                                                         *)
(* A value is named by the number of its draw. The loads and stores of the *)
(* shared state are steps of their own: the two callers race. What a race  *)
(* can do inside math/rand is not modelled.                                *)
(***************************************************************************)
EXTENDS Integers

CONSTANTS
  Length,     \* periods in the phase, and in one pass of the profile
  MaxPeriods, \* bound: periods the runner lives through
  MaxGap,     \* bound: periods a delayed tick may skip
  MaxPlans,   \* bound: charts drawn
  MaxDraws    \* bound: draws after which no call begins

ASSUME LengthAssumption == Length \in Nat \ {0}
ASSUME BoundAssumption  == /\ MaxPeriods \in Nat /\ MaxGap \in Nat \ {0}
                           /\ MaxPlans \in Nat /\ MaxDraws \in Nat

Callers == {"runner", "plan"}

VARIABLES
  segment,  \* the configuration, fixed: Profile.Loop, and whether it has a jitter
  seeded, lastTick, value,  \* curveState
  draws,    \* the generator: draws made so far
  pc,       \* where each caller is inside sampleEachPeriod
  tick,     \* its local: the period asked for; 0 outside
  seen,     \* its local: the lastTick, or the draws, it loaded; 0 when unused
  period,   \* the period the runner is in, over all iterations
  column,   \* the chart: periods drawn so far
  plans,    \* bound: charts begun
  last      \* history: the last value returned to the runner, and its period

curve == <<seeded, lastTick, value, draws>>
locals == <<tick, seen>>
runnerVars == <<period, last>>
chartVars == <<column, plans, segment>>
vars == <<curve, pc, locals, runnerVars, chartVars>>

-----------------------------------------------------------------------------
Init ==
  /\ segment \in [loop : BOOLEAN, jittered : BOOLEAN]
  /\ seeded = FALSE /\ lastTick = 0 /\ value = 0 /\ draws = 0
  /\ pc = [c \in Callers |-> "idle"]
  /\ tick = [c \in Callers |-> 0] /\ seen = [c \in Callers |-> 0]
  /\ period = 0 /\ column = 0 /\ plans = 0
  /\ last = [period |-> -1, value |-> 0]

Goto(c, l) == pc' = [pc EXCEPT ![c] = l]

\* Eval(): the period within the current pass.
TickAt(p) == IF segment.loop THEN p % Length ELSE p

(***************************************************************************)
(* The callers.                                                            *)
(***************************************************************************)

\* A tick of the runner, in the same period or a later one.
RunnerTick(gap) ==
  /\ pc["runner"] = "idle"
  /\ period + gap <= MaxPeriods /\ draws < MaxDraws
  /\ period' = period + gap
  /\ tick' = [tick EXCEPT !["runner"] = TickAt(period')]
  /\ Goto("runner", "seed")
  /\ UNCHANGED <<curve, seen, last, chartVars>>

\* Render() walks through its window from the beginning.
PlanColumn ==
  /\ pc["plan"] = "idle" /\ draws < MaxDraws
  /\ IF column = 0 THEN plans < MaxPlans /\ plans' = plans + 1 ELSE UNCHANGED plans
  /\ tick' = [tick EXCEPT !["plan"] = TickAt(column)]
  /\ column' = (column + 1) % (IF segment.loop THEN 2 * Length ELSE Length)
  /\ Goto("plan", "seed")
  /\ UNCHANGED <<curve, seen, runnerVars, segment>>

(***************************************************************************)
(* sampleEachPeriod().                                                     *)
(***************************************************************************)

\* The first call draws the first value, and returns it.
LoadFirst(c) ==
  /\ pc[c] = "seed" /\ ~seeded
  /\ seen' = [seen EXCEPT ![c] = draws]
  /\ Goto(c, "first")
  /\ UNCHANGED <<curve, tick, runnerVars, chartVars>>

DrawFirst(c) ==
  /\ pc[c] = "first"
  /\ draws' = seen[c] + 1
  /\ seen' = [seen EXCEPT ![c] = 0]
  /\ seeded' = TRUE
  /\ lastTick' = tick[c]
  /\ value' = draws'
  /\ Goto(c, "return")
  /\ UNCHANGED <<tick, runnerVars, chartVars>>

Seeded(c) ==
  /\ pc[c] = "seed" /\ seeded
  /\ Goto(c, "test")
  /\ UNCHANGED <<curve, locals, runnerVars, chartVars>>

\* for st.lastTick < tick
TestOnce(c) ==                          \* mutant: skipped periods not drawn
  /\ pc[c] = "test" /\ lastTick < tick[c]
  /\ seen' = [seen EXCEPT ![c] = tick[c] - 1]
  /\ Goto(c, "step")
  /\ UNCHANGED <<curve, tick, runnerVars, chartVars>>

Test(c) ==
  /\ pc[c] = "test" /\ lastTick < tick[c]
  /\ seen' = [seen EXCEPT ![c] = lastTick]
  /\ Goto(c, "step")
  /\ UNCHANGED <<curve, tick, runnerVars, chartVars>>

\* st.lastTick++
Step(c) ==
  /\ pc[c] = "step"
  /\ lastTick' = seen[c] + 1
  /\ seen' = [seen EXCEPT ![c] = 0]
  /\ Goto(c, "load")
  /\ UNCHANGED <<seeded, value, draws, tick, runnerVars, chartVars>>

\* st.value = next(in.Rand, st.value)
Load(c) ==
  /\ pc[c] = "load"
  /\ seen' = [seen EXCEPT ![c] = draws]
  /\ Goto(c, "draw")
  /\ UNCHANGED <<curve, tick, runnerVars, chartVars>>

DrawUnstored(c) ==                      \* mutant: the value is not stored
  /\ pc[c] = "draw"
  /\ draws' = seen[c] + 1
  /\ seen' = [seen EXCEPT ![c] = 0]
  /\ Goto(c, "test")
  /\ UNCHANGED <<seeded, lastTick, value, tick, runnerVars, chartVars>>

Draw(c) ==
  /\ pc[c] = "draw"
  /\ draws' = seen[c] + 1
  /\ seen' = [seen EXCEPT ![c] = 0]
  /\ value' = draws'
  /\ Goto(c, "test")
  /\ UNCHANGED <<seeded, lastTick, tick, runnerVars, chartVars>>

CaughtUpExactly(c) ==                   \* mutant: for st.lastTick != tick
  /\ pc[c] = "test" /\ lastTick = tick[c]
  /\ Goto(c, "return")
  /\ UNCHANGED <<curve, locals, runnerVars, chartVars>>

CaughtUp(c) ==
  /\ pc[c] = "test" /\ lastTick >= tick[c]
  /\ Goto(c, "return")
  /\ UNCHANGED <<curve, locals, runnerVars, chartVars>>

\* return st.value, to Segment.value() ...
Return(c) ==
  /\ pc[c] = "return"
  /\ Goto(c, IF segment.jittered THEN "jitter" ELSE "idle")
  /\ last' = IF c = "runner" THEN [period |-> period, value |-> value] ELSE last
  /\ tick' = [tick EXCEPT ![c] = 0] /\ seen' = [seen EXCEPT ![c] = 0]
  /\ UNCHANGED <<curve, period, chartVars>>

\* ... which draws the jitter of every sample from the same generator.
LoadJitter(c) ==
  /\ pc[c] = "jitter"
  /\ seen' = [seen EXCEPT ![c] = draws]
  /\ Goto(c, "jittered")
  /\ UNCHANGED <<curve, tick, runnerVars, chartVars>>

DrawJitter(c) ==
  /\ pc[c] = "jittered"
  /\ draws' = seen[c] + 1
  /\ seen' = [seen EXCEPT ![c] = 0]
  /\ Goto(c, "idle")
  /\ UNCHANGED <<seeded, lastTick, value, tick, runnerVars, chartVars>>

-----------------------------------------------------------------------------
Value(c) ==
  \/ LoadFirst(c) \/ DrawFirst(c) \/ Seeded(c)
  \/ Test(c) \/ Step(c) \/ Load(c) \/ Draw(c) \/ CaughtUp(c)
  \/ Return(c) \/ LoadJitter(c) \/ DrawJitter(c)

Next == \/ \E gap \in 0 .. MaxGap : RunnerTick(gap)
        \/ PlanColumn
        \/ \E c \in Callers : Value(c)

\* A call that was begun is executed.
Spec == Init /\ [][Next]_vars /\ \A c \in Callers : WF_vars(Value(c))

-----------------------------------------------------------------------------
\* The runner has the curve for itself, and is in the first pass of the profile.
Alone == plans = 0
FirstPass == segment.loop => period < Length

\* "Random curves resample once per period" (DESIGN.md:128): in a later period
\* the runner gets another value. In a second pass the clock is behind
\* lastTick, and it does not.
ResampledEachPeriod ==
  [][Alone /\ FirstPass /\ last.period >= 0 /\ last'.period > last.period
       => last'.value # last.value]_vars

\* "... and hold the value in between ... so a run is reproducible"
\* (DESIGN.md:128-131): which draw the runner gets depends on the periods that
\* have passed alone, not on how often or how late it asked. A jitter draws
\* from the same generator on every tick, and so breaks it.
Steady == last.period >= 0
            => last'.value - last.value = last'.period - last.period

Reproducible == [][Alone /\ FirstPass /\ ~segment.jittered => Steady]_vars

\* The same, whatever charts are asked for meanwhile: to look at a run is not
\* to change it.
ReproducibleWhenWatched == [][FirstPass /\ ~segment.jittered => Steady]_vars

\* A call returns even if another one moves the shared state under it: the
\* catch-up loop ends although lastTick may be set back or run ahead.
SamplesReturn == \A c \in Callers : (pc[c] # "idle") ~> (pc[c] = "idle")
=============================================================================
