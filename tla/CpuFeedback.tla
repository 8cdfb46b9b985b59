---------------------------- MODULE CpuFeedback ----------------------------
(***************************************************************************)
(* The closed loop of the CPU engine: the control goroutine measures what  *)
(* the process used since its last tick and corrects the duty cycle, while *)
(* the runner changes the target and the container's limit changes.        *)
(*                                                                         *)
(* Each step is one whole control tick or target change; CpuEngine models  *)
(* how their loads and stores interleave. What is outside the repository   *)
(* is the process's real usage: what the pool spins plus what the rest of  *)
(* the process burns, capped by the container's limit.                     *)
(***************************************************************************)
EXTENDS CpuControl

CONSTANTS
  Targets,      \* targets the runner may set
  Limits,       \* limits the container may run under
  Backgrounds,  \* usage of the rest of the process
  MaxEvents     \* bound: changes of the target or of the limit

ASSUME TargetsAssumption     == Targets \subseteq Nat
ASSUME LimitsAssumption      == Limits # {} /\ Limits \subseteq Nat \ {0}
ASSUME BackgroundsAssumption == Backgrounds # {} /\ Backgrounds \subseteq Nat
ASSUME EventsAssumption      == MaxEvents \in Nat

VARIABLES
  target,      \* targetBits
  duty,        \* dutyBits
  scale,       \* scaleBits
  actual,      \* actualBits
  limit,       \* CPU the container may use
  background,  \* CPU the process uses outside the pool
  low, high,   \* least and greatest usage since the last control tick
  events       \* bound: changes so far

vars == <<target, duty, scale, actual, limit, background, low, high, events>>

Smaller(a, b) == IF a <= b THEN a ELSE b
Larger(a, b)  == IF a >= b THEN a ELSE b

\* What the process uses while every worker spins for the fraction d.
UsageAt(d, lim) == Smaller(PoolSize * d + background, lim)
Usage == UsageAt(duty, limit)

-----------------------------------------------------------------------------
\* New() and the first updateDuty() of control().
Init ==
  /\ target = 0 /\ duty = 0 /\ scale = One /\ actual = 0 /\ events = 0
  /\ limit \in Limits /\ background \in Backgrounds
  /\ low = Usage /\ high = Usage

\* The interval now also contains the usage under the new duty or limit.
Widen(d, lim) == /\ low'  = Smaller(low, UsageAt(d, lim))
                 /\ high' = Larger(high, UsageAt(d, lim))

\* SetTarget() applies the new target at once.
SetTarget(cores) ==
  /\ events < MaxEvents
  /\ target' = cores
  /\ duty' = DutyOf(cores, scale)
  /\ Widen(duty', limit)
  /\ events' = events + 1
  /\ UNCHANGED <<scale, actual, limit, background>>

\* The container is throttled more, or less, than before.
Throttle(lim) ==
  /\ events < MaxEvents
  /\ limit' = lim
  /\ Widen(duty, lim)
  /\ events' = events + 1
  /\ UNCHANGED <<target, duty, scale, actual, background>>

\* A tick of control(): measure, correct, update the duty cycle. The measured
\* average lies between the least and the greatest usage of the interval.
Control ==
  /\ actual' \in {low, high, (low + high) \div 2}
  /\ scale' = IF Feedback THEN Corrected(target, scale, actual') ELSE scale
  /\ duty' = DutyOf(target, scale')
  /\ low' = UsageAt(duty', limit) /\ high' = low'
  /\ UNCHANGED <<target, limit, background, events>>

Next == \/ \E cores \in Targets : SetTarget(cores)
        \/ \E lim \in Limits : Throttle(lim)
        \/ Control

\* control() ticks for as long as the engine runs.
Spec == Init /\ [][Next]_vars /\ WF_vars(Control)

-----------------------------------------------------------------------------
Saturated == SaturatedAt(duty, target, actual)

\* The most the process can use: flat out, under the limit.
Reach == Smaller(PoolSize * Core + background, limit)

\* Some scale within the clamps makes the usage equal to the target.
Reachable == /\ target > Noise
             /\ target <= Reach
             /\ background <= target - target \div 4

\* The loop's resolution: it stops correcting once the correction rounds to
\* nothing, and the pool moves in steps of one duty unit per worker.
Tolerance == target \div 50 + 2 * PoolSize

\* A target that can be reached is reached and kept, whatever was measured,
\* wound up or throttled before (cpuload.go:183-200).
Converges ==
  <>[](Reachable => /\ Usage - target <= Tolerance
                    /\ target - Usage <= Tolerance)

\* Every target of the profile is reachable with the pool SuggestWorkers
\* chooses for the peak when only the pool uses CPU and nothing throttles it.
SuggestedPoolReaches ==
  <>[](target > 0 /\ background = 0 /\ limit >= PoolSize * Core
         => target - Usage <= Tolerance /\ ~Saturated)

\* "If the container is throttled ... the loop pushes the duty cycle to 1.0
\* and gives up honestly: loadsim_cpu_saturated goes to 1" (DESIGN.md:64-66),
\* provided the pool is at most four times the target: a larger one would need
\* a scale beyond the clamp of correct(). A tenth is the margin of Stats().
GivesUpWithinScale ==
  <>[](Reach < target - target \div 10 /\ target >= (PoolSize * Core) \div 4
         => duty = Core /\ Saturated)
=============================================================================
