----------------------------- MODULE CpuControl -----------------------------
(***************************************************************************)
(* The arithmetic of the CPU engine (internal/cpuload/cpuload.go), in      *)
(* fixed point: CPU time in units of 1/Core of a core, a duty cycle in     *)
(* units of 1/Core, the feedback scale in units of 1/One. Divisions round  *)
(* down, so results are exact to one unit.                                 *)
(***************************************************************************)
EXTENDS Integers

CONSTANTS
  Core,         \* one core, and a full duty cycle
  One,          \* the feedback scale 1.0
  PoolSize,     \* len of the spin pool, engine.workers
  Feedback,     \* options.Feedback
  GainInverse,  \* 1 / options.Gain
  Noise         \* 20m, below which a sample is not measurable

ASSUME CoreAssumption     == Core \in Nat \ {0}
ASSUME OneAssumption      == One \in Nat /\ One >= 4 /\ One % 4 = 0
ASSUME PoolAssumption     == PoolSize \in Nat \ {0}
ASSUME FeedbackAssumption == Feedback \in BOOLEAN
ASSUME GainAssumption     == GainInverse \in Nat \ {0}
ASSUME NoiseAssumption    == Noise \in Nat

Clamp(v, lo, hi) == IF v < lo THEN lo ELSE IF v > hi THEN hi ELSE v

MinScale == One \div 4
MaxScale == 4 * One

\* updateDuty(): the duty cycle for target t under scale s.
DutyOf(t, s) == Clamp((t * (IF Feedback THEN s ELSE One)) \div (One * PoolSize),
                      0, Core)

\* correct(): the scale after measuring usage a under target t. The relative
\* error (t - a) / t, times the gain, multiplies the scale.
CorrectedUnreset(t, s, a) ==                \* mutant: no reset at target zero
  IF t = 0 \/ (a < Noise /\ t < Noise) THEN s
  ELSE Clamp((s * ((GainInverse + 1) * t - a)) \div (GainInverse * t),
             MinScale, MaxScale)
CorrectedReversed(t, s, a) ==               \* mutant: the error's sign
  IF t = 0 THEN One
  ELSE IF a < Noise /\ t < Noise THEN s
  ELSE Clamp((s * ((GainInverse - 1) * t + a)) \div (GainInverse * t),
             MinScale, MaxScale)
Corrected(t, s, a) ==
  IF t = 0 THEN One
  ELSE IF a < Noise /\ t < Noise THEN s
  ELSE Clamp((s * ((GainInverse + 1) * t - a)) \div (GainInverse * t),
             MinScale, MaxScale)

\* Stats(): "spinning flat out and the target is still out of reach".
SaturatedAt(duty, t, a) ==
  /\ 1000 * duty >= 999 * Core
  /\ t > 0
  /\ \/ 100 * t > 99 * PoolSize * Core
     \/ a > 0 /\ 10 * a < 9 * t

\* SuggestWorkers(): a quarter of headroom over the peak target, rounded up
\* to whole workers, within the CPUs available.
SuggestWorkersTruncated(peak, maxProcs) ==  \* mutant: rounded down, no headroom
  Clamp(peak \div Core, 1, IF maxProcs < 1 THEN 1 ELSE maxProcs)
SuggestWorkers(peak, maxProcs) ==
  Clamp((5 * peak + 4 * Core - 1) \div (4 * Core),
        1, IF maxProcs < 1 THEN 1 ELSE maxProcs)
=============================================================================
