-------------------------- MODULE MemEngine_proofs --------------------------
(***************************************************************************)
(* Proofs about MemEngine, for every chunk size, step, threshold, interval *)
(* and set of targets.                                                     *)
(***************************************************************************)
EXTENDS MemEngine, TLAPS

USE ChunkAssumption, StepAssumption, ThresholdAssumption, IntervalAssumption,
    FlagAssumption, FootprintAssumption, TargetAssumption, BoundAssumption
    DEF ChunkAssumption, StepAssumption, ThresholdAssumption,
        IntervalAssumption, FlagAssumption, FootprintAssumption,
        TargetAssumption, BoundAssumption

(***************************************************************************)
(* The pure operators.                                                     *)
(***************************************************************************)

\* Division of a natural number by a positive one gives a natural number ...
LEMMA DivNat == ASSUME NEW a \in Nat, NEW b \in Nat \ {0} PROVE a \div b \in Nat
  OBVIOUS

\* ... that, multiplied by the divisor, does not exceed the dividend.
LEMMA DivBelow ==
  ASSUME NEW a \in Nat, NEW b \in Nat \ {0} PROVE b * (a \div b) <= a
  OBVIOUS

\* Multiplication by a chunk size keeps the order.
LEMMA TimesChunk ==
  ASSUME NEW m \in Nat, NEW n \in Nat, m <= n
  PROVE  m * ChunkSize <= n * ChunkSize
  OBVIOUS

\* What a tick may allocate is something, and no more than what is missing
\* (memload.go:249-259).
LEMMA StepCapBounds ==
  ASSUME NEW missing \in Nat \ {0}
  PROVE  StepCap(missing) \in 1 .. missing
<1>1. CASE MaxStepBytes = 0
  BY <1>1 DEF StepCap
<1>2. CASE MaxStepBytes # 0
  <2>1. MaxStepBytes \div ChunkSize \in Nat
    BY DivNat
  <2>. QED  BY <1>2, <2>1 DEF StepCap, Smaller, Larger
<1>. QED  BY <1>1, <1>2

\* The wanted number of chunks is a natural number and, whatever the estimate
\* of the overhead, bounded by the target (memload.go:232-244).
LEMMA WantBounds ==
  ASSUME NEW t \in Nat, NEW over \in Nat
  PROVE  /\ WantChunks(t, over) \in Nat
         /\ BoundedBy(WantChunks(t, over), t)
<1>1. ToHold(t, over) \in Nat /\ ToHold(t, over) <= t
  BY DEF ToHold, Larger
<1>. DEFINE a == 2 * ToHold(t, over) + ChunkSize
            b == 2 * ChunkSize
            w == a \div b
<1>2. a \in Nat /\ b \in Nat \ {0} /\ a <= 2 * t + ChunkSize
  BY <1>1
<1>3. w \in Nat /\ b * w <= a
  BY <1>2, DivNat, DivBelow
<1>4. WantChunks(t, over) = w
  BY DEF WantChunks
<1>5. b * w = 2 * (w * ChunkSize)
  BY <1>3
<1>. QED  BY <1>2, <1>3, <1>4, <1>5 DEF BoundedBy

\* The average stays a natural number.
LEMMA SmoothedNat ==
  ASSUME NEW prev \in Nat, NEW new \in Nat PROVE Smoothed(prev, new) \in Nat
  BY DivNat DEF Smoothed

(***************************************************************************)
(* Type correctness.                                                       *)
(***************************************************************************)

LEMMA TypeInit == Init => TypeOK
<1>. SUFFICES ASSUME Init PROVE TypeOK
  OBVIOUS
<1>. USE DEF Init
<1>1. cancelled \in BOOLEAN /\ forced \in BOOLEAN
  BY Zenon
<1>2. touches \in Nat /\ sinceRelease \in 0 .. ReleaseInterval
      /\ sets \in 0 .. MaxSets
  OBVIOUS
<1>3. pc \in PCs
  BY DEF PCs
<1>. QED  BY <1>1, <1>2, <1>3 DEF TypeOK

LEMMA TypeStep == TypeOK /\ [Next]_vars => TypeOK'
<1>. SUFFICES ASSUME TypeOK, [Next]_vars PROVE TypeOK'
  OBVIOUS
<1>. USE DEF TypeOK, PCs, Larger, Smaller, runVars, engineVars, atomVars,
             listVars, releaseVars, statsVars
<1>1. ASSUME NEW bytes \in Targets, SetTarget(bytes) PROVE TypeOK'
  BY <1>1 DEF SetTarget
<1>2. CASE Sample
  <2>1. Resident \in Nat /\ Unheld \in Nat
    BY DEF Resident, Unheld
  <2>2. Smoothed(overhead, Unheld) \in Nat
    BY <2>1, SmoothedNat
  <2>. QED  BY <1>2, <2>2 DEF Sample
<1>3. CASE Plan
  BY <1>3, WantBounds DEF Plan
<1>4. CASE StartGrowing
  <2>1. want - chunks \in Nat \ {0}
    BY <1>4 DEF StartGrowing
  <2>2. StepCap(want - chunks) \in Nat
    BY <2>1, StepCapBounds
  <2>. QED  BY <1>4, <2>2 DEF StartGrowing
<1>5. CASE NewChunk
  BY <1>5 DEF NewChunk
<1>6. CASE DropSurplus
  BY <1>6 DEF DropSurplus
<1>7. CASE StoreHeld
  <2>1. ListBytes \in Nat
    BY DEF ListBytes
  <2>. QED  BY <1>7, <2>1 DEF StoreHeld
<1>8. CASE RaisePeak
  BY <1>8 DEF RaisePeak
<1>9. CASE KeepPages
  BY <1>9 DEF KeepPages
<1>10. CASE ForceRelease
  BY <1>10 DEF ForceRelease
<1>11. CASE TouchDue
  BY <1>11 DEF TouchDue
<1>12. CASE TouchAll
  BY <1>12 DEF TouchAll
<1>13. CASE SeeDone
  BY <1>13 DEF SeeDone
<1>14. CASE ReleaseAll
  BY <1>14 DEF ReleaseAll
<1>15. CASE ZeroHeld
  BY <1>15 DEF ZeroHeld
<1>16. CASE Cancel
  BY <1>16 DEF Cancel
<1>17. CASE Clock
  BY <1>17 DEF Clock
<1>18. CASE Collect
  BY <1>18 DEF Collect
<1>19. CASE LockChunks
  BY <1>19 DEF LockChunks
<1>20. CASE CountChunks
  BY <1>20 DEF CountChunks
<1>21. CASE LoadHeld
  BY <1>21 DEF LoadHeld
<1>22. CASE UNCHANGED vars
  BY <1>22 DEF vars
<1>. QED
  BY <1>1, <1>2, <1>3, <1>4, <1>5, <1>6, <1>7, <1>8, <1>9, <1>10, <1>11,
     <1>12, <1>13, <1>14, <1>15, <1>16, <1>17, <1>18, <1>19, <1>20, <1>21,
     <1>22
     DEF Next, Runner, Stats, Engine, Tick, Lock

\* Every variable stays in its domain: no counter of the engine becomes
\* negative, however targets, estimates and releases interleave.
THEOREM TypeCorrect == Spec => []TypeOK
  BY TypeInit, TypeStep, PTL DEF Spec

(***************************************************************************)
(* The inductive invariant. It adds to the safety properties only that the *)
(* target is one that was asked for and that what a tick has decided to    *)
(* hold is bounded by such a target (PlanBounded): a chunk allocated in    *)
(* the middle of a growth is bounded because the plan behind it is; and    *)
(* that the list releaseAll() emptied is still empty when held is zeroed   *)
(* (ListEmptied).                                                          *)
(***************************************************************************)

\* At the start nothing is held and nothing is asked for.
LEMMA InvInit == Init => IInv
<1>. SUFFICES ASSUME Init PROVE IInv
  OBVIOUS
<1>1. TypeOK
  BY TypeInit
<1>2. MutexScope
  BY Zenon DEF Init, MutexScope
<1>3. HeldMatchesChunks /\ NoOvershoot /\ PeakIsHighWater /\ ListEmptied
  BY DEF Init, HeldMatchesChunks, NoOvershoot, PeakIsHighWater, ListEmptied
<1>4. PlanBounded /\ AllocationBounded
  BY DEF Init, PlanBounded, AllocationBounded, BoundedBy
<1>. QED  BY <1>1, <1>2, <1>3, <1>4 DEF IInv

\* The mutex is taken and released together with the steps that need it.
LEMMA MutexStep == IInv /\ [Next]_vars => MutexScope'
<1>. SUFFICES ASSUME IInv, [Next]_vars PROVE MutexScope'
  OBVIOUS
<1>. USE DEF IInv, MutexScope, runVars, engineVars, atomVars,
             listVars, releaseVars, statsVars
<1>1. ASSUME NEW bytes \in Targets, SetTarget(bytes) PROVE MutexScope'
  BY <1>1 DEF SetTarget
<1>2. CASE TouchDue \/ TouchAll \/ Cancel \/ Clock \/ Collect
  BY <1>2 DEF TouchDue, TouchAll, Cancel, Clock, Collect
<1>3. CASE Sample \/ Plan
  BY <1>3 DEF Sample, Plan
<1>4. CASE StartGrowing \/ DropSurplus
  BY <1>4, Zenon DEF StartGrowing, DropSurplus
<1>5. CASE NewChunk
  BY <1>5 DEF NewChunk
<1>6. CASE StoreHeld
  BY <1>6, Zenon DEF StoreHeld
<1>7. CASE RaisePeak \/ KeepPages \/ ForceRelease
  BY <1>7 DEF RaisePeak, KeepPages, ForceRelease
<1>8. CASE SeeDone \/ ReleaseAll \/ ZeroHeld
  BY <1>8 DEF SeeDone, ReleaseAll, ZeroHeld
<1>9. CASE LockChunks \/ CountChunks \/ LoadHeld
  BY <1>9 DEF LockChunks, CountChunks, LoadHeld
<1>10. CASE UNCHANGED vars
  BY <1>10 DEF vars
<1>. QED
  BY <1>1, <1>2, <1>3, <1>4, <1>5, <1>6, <1>7, <1>8, <1>9, <1>10
     DEF Next, Runner, Stats, Engine, Tick, Lock

\* Whoever changes the chunk list publishes its size before the goroutine is
\* back in its select.
LEMMA HeldStep == IInv /\ [Next]_vars => HeldMatchesChunks'
<1>. SUFFICES ASSUME IInv, [Next]_vars PROVE HeldMatchesChunks'
  OBVIOUS
<1>. USE DEF IInv, HeldMatchesChunks, runVars, engineVars, atomVars,
             listVars, releaseVars, statsVars
<1>1. ASSUME NEW bytes \in Targets, SetTarget(bytes) PROVE HeldMatchesChunks'
  BY <1>1 DEF SetTarget
<1>2. CASE TouchDue \/ TouchAll \/ Cancel \/ Clock \/ Collect
  BY <1>2 DEF TouchDue, TouchAll, Cancel, Clock, Collect
<1>3. CASE Sample \/ Plan
  BY <1>3 DEF Sample, Plan
<1>4. CASE StartGrowing \/ NewChunk \/ DropSurplus
  BY <1>4 DEF StartGrowing, NewChunk, DropSurplus
<1>5. CASE StoreHeld
  BY <1>5 DEF StoreHeld, ListBytes
<1>6. CASE RaisePeak \/ KeepPages \/ ForceRelease
  BY <1>6 DEF RaisePeak, KeepPages, ForceRelease
<1>7. CASE SeeDone \/ ReleaseAll
  BY <1>7 DEF SeeDone, ReleaseAll
<1>8. CASE ZeroHeld
  BY <1>8 DEF ZeroHeld, ListEmptied, TypeOK
<1>9. CASE LockChunks \/ CountChunks \/ LoadHeld
  BY <1>9 DEF LockChunks, CountChunks, LoadHeld
<1>10. CASE UNCHANGED vars
  BY <1>10 DEF vars
<1>. QED
  BY <1>1, <1>2, <1>3, <1>4, <1>5, <1>6, <1>7, <1>8, <1>9, <1>10
     DEF Next, Runner, Stats, Engine, Tick, Lock

\* A growth in capped steps stays within what the tick wants to hold.
LEMMA GrowthStep == IInv /\ [Next]_vars => NoOvershoot' /\ ListEmptied'
<1>. SUFFICES ASSUME IInv, [Next]_vars PROVE NoOvershoot' /\ ListEmptied'
  OBVIOUS
<1>. USE DEF IInv, NoOvershoot, ListEmptied, runVars, engineVars, atomVars,
             listVars, releaseVars, statsVars
<1>1. ASSUME NEW bytes \in Targets, SetTarget(bytes)
      PROVE  NoOvershoot' /\ ListEmptied'
  BY <1>1 DEF SetTarget
<1>2. CASE TouchDue \/ TouchAll \/ Cancel \/ Clock \/ Collect
  BY <1>2 DEF TouchDue, TouchAll, Cancel, Clock, Collect
<1>3. CASE Sample \/ Plan
  BY <1>3 DEF Sample, Plan
<1>4. CASE StartGrowing
  <2>1. want - chunks \in Nat \ {0}
    BY <1>4 DEF StartGrowing, TypeOK
  <2>2. StepCap(want - chunks) \in 1 .. want - chunks
    BY <2>1, StepCapBounds
  <2>. QED  BY <1>4, <2>1, <2>2 DEF StartGrowing, TypeOK
<1>5. CASE NewChunk
  BY <1>5 DEF NewChunk, TypeOK
<1>6. CASE DropSurplus
  BY <1>6 DEF DropSurplus, TypeOK
<1>7. CASE StoreHeld
  BY <1>7 DEF StoreHeld
<1>8. CASE RaisePeak \/ KeepPages \/ ForceRelease
  BY <1>8 DEF RaisePeak, KeepPages, ForceRelease
<1>9. CASE SeeDone \/ ReleaseAll \/ ZeroHeld
  BY <1>9 DEF SeeDone, ReleaseAll, ZeroHeld
<1>10. CASE LockChunks \/ CountChunks \/ LoadHeld
  BY <1>10 DEF LockChunks, CountChunks, LoadHeld
<1>11. CASE UNCHANGED vars
  BY <1>11 DEF vars
<1>. QED
  BY <1>1, <1>2, <1>3, <1>4, <1>5, <1>6, <1>7, <1>8, <1>9, <1>10, <1>11
     DEF Next, Runner, Stats, Engine, Tick, Lock

\* releaseDue() moves the peak with held, and only down with a release.
LEMMA PeakStep == IInv /\ [Next]_vars => PeakIsHighWater'
<1>. SUFFICES ASSUME IInv, [Next]_vars PROVE PeakIsHighWater'
  OBVIOUS
<1>. USE DEF IInv, PeakIsHighWater, Larger, runVars, engineVars, atomVars,
             listVars, releaseVars, statsVars
<1>1. ASSUME NEW bytes \in Targets, SetTarget(bytes) PROVE PeakIsHighWater'
  BY <1>1 DEF SetTarget
<1>2. CASE TouchDue \/ TouchAll \/ Cancel \/ Clock \/ Collect
  BY <1>2 DEF TouchDue, TouchAll, Cancel, Clock, Collect
<1>3. CASE Sample \/ Plan
  BY <1>3 DEF Sample, Plan
<1>4. CASE StartGrowing \/ NewChunk \/ DropSurplus
  BY <1>4 DEF StartGrowing, NewChunk, DropSurplus
<1>5. CASE StoreHeld
  BY <1>5 DEF StoreHeld
<1>6. CASE RaisePeak \/ KeepPages \/ ForceRelease
  BY <1>6 DEF RaisePeak, KeepPages, ForceRelease, TypeOK
<1>7. CASE SeeDone \/ ReleaseAll \/ ZeroHeld
  BY <1>7 DEF SeeDone, ReleaseAll, ZeroHeld
<1>8. CASE LockChunks \/ CountChunks \/ LoadHeld
  BY <1>8 DEF LockChunks, CountChunks, LoadHeld
<1>9. CASE UNCHANGED vars
  BY <1>9 DEF vars
<1>. QED
  BY <1>1, <1>2, <1>3, <1>4, <1>5, <1>6, <1>7, <1>8, <1>9
     DEF Next, Runner, Stats, Engine, Tick, Lock

\* A list shorter than a bounded one is bounded.
LEMMA FewerBounded ==
  ASSUME NEW m \in Nat, NEW n \in Nat, m <= n,
         NEW ts \in SUBSET Nat, \E t \in ts : BoundedBy(n, t)
  PROVE  \E t \in ts : BoundedBy(m, t)
<1>1. PICK t \in ts : BoundedBy(n, t)
  OBVIOUS
<1>2. m * ChunkSize <= n * ChunkSize
  BY TimesChunk
<1>3. m * ChunkSize \in Nat /\ n * ChunkSize \in Nat /\ t \in Nat
  OBVIOUS
<1>4. BoundedBy(m, t)
  <2>. DEFINE x == m * ChunkSize
              y == n * ChunkSize
  <2>1. x \in Nat /\ y \in Nat /\ x <= y /\ 2 * y <= 2 * t + ChunkSize
    BY <1>1, <1>2, <1>3 DEF BoundedBy
  <2>. HIDE DEF x, y
  <2>2. 2 * x <= 2 * t + ChunkSize
    BY <2>1, <1>3
  <2>. QED  BY <2>2 DEF BoundedBy, x
<1>. QED  BY <1>4

\* Neither the plan nor the list outgrows what the runner asked for.
LEMMA BoundStep == IInv /\ [Next]_vars => PlanBounded' /\ AllocationBounded'
<1>. SUFFICES ASSUME IInv, [Next]_vars PROVE PlanBounded' /\ AllocationBounded'
  OBVIOUS
<1>. USE DEF IInv, PlanBounded, AllocationBounded, runVars, engineVars,
             atomVars, listVars, releaseVars, statsVars, BoundedBy
<1>1. ASSUME NEW bytes \in Targets, SetTarget(bytes)
      PROVE  PlanBounded' /\ AllocationBounded'
  BY <1>1 DEF SetTarget
<1>2. CASE TouchDue \/ TouchAll \/ Cancel \/ Clock \/ Collect
  BY <1>2 DEF TouchDue, TouchAll, Cancel, Clock, Collect
<1>3. CASE Sample
  BY <1>3 DEF Sample
<1>4. CASE Plan
  <2>1. BoundedBy(WantChunks(target, overhead), target)
    BY WantBounds DEF TypeOK
  <2>. QED  BY <1>4, <2>1 DEF Plan
<1>5. CASE StartGrowing
  BY <1>5 DEF StartGrowing
<1>6. CASE NewChunk
  <2>1. chunks + 1 \in Nat /\ want \in Nat /\ chunks + 1 <= want
    BY <1>6 DEF NewChunk, NoOvershoot, TypeOK
  <2>2. \E t \in asked : BoundedBy(want, t)
    BY <1>6 DEF NewChunk
  <2>3. asked \in SUBSET Nat
    BY DEF TypeOK
  <2>4. \E t \in asked : BoundedBy(chunks + 1, t)
    BY <2>1, <2>2, <2>3, FewerBounded
  <2>. QED  BY <1>6, <2>4 DEF NewChunk
<1>7. CASE DropSurplus
  BY <1>7 DEF DropSurplus
<1>8. CASE StoreHeld
  BY <1>8 DEF StoreHeld
<1>9. CASE RaisePeak \/ KeepPages \/ ForceRelease
  BY <1>9 DEF RaisePeak, KeepPages, ForceRelease
<1>10. CASE SeeDone \/ ReleaseAll
  <2>1. \E t \in asked : BoundedBy(0, t)
    BY DEF BoundedBy
  <2>. QED  BY <1>10, <2>1 DEF SeeDone, ReleaseAll
<1>11. CASE ZeroHeld
  BY <1>11 DEF ZeroHeld
<1>12. CASE LockChunks \/ CountChunks \/ LoadHeld
  BY <1>12 DEF LockChunks, CountChunks, LoadHeld
<1>13. CASE UNCHANGED vars
  BY <1>13 DEF vars
<1>. QED
  BY <1>1, <1>2, <1>3, <1>4, <1>5, <1>6, <1>7, <1>8, <1>9, <1>10, <1>11,
     <1>12, <1>13
     DEF Next, Runner, Stats, Engine, Tick, Lock

\* The invariant IInv of the runs is inductive, and so holds in every
\* behaviour of the engine.
THEOREM Invariant == Spec => []IInv
<1>1. IInv /\ [Next]_vars => IInv'
  BY TypeStep, MutexStep, HeldStep, GrowthStep, PeakStep, BoundStep DEF IInv
<1>. QED  BY InvInit, <1>1, PTL DEF Spec

\* What Stats() counts is a whole list that the engine has published, however
\* calls, growth, touch passes and the end race for the mutex: while the runner
\* has it, reconcile() is not between a change of the list and the store of its
\* size (MutexScope), and everywhere else but in releaseAll() the two agree
\* (HeldMatchesChunks).
THEOREM SnapshotCorrect == Spec => CountsPublished
<1>. DEFINE Published == at # "counted" /\ at' = "counted" =>
                           held = counted' * ChunkSize \/ pc = "zero"
<1>1. ASSUME IInv, [Next]_vars PROVE [Published]_vars
  <2>1. CASE CountChunks
    <3>1. pc \notin {"growing", "store"}
      BY <1>1, <2>1 DEF CountChunks, IInv, MutexScope
    <3>2. pc # "zero" => held = chunks * ChunkSize
      BY <1>1, <3>1 DEF IInv, HeldMatchesChunks
    <3>. QED  BY <2>1, <3>2 DEF CountChunks
  <2>2. CASE ~CountChunks
    <3>1. at' = "counted" => at = "counted"
      BY <1>1, <2>2
         DEF Next, Runner, Stats, Engine, Tick, Lock, vars, statsVars,
             SetTarget, LockChunks, LoadHeld, Sample, Plan, StartGrowing,
             NewChunk, DropSurplus, StoreHeld, RaisePeak, KeepPages,
             ForceRelease, TouchDue, TouchAll, SeeDone, ReleaseAll, ZeroHeld,
             Cancel, Clock, Collect
    <3>. QED  BY <3>1
  <2>. QED  BY <2>1, <2>2
<1>. QED  BY Invariant, <1>1, PTL DEF Spec, CountsPublished

\* Outside a reconcile and the final release, held is the size of the list.
THEOREM HeldCorrect == Spec => []HeldMatchesChunks
<1>1. IInv => HeldMatchesChunks
  BY DEF IInv
<1>. QED  BY Invariant, <1>1, PTL

\* A growth never passes what its tick decided to hold.
THEOREM GrowthCorrect == Spec => []NoOvershoot
<1>1. IInv => NoOvershoot
  BY DEF IInv
<1>. QED  BY Invariant, <1>1, PTL

\* The engine never allocates more than some target asked for, rounded to a
\* chunk, for every set of targets, chunk size, step, footprint and estimate.
THEOREM AllocationCorrect == Spec => []AllocationBounded
<1>1. IInv => AllocationBounded
  BY DEF IInv
<1>. QED  BY Invariant, <1>1, PTL

\* peakHeld is the high-water mark of held since the last forced release.
THEOREM PeakCorrect == Spec => []PeakIsHighWater
<1>1. IInv => PeakIsHighWater
  BY DEF IInv
<1>. QED  BY Invariant, <1>1, PTL

\* A forced release is earned: the clock of the last one goes back only after
\* a whole interval and only when held is a threshold below its high-water
\* mark, whatever the targets did in between.
THEOREM ReleaseCorrect == Spec => ForcedReleaseEarned
<1>. DEFINE Earned == sinceRelease' < sinceRelease =>
                        /\ high - held >= ReleaseThreshold
                        /\ sinceRelease = ReleaseInterval
<1>1. ASSUME IInv, [Next]_vars PROVE [Earned]_vars
  <2>. USE <1>1 DEF IInv, TypeOK, runVars, engineVars, atomVars,
             listVars, releaseVars, statsVars
  <2>1. CASE ForceRelease
    BY <2>1 DEF ForceRelease, ReleaseDue, PeakIsHighWater, Larger
  <2>2. CASE Clock
    BY <2>2 DEF Clock
  <2>3. CASE ~ForceRelease /\ ~Clock
    <3>1. sinceRelease' = sinceRelease
      BY <2>3 DEF Next, Runner, Stats, Engine, Tick, Lock, vars, SetTarget,
                  LockChunks, CountChunks, LoadHeld, Sample, Plan,
                  StartGrowing, NewChunk, DropSurplus, StoreHeld, RaisePeak,
                  KeepPages, TouchDue, TouchAll, SeeDone, ReleaseAll, ZeroHeld,
                  Cancel, Collect
    <3>. QED  BY <3>1
  <2>. QED  BY <2>1, <2>2, <2>3
<1>. QED  BY Invariant, <1>1, PTL DEF Spec, ForcedReleaseEarned

(***************************************************************************)
(* The engine implements Holding.                                          *)
(***************************************************************************)

\* Every step of the engine is a step of Holding or does not show there: a
\* growth because the plan behind it is bounded by a target that was asked
\* for (PlanBounded), the end because the list was emptied before.
LEMMA HoldingStep == IInv /\ [Next]_vars => [Promise!Next]_(Promise!vars)
<1>. SUFFICES ASSUME IInv, [Next]_vars
              PROVE  [Promise!Next]_(Promise!vars)
  OBVIOUS
<1>. USE DEF IInv, TypeOK, Promise!vars, runVars, engineVars, atomVars,
             listVars, releaseVars, statsVars
<1>1. ASSUME NEW bytes \in Targets, SetTarget(bytes) PROVE Promise!Ask
  BY <1>1 DEF SetTarget, Promise!Ask
<1>2. CASE \/ TouchDue \/ TouchAll \/ SeeDone \/ Clock \/ Collect
           \/ Sample \/ Plan \/ LockChunks \/ CountChunks \/ LoadHeld
  BY <1>2 DEF TouchDue, TouchAll, SeeDone, Clock, Collect, Sample, Plan,
              LockChunks, CountChunks, LoadHeld
<1>3. CASE Cancel
  BY <1>3 DEF Cancel, Promise!Next, Promise!Tell
<1>4. CASE StartGrowing
  BY <1>4 DEF StartGrowing
<1>5. CASE NewChunk
  <2>1. AllocationBounded'
    BY BoundStep
  <2>2. PICK t \in asked : BoundedBy(chunks + 1, t)
    BY <1>5, <2>1 DEF AllocationBounded, NewChunk, BoundedBy
  <2>3. Promise!Within(chunks', t)
    BY <1>5, <2>2 DEF NewChunk, BoundedBy, Promise!Within
  <2>4. Promise!Grow
    BY <1>5, <2>3 DEF NewChunk, Promise!Grow
  <2>. QED  BY <2>4 DEF Promise!Next
<1>6. CASE DropSurplus
  BY <1>6 DEF DropSurplus, Promise!Next, Promise!Drop
<1>7. CASE StoreHeld
  BY <1>7 DEF StoreHeld, ListBytes, Promise!Next, Promise!Report
<1>8. CASE RaisePeak \/ KeepPages \/ ForceRelease
  BY <1>8 DEF RaisePeak, KeepPages, ForceRelease
<1>9. CASE ReleaseAll
  BY <1>9 DEF ReleaseAll, Promise!Next, Promise!Drop
<1>10. CASE ZeroHeld
  BY <1>10 DEF ZeroHeld, ListEmptied, Promise!Next, Promise!End
<1>11. CASE UNCHANGED vars
  BY <1>11 DEF vars
<1>. QED
  BY <1>1, <1>2, <1>3, <1>4, <1>5, <1>6, <1>7, <1>8, <1>9, <1>10, <1>11
     DEF Next, Runner, Stats, Engine, Tick, Lock, Promise!Next

\* The engine implements the safety part of Holding: it never holds more than
\* was asked for by then, reports nothing but what it held, and ends with
\* nothing held and nothing reported. Its liveness stays with TLC.
THEOREM HoldingCorrect == Spec => HoldsAsPromised
<1>1. Init => Promise!Init
  BY DEF Init, Promise!Init
<1>. QED
  BY Invariant, <1>1, HoldingStep, PTL DEF Spec, HoldsAsPromised
=============================================================================
