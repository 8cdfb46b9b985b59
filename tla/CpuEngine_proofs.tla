-------------------------- MODULE CpuEngine_proofs --------------------------
(***************************************************************************)
(* Proofs about CpuEngine, for every number of workers, every gain, noise  *)
(* and resolution, all targets and samples, with and without feedback,     *)
(* stagger and a platform that measures.                                   *)
(***************************************************************************)
EXTENDS CpuEngine, FiniteSetTheorems, TLAPS

USE CoreAssumption, OneAssumption, PoolAssumption, FeedbackAssumption,
    GainAssumption, NoiseAssumption, EngineFlagAssumption,
    EngineSetAssumption, EngineBoundAssumption
    DEF CoreAssumption, OneAssumption, PoolAssumption, FeedbackAssumption,
        GainAssumption, NoiseAssumption, EngineFlagAssumption,
        EngineSetAssumption, EngineBoundAssumption

(***************************************************************************)
(* The arithmetic of the control loop.                                     *)
(***************************************************************************)

\* What is clamped lies between the two bounds.
LEMMA ClampWithin ==
  ASSUME NEW v \in Int, NEW lo \in Int, NEW hi \in Int, lo <= hi
  PROVE  Clamp(v, lo, hi) \in lo .. hi
  BY DEF Clamp

\* A division by a positive number gives a whole number.
LEMMA DivInt == ASSUME NEW a \in Int, NEW b \in Nat \ {0} PROVE a \div b \in Int
  OBVIOUS

\* The clamps of the scale are natural numbers around 1.
LEMMA ScaleClamps ==
  /\ MinScale \in Nat /\ MaxScale \in Nat
  /\ MinScale <= One /\ One <= MaxScale
  BY DEF MinScale, MaxScale

\* The product of two natural numbers is one, and positive if they are.
LEMMA TimesNat ==
  /\ \A a, b \in Nat : a * b \in Nat
  /\ \A a, b \in Nat \ {0} : a * b \in Nat \ {0}
  OBVIOUS

\* A duty cycle is never more than a whole slice (updateDuty,
\* cpuload.go:206-217).
LEMMA DutyWithin ==
  ASSUME NEW t \in Nat, NEW s \in Nat PROVE DutyOf(t, s) \in 0 .. Core
<1>. DEFINE a == t * (IF Feedback THEN s ELSE One)
            b == One * PoolSize
            q == a \div b
<1>1. a \in Int /\ b \in Nat \ {0}
  BY TimesNat
<1>2. q \in Int
  <2>. HIDE DEF a, b
  <2>. QED  BY <1>1, DivInt
<1>. HIDE DEF q
<1>3. 0 \in Int /\ Core \in Int /\ 0 <= Core
  OBVIOUS
<1>4. Clamp(q, 0, Core) \in 0 .. Core
  BY <1>2, <1>3, ClampWithin
<1>. QED  BY <1>4 DEF DutyOf, q

\* Whatever was measured, and however it compares with the target, the
\* correction leaves the scale within its clamps (correct, cpuload.go:183-200).
LEMMA CorrectedWithin ==
  ASSUME NEW t \in Nat, NEW s \in MinScale .. MaxScale, NEW a \in Nat
  PROVE  Corrected(t, s, a) \in MinScale .. MaxScale
<1>1. CASE t = 0
  BY <1>1, ScaleClamps DEF Corrected
<1>2. CASE t # 0 /\ a < Noise /\ t < Noise
  BY <1>2 DEF Corrected
<1>3. CASE t # 0 /\ ~(a < Noise /\ t < Noise)
  <2>. DEFINE x == s * ((GainInverse + 1) * t - a)
              y == GainInverse * t
              q == x \div y
  <2>1. s \in Int
    BY ScaleClamps
  <2>2. (GainInverse + 1) * t \in Nat
    BY TimesNat
  <2>3. x \in Int
    BY <2>1, <2>2
  <2>4. y \in Nat \ {0}
    BY <1>3, TimesNat
  <2>5. q \in Int
    <3>. HIDE DEF x, y
    <3>. QED  BY <2>3, <2>4, DivInt
  <2>. HIDE DEF q
  <2>6. MinScale \in Int /\ MaxScale \in Int /\ MinScale <= MaxScale
    BY ScaleClamps
  <2>7. Clamp(q, MinScale, MaxScale) \in MinScale .. MaxScale
    BY <2>5, <2>6, ClampWithin
  <2>. QED  BY <1>3, <2>7 DEF Corrected, q
<1>. QED  BY <1>1, <1>2, <1>3

(***************************************************************************)
(* The inductive invariant. Beyond the properties of the run it says where *)
(* the goroutines can be: control and the workers have places of their     *)
(* own, Run() is past its loop exactly when all were started, and a worker *)
(* that began a burn after the cancellation does not get to another one.   *)
(***************************************************************************)

PlaceOK ==
  /\ pc[control] \in ControlPCs
  /\ \A w \in Workers : pc[w] \in WorkerPCs

SpawnPlace == runPc \in {"add", "go"} <=> spawned # PoolSize + 1

\* Between the cancellation and its end a worker passes "load" once: the way
\* back leads through "check".
LatePlace ==
  \A w \in Workers :
    late[w] # 0 => late[w] = 1 /\ cancelled /\ pc[w] # "load"

IInv == TypeOK /\ WaitGroupExact /\ PlaceOK /\ SpawnPlace /\ LatePlace

LEMMA Pool ==
  /\ control \in Goroutines /\ Workers \subseteq Goroutines
  /\ control \notin Workers
  /\ \A g \in Goroutines : g \in Workers \/ g = control
  /\ 0 \in Goroutines
  BY DEF control, Goroutines, Workers

LEMMA InvInit == Init => IInv
<1>. SUFFICES ASSUME Init PROVE IInv
  OBVIOUS
<1>. USE DEF Init
<1>1. TypeOK
  <2>1. duty \in 0 .. Core /\ scale \in MinScale .. MaxScale
        /\ setScale \in MinScale .. MaxScale /\ ctlScale \in MinScale .. MaxScale
    BY ScaleClamps
  <2>2. cancelled \in BOOLEAN
    BY Zenon
  <2>3. spawned \in 0 .. PoolSize + 1 /\ sets \in 0 .. MaxSets
    OBVIOUS
  <2>. QED  BY <2>1, <2>2, <2>3 DEF TypeOK, WorkerPCs
<1>2. WaitGroupExact
  <2>1. \A g \in Goroutines : g >= spawned
    BY DEF Goroutines
  <2>2. Alive = {}
    BY DEF Alive
  <2>. QED  BY <2>1, <2>2, FS_EmptySet DEF WaitGroupExact
<1>3. PlaceOK /\ LatePlace
  BY Pool DEF PlaceOK, LatePlace, WorkerPCs, ControlPCs
<1>4. SpawnPlace
  BY DEF SpawnPlace
<1>. QED  BY <1>1, <1>2, <1>3, <1>4 DEF IInv

\* The step of a goroutine to another place changes only its own.
LEMMA GotoType ==
  ASSUME TypeOK, NEW g \in Goroutines, NEW l \in WorkerPCs \cup ControlPCs,
         Goto(g, l)
  PROVE  /\ pc' \in [Goroutines -> WorkerPCs \cup ControlPCs]
         /\ pc'[g] = l
         /\ \A h \in Goroutines : h # g => pc'[h] = pc[h]
  BY DEF TypeOK, Goto

\* The goroutines alive are finitely many.
LEMMA AliveFinite == IsFiniteSet(Alive) /\ Cardinality(Alive) \in Nat
<1>1. IsFiniteSet(Goroutines)
  BY FS_Interval DEF Goroutines
<1>2. Alive \subseteq Goroutines
  BY DEF Alive
<1>. QED  BY <1>1, <1>2, FS_Subset, FS_CardinalityType

\* Who is alive is counted: the counter cannot become negative when it ends.
LEMMA CountedOnce ==
  ASSUME TypeOK, WaitGroupExact, NEW g \in Alive
  PROVE  wg - 1 \in Nat
<1>1. Alive # {}
  OBVIOUS
<1>2. Cardinality(Alive) \in Nat \ {0}
  BY <1>1, AliveFinite, FS_EmptySet
<1>. QED  BY <1>2 DEF TypeOK, WaitGroupExact

\* Every variable stays in its domain.
LEMMA TypeStep == IInv /\ [Next]_vars => TypeOK'
<1>. SUFFICES ASSUME IInv, [Next]_vars PROVE TypeOK'
  OBVIOUS
<1>. USE Pool DEF IInv, TypeOK, WorkerPCs, ControlPCs, atomVars, runVars,
                  setVars, ctlVars, ctxVars
<1>1. CASE Add
  BY <1>1 DEF Add
<1>2. CASE Go
  <2>1. spawned \in Goroutines /\ spawned + 1 \in 0 .. PoolSize + 1
    BY <1>2 DEF Go, SpawnPlace, Goroutines
  <2>2. pc' \in [Goroutines -> WorkerPCs \cup ControlPCs]
    BY <1>2 DEF Go, Goto
  <2>3. runPc' \in {"add", "wait"}
    BY <1>2 DEF Go
  <2>. QED  BY <1>2, <2>1, <2>2, <2>3 DEF Go
<1>3. CASE Return
  BY <1>3 DEF Return
<1>4. ASSUME NEW cores \in Targets, StoreTarget(cores) PROVE TypeOK'
  BY <1>4 DEF StoreTarget
<1>5. CASE SetLoadTarget \/ SetLoadScale
  BY <1>5 DEF SetLoadTarget, SetLoadScale
<1>6. CASE SetStoreDuty
  <2>1. setTarget \in Nat /\ setScale \in Nat
    BY ScaleClamps
  <2>2. DutyOf(setTarget, setScale) \in 0 .. Core
    BY <2>1, DutyWithin
  <2>3. One \in MinScale .. MaxScale
    BY ScaleClamps
  <2>. QED  BY <1>6, <2>2, <2>3 DEF SetStoreDuty
<1>7. CASE ControlLoadTarget \/ ControlLoadScale
  BY <1>7 DEF ControlLoadTarget, ControlLoadScale, Goto
<1>8. CASE ControlStoreDuty
  <2>1. ctlTarget \in Nat /\ ctlScale \in Nat
    BY ScaleClamps
  <2>2. DutyOf(ctlTarget, ctlScale) \in 0 .. Core
    BY <2>1, DutyWithin
  <2>3. One \in MinScale .. MaxScale
    BY ScaleClamps
  <2>. QED  BY <1>8, <2>2, <2>3 DEF ControlStoreDuty, Goto
<1>9. CASE Measure
  BY <1>9 DEF Measure, Goto
<1>10. CASE CorrectLoad
  BY <1>10 DEF CorrectLoad, Goto
<1>11. CASE CorrectStore
  <2>1. Corrected(ctlTarget, scale, actual) \in MinScale .. MaxScale
    BY CorrectedWithin
  <2>. QED  BY <1>11, <2>1 DEF CorrectStore, Goto
<1>12. CASE ControlDone
  <2>1. control \in Alive
    BY <1>12 DEF ControlDone, Alive
  <2>. QED  BY <1>12, <2>1, CountedOnce DEF ControlDone, Exit, Goto
<1>13. ASSUME NEW w \in Workers, Slept(w) \/ Check(w) \/ Burned(w)
       PROVE  TypeOK'
  BY <1>13 DEF Slept, Check, Burned, Goto
<1>14. ASSUME NEW w \in Workers, LoadDuty(w) PROVE TypeOK'
  <2>1. Clamp(late[w] + 1, 0, 2) \in 0 .. 2
    BY DEF Clamp
  <2>2. late' \in [Workers -> 0 .. 2]
    BY <1>14, <2>1 DEF LoadDuty
  <2>3. pc' \in [Goroutines -> WorkerPCs \cup ControlPCs]
    BY <1>14 DEF LoadDuty, Goto
  <2>. QED  BY <1>14, <2>2, <2>3 DEF LoadDuty
<1>15. ASSUME NEW w \in Workers, WorkerDone(w) PROVE TypeOK'
  <2>1. w \in Alive
    BY <1>15 DEF WorkerDone, Alive
  <2>. QED  BY <1>15, <2>1, CountedOnce DEF WorkerDone, Exit, Goto
<1>16. CASE Cancel
  BY <1>16 DEF Cancel
<1>17. CASE UNCHANGED vars
  BY <1>17 DEF vars
<1>. QED
  BY <1>1, <1>2, <1>3, <1>4, <1>5, <1>6, <1>7, <1>8, <1>9, <1>10, <1>11,
     <1>12, <1>13, <1>14, <1>15, <1>16, <1>17
     DEF Next, Run, SetTarget, Control, Worker

\* The goroutine that is started is one more alive, one that ends one less, and
\* any other step of one changes nobody else's place.
LEMMA AliveStep ==
  ASSUME TypeOK, NEW g \in Goroutines, NEW l \in WorkerPCs \cup ControlPCs,
         Goto(g, l)
  PROVE  /\ Alive' = IF l \in {"unborn", "done"} THEN Alive \ {g}
                                                ELSE Alive \cup {g}
         /\ \A h \in Goroutines : h # g => pc'[h] = pc[h]
         /\ pc'[g] = l
<1>1. pc'[g] = l /\ \A h \in Goroutines : h # g => pc'[h] = pc[h]
  BY GotoType
<1>. QED  BY <1>1 DEF Alive

\* Run() counts a goroutine in before it is started, and each one counts itself
\* out at its end and nowhere else.
LEMMA WaitGroupStep == IInv /\ [Next]_vars => WaitGroupExact'
<1>. SUFFICES ASSUME IInv, [Next]_vars PROVE WaitGroupExact'
  OBVIOUS
<1>. USE Pool DEF IInv, atomVars, runVars, setVars, ctlVars, ctxVars
<1>1. CASE Add
  <2>1. Alive' = Alive
    BY <1>1 DEF Add, Alive
  <2>. QED  BY <1>1, <2>1, AliveFinite DEF Add, WaitGroupExact
<1>2. CASE Go
  <2>1. spawned \in Goroutines /\ runPc' \in {"add", "wait"}
    BY <1>2 DEF Go, SpawnPlace, TypeOK, Goroutines
  <2>2. PICK l \in {"loadTarget", "stagger", "check"} : Goto(spawned, l)
    BY <1>2 DEF Go
  <2>3. /\ Alive' = Alive \cup {spawned} /\ pc'[spawned] = l
        /\ \A g \in Goroutines : g # spawned => pc'[g] = pc[g]
    BY <2>1, <2>2, AliveStep DEF WorkerPCs, ControlPCs
  <2>4. spawned \notin Alive
    <3>1. spawned >= spawned
      BY <2>1 DEF Goroutines
    <3>2. pc[spawned] = "unborn"
      BY <2>1, <3>1 DEF WaitGroupExact
    <3>. QED  BY <3>2 DEF Alive
  <2>5. Cardinality(Alive') = Cardinality(Alive) + 1
    BY <2>3, <2>4, AliveFinite, FS_AddElement
  <2>6. wg' = Cardinality(Alive') + 0
    BY <1>2, <2>5, AliveFinite DEF Go, WaitGroupExact
  <2>7. \A g \in Goroutines : g >= spawned + 1 <=> g >= spawned /\ g # spawned
    BY <2>1 DEF Goroutines
  <2>8. \A g \in Goroutines : pc'[g] = "unborn" <=> g >= spawned'
    BY <1>2, <2>1, <2>3, <2>7 DEF Go, WaitGroupExact
  <2>9. runPc' # "go" /\ runPc' # "returned"
    BY <2>1
  <2>. QED  BY <2>6, <2>8, <2>9 DEF WaitGroupExact
<1>3. CASE Return
  <2>1. \A g \in Goroutines : pc[g] # "unborn"
    BY <1>3 DEF Return, SpawnPlace, TypeOK, Goroutines, WaitGroupExact
  <2>2. Cardinality(Alive) = 0
    BY <1>3, AliveFinite DEF Return, WaitGroupExact
  <2>3. Alive = {}
    BY <2>2, AliveFinite, FS_EmptySet
  <2>4. \A g \in Goroutines : pc[g] = "done"
    BY <2>1, <2>3 DEF Alive
  <2>5. Alive' = Alive
    BY <1>3 DEF Return, Alive
  <2>. QED  BY <1>3, <2>4, <2>5 DEF Return, WaitGroupExact
<1>4. ASSUME NEW g \in Goroutines, NEW l \in WorkerPCs \cup ControlPCs,
             Goto(g, l), pc[g] \notin {"unborn", "done"},
             l \notin {"unborn", "done"}, UNCHANGED runVars
      PROVE  WaitGroupExact'
  <2>1. g \in Alive
    BY <1>4 DEF Alive
  <2>2. Alive' = Alive /\ \A h \in Goroutines : h # g => pc'[h] = pc[h]
    BY <1>4, <2>1, AliveStep
  <2>3. pc'[g] = l /\ runPc # "returned"
    BY <1>4, AliveStep DEF WaitGroupExact
  <2>. QED  BY <1>4, <2>2, <2>3 DEF WaitGroupExact
<1>5. ASSUME NEW g \in Goroutines, Exit(g), pc[g] \notin {"unborn", "done"},
             UNCHANGED <<runPc, spawned>>
      PROVE  WaitGroupExact'
  <2>1. g \in Alive
    BY <1>5 DEF Alive
  <2>2. /\ Alive' = Alive \ {g} /\ pc'[g] = "done"
        /\ \A h \in Goroutines : h # g => pc'[h] = pc[h]
    BY <1>5, AliveStep DEF Exit, WorkerPCs, ControlPCs
  <2>3. Cardinality(Alive') = Cardinality(Alive) - 1
    BY <2>1, <2>2, AliveFinite, FS_RemoveElement
  <2>4. wg' = Cardinality(Alive') + (IF runPc = "go" THEN 1 ELSE 0)
    BY <1>5, <2>3, AliveFinite DEF Exit, WaitGroupExact
  <2>. QED  BY <1>5, <2>2, <2>4 DEF WaitGroupExact
<1>6. CASE Control
  <2>1. PICK l \in ControlPCs \ {"unborn", "done"} : Goto(control, l)
    BY <1>6 DEF Control, ControlLoadTarget, ControlLoadScale,
                ControlStoreDuty, Measure, CorrectLoad, CorrectStore,
                ControlPCs
  <2>2. pc[control] \notin {"unborn", "done"} /\ UNCHANGED runVars
    BY <1>6 DEF Control, ControlLoadTarget, ControlLoadScale,
                ControlStoreDuty, Measure, CorrectLoad, CorrectStore
  <2>. QED  BY <1>4, <2>1, <2>2
<1>7. CASE ControlDone
  BY <1>5, <1>7 DEF ControlDone
<1>8. ASSUME NEW w \in Workers, Worker(w) PROVE WaitGroupExact'
  <2>1. PICK l \in WorkerPCs \ {"unborn", "done"} : Goto(w, l)
    BY <1>8 DEF Worker, Slept, Check, LoadDuty, Burned, WorkerPCs
  <2>2. pc[w] \notin {"unborn", "done"} /\ UNCHANGED runVars
    BY <1>8 DEF Worker, Slept, Check, LoadDuty, Burned
  <2>. QED  BY <1>4, <2>1, <2>2
<1>9. ASSUME NEW w \in Workers, WorkerDone(w) PROVE WaitGroupExact'
  BY <1>5, <1>9 DEF WorkerDone
<1>10. CASE UNCHANGED <<pc, runVars>>
  <2>1. Alive' = Alive
    BY <1>10 DEF Alive
  <2>. QED  BY <1>10, <2>1 DEF WaitGroupExact
<1>11. CASE \/ \E cores \in Targets : StoreTarget(cores)
            \/ SetTarget \/ Cancel \/ UNCHANGED vars
  BY <1>10, <1>11 DEF StoreTarget, SetTarget, SetLoadTarget, SetLoadScale,
                      SetStoreDuty, Cancel, vars
<1>. QED
  BY <1>1, <1>2, <1>3, <1>6, <1>7, <1>8, <1>9, <1>11 DEF Next, Run

\* Goroutines keep to their own places, and Run() leaves its loop with the last.
LEMMA PlaceStep == IInv /\ [Next]_vars => PlaceOK' /\ SpawnPlace'
<1>. SUFFICES ASSUME IInv, [Next]_vars PROVE PlaceOK' /\ SpawnPlace'
  OBVIOUS
<1>. USE Pool DEF IInv, PlaceOK, SpawnPlace, WorkerPCs, ControlPCs, atomVars,
                  runVars, setVars, ctlVars, ctxVars
<1>1. CASE Go
  <2>1. spawned \in Goroutines /\ control = PoolSize
    BY <1>1 DEF Go, TypeOK, Goroutines, control
  <2>2. PlaceOK'
    BY <1>1, <2>1 DEF Go, Goto, TypeOK
  <2>. QED  BY <1>1, <2>1, <2>2 DEF Go, Goroutines
<1>2. CASE Add \/ Return
  BY <1>2 DEF Add, Return
<1>3. ASSUME NEW l \in ControlPCs, Goto(control, l), UNCHANGED <<runPc, spawned>>
      PROVE  PlaceOK' /\ SpawnPlace'
  BY <1>3 DEF Goto, TypeOK
<1>4. ASSUME NEW w \in Workers, NEW l \in WorkerPCs, Goto(w, l),
             UNCHANGED <<runPc, spawned>>
      PROVE  PlaceOK' /\ SpawnPlace'
  BY <1>4 DEF Goto, TypeOK
<1>5. CASE Control \/ ControlDone
  BY <1>3, <1>5 DEF Control, ControlLoadTarget, ControlLoadScale,
                    ControlStoreDuty, Measure, CorrectLoad, CorrectStore,
                    ControlDone, Exit
<1>6. ASSUME NEW w \in Workers, Worker(w) \/ WorkerDone(w)
      PROVE  PlaceOK' /\ SpawnPlace'
  BY <1>4, <1>6 DEF Worker, Slept, Check, LoadDuty, Burned, WorkerDone, Exit
<1>7. CASE UNCHANGED <<pc, runVars>>
  BY <1>7
<1>8. CASE \/ \E cores \in Targets : StoreTarget(cores)
           \/ SetTarget \/ Cancel \/ UNCHANGED vars
  BY <1>7, <1>8 DEF StoreTarget, SetTarget, SetLoadTarget, SetLoadScale,
                    SetStoreDuty, Cancel, vars
<1>. QED
  BY <1>1, <1>2, <1>5, <1>6, <1>8 DEF Next, Run

\* After the cancellation "load" is left for a last burn, and not entered.
LEMMA LateStep == IInv /\ [Next]_vars => LatePlace'
<1>. SUFFICES ASSUME IInv, [Next]_vars PROVE LatePlace'
  OBVIOUS
<1>. USE Pool DEF IInv, LatePlace, atomVars, runVars, setVars, ctlVars, ctxVars
<1>1. ASSUME NEW g \in Goroutines, NEW l, Goto(g, l), l # "load",
             UNCHANGED ctxVars
      PROVE  LatePlace'
  BY <1>1 DEF Goto, TypeOK
<1>2. CASE Go
  <2>1. spawned \in Goroutines
    BY <1>2 DEF Go, TypeOK, SpawnPlace, Goroutines
  <2>. QED  BY <1>1, <1>2, <2>1 DEF Go
<1>3. CASE Control \/ ControlDone
  BY <1>1, <1>3 DEF Control, ControlLoadTarget, ControlLoadScale,
                    ControlStoreDuty, Measure, CorrectLoad, CorrectStore,
                    ControlDone, Exit
<1>4. ASSUME NEW w \in Workers, Slept(w) \/ Burned(w) \/ WorkerDone(w)
      PROVE  LatePlace'
  BY <1>1, <1>4 DEF Slept, Burned, WorkerDone, Exit
<1>5. ASSUME NEW w \in Workers, Check(w) PROVE LatePlace'
  BY <1>5 DEF Check, Goto, TypeOK
<1>6. ASSUME NEW w \in Workers, LoadDuty(w) PROVE LatePlace'
  <2>1. late[w] = 0 /\ pc'[w] # "load"
    BY <1>6 DEF LoadDuty, Goto, TypeOK
  <2>2. late'[w] = 0 \/ (late'[w] = 1 /\ cancelled)
    BY <1>6, <2>1 DEF LoadDuty, Clamp, TypeOK
  <2>3. \A v \in Workers : v # w => late'[v] = late[v] /\ pc'[v] = pc[v]
    BY <1>6 DEF LoadDuty, Goto, TypeOK
  <2>. QED  BY <1>6, <2>1, <2>2, <2>3 DEF LoadDuty
<1>7. CASE Add \/ Return \/ Cancel \/ UNCHANGED vars
  BY <1>7 DEF Add, Return, Cancel, vars
<1>8. CASE (\E cores \in Targets : StoreTarget(cores)) \/ SetTarget
  BY <1>8 DEF StoreTarget, SetTarget, SetLoadTarget, SetLoadScale, SetStoreDuty
<1>. QED
  BY <1>2, <1>3, <1>4, <1>5, <1>6, <1>7, <1>8 DEF Next, Run, Worker

\* The invariant is inductive, whoever overtakes whom.
THEOREM Invariant == Spec => []IInv
<1>1. IInv /\ [Next]_vars => IInv'
  BY TypeStep, WaitGroupStep, PlaceStep, LateStep DEF IInv
<1>. QED  BY InvInit, <1>1, PTL DEF Spec

\* For every pool size, gain and set of targets, targets, duty cycle and scale
\* stay in their domains although four atomics are updated without a lock; and
\* Run() waits for exactly the goroutines that are alive, so that when it has
\* returned the load is off (cpuload.go:136-154).
THEOREM WaitGroupCorrect == Spec => []Inv
<1>1. IInv => Inv
  BY DEF IInv, Inv
<1>. QED  BY Invariant, <1>1, PTL

\* No worker, of however many, begins more than one burn after the context has
\* ended.
THEOREM ShutdownPrompt == Spec => []OneLateBurn
<1>1. IInv => OneLateBurn
  BY DEF IInv, LatePlace, OneLateBurn, TypeOK
<1>. QED  BY Invariant, <1>1, PTL
=============================================================================
