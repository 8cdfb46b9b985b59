----------------------------- MODULE CpuEngine -----------------------------
(***************************************************************************)
(* The CPU load engine (internal/cpuload/cpuload.go): a pool of workers    *)
(* that burn a fraction of each slice, a control goroutine that corrects   *)
(* the duty cycle, and the runner, which sets targets. They share four     *)
(* atomics (target, duty, scale, actual), each loaded and stored on its    *)
(* own, without a lock around an update: both SetTarget() and control()    *)
(* run updateDuty(), a load of the target, a load of the scale and a store *)
(* of the duty cycle. Run() starts the goroutines and waits for them.      *)
(*                                                                         *)
(* What the process really uses is outside the repository: a sample of     *)
(* control() may be any value of Usages.                                   *)
(***************************************************************************)
EXTENDS CpuControl, FiniteSets

CONSTANTS
  Stagger,     \* options.Stagger
  Measurable,  \* whether the platform reports the process's CPU time
  Targets,     \* targets the runner may set
  Usages,      \* values a sample may have
  MaxSets      \* bound: how often the runner changes its target

ASSUME EngineFlagAssumption == Stagger \in BOOLEAN /\ Measurable \in BOOLEAN
ASSUME EngineSetAssumption  == Targets \subseteq Nat /\ Usages \subseteq Nat
ASSUME EngineBoundAssumption == MaxSets \in Nat

\* Worker idx is the goroutine number idx of the pool; control is the last
\* goroutine Run starts.
Workers == 0 .. PoolSize - 1
control == PoolSize
Goroutines == 0 .. PoolSize

VARIABLES
  target,     \* targetBits
  duty,       \* dutyBits
  scale,      \* scaleBits
  actual,     \* actualBits
  pc,         \* where each goroutine is; "unborn" before its go statement
  runPc,      \* where Run() is
  spawned,    \* Run(): goroutines started so far
  wg,         \* the counter of the WaitGroup
  setPc,      \* where the runner is inside SetTarget()
  setTarget, setScale,   \* its updateDuty() locals
  ctlTarget, ctlScale,   \* the locals of control()
  cancelled,  \* ctx.Done() is closed
  sets,       \* bound: SetTarget() calls so far
  late        \* history: burns a worker began after the cancellation

atomVars == <<target, duty, scale, actual>>
runVars == <<runPc, spawned, wg>>
\* The locals of a call are back at their initial values after it.
setVars == <<setPc, setTarget, setScale, sets>>
ctlVars == <<ctlTarget, ctlScale>>
ctxVars == <<cancelled, late>>
vars == <<atomVars, pc, runVars, setVars, ctlVars, ctxVars>>

WorkerPCs  == {"unborn", "stagger", "check", "load", "burn", "burnAll", "pause",
               "done"}
ControlPCs == {"unborn", "loadTarget", "loadScale", "storeDuty", "select",
               "correct", "storeScale", "done"}

-----------------------------------------------------------------------------
Init ==
  /\ target = 0 /\ duty = 0 /\ scale = One /\ actual = 0
  /\ pc = [g \in Goroutines |-> "unborn"]
  /\ runPc = "add" /\ spawned = 0 /\ wg = 0
  /\ setPc = "idle" /\ setTarget = 0 /\ setScale = One
  /\ ctlTarget = 0 /\ ctlScale = One
  /\ cancelled = FALSE /\ sets = 0
  /\ late = [w \in Workers |-> 0]

Goto(g, l) == pc' = [pc EXCEPT ![g] = l]

\* The end of a goroutine: its deferred wg.Done().
Exit(g) == Goto(g, "done") /\ wg' = wg - 1

(***************************************************************************)
(* Run().                                                                  *)
(***************************************************************************)

\* wg.Add(1), for each worker and then for control ...
AddWorkers ==                           \* mutant: control is not counted
  /\ runPc = "add"
  /\ wg' = IF spawned = control THEN wg ELSE wg + 1
  /\ runPc' = "go"
  /\ UNCHANGED <<atomVars, pc, spawned, setVars, ctlVars, ctxVars>>

Add ==
  /\ runPc = "add"
  /\ wg' = wg + 1
  /\ runPc' = "go"
  /\ UNCHANGED <<atomVars, pc, spawned, setVars, ctlVars, ctxVars>>

\* ... and its go statement. Those started before run already, and may have
\* ended.
Go ==
  /\ runPc = "go"
  /\ Goto(spawned, IF spawned = control THEN "loadTarget"
                   ELSE IF Stagger /\ PoolSize > 1 THEN "stagger" ELSE "check")
  /\ spawned' = spawned + 1
  /\ runPc' = IF spawned = control THEN "wait" ELSE "add"
  /\ UNCHANGED <<atomVars, wg, setVars, ctlVars, ctxVars>>

\* wg.Wait() returns; stopped is stored.
Return ==
  /\ runPc = "wait"
  /\ wg = 0
  /\ runPc' = "returned"
  /\ UNCHANGED <<atomVars, pc, spawned, wg, setVars, ctlVars, ctxVars>>

(***************************************************************************)
(* The runner: SetTarget().                                                *)
(***************************************************************************)

StoreTarget(cores) ==
  /\ setPc = "idle"
  /\ sets < MaxSets
  /\ target' = cores
  /\ sets' = sets + 1
  /\ setPc' = "loadTarget"
  /\ UNCHANGED <<duty, scale, actual, pc, runVars, setTarget, setScale,
                 ctlVars, ctxVars>>

SetLoadTarget ==
  /\ setPc = "loadTarget"
  /\ setTarget' = target
  /\ setPc' = "loadScale"
  /\ UNCHANGED <<atomVars, pc, runVars, setScale, sets, ctlVars, ctxVars>>

SetLoadScale ==
  /\ setPc = "loadScale"
  /\ setScale' = scale
  /\ setPc' = "storeDuty"
  /\ UNCHANGED <<atomVars, pc, runVars, setTarget, sets, ctlVars, ctxVars>>

SetStoreDuty ==
  /\ setPc = "storeDuty"
  /\ duty' = DutyOf(setTarget, setScale)
  /\ setPc' = "idle" /\ setTarget' = 0 /\ setScale' = One
  /\ UNCHANGED <<target, scale, actual, pc, runVars, sets, ctlVars, ctxVars>>

(***************************************************************************)
(* The control goroutine.                                                  *)
(***************************************************************************)

\* updateDuty(), at the top of the loop.
ControlLoadTarget ==
  /\ pc[control] = "loadTarget"
  /\ ctlTarget' = target
  /\ Goto(control, "loadScale")
  /\ UNCHANGED <<atomVars, runVars, setVars, ctlScale, ctxVars>>

ControlLoadScale ==
  /\ pc[control] = "loadScale"
  /\ ctlScale' = scale
  /\ Goto(control, "storeDuty")
  /\ UNCHANGED <<atomVars, runVars, setVars, ctlTarget, ctxVars>>

ControlStoreDuty ==
  /\ pc[control] = "storeDuty"
  /\ duty' = DutyOf(ctlTarget, ctlScale)
  /\ ctlTarget' = 0 /\ ctlScale' = One
  /\ Goto(control, "select")
  /\ UNCHANGED <<target, scale, actual, runVars, setVars, ctxVars>>

\* case now := <-tick.C: the usage since the last tick, if it is known.
Measure ==
  /\ pc[control] = "select"
  /\ \/ /\ Measurable
        /\ actual' \in Usages
        /\ Goto(control, IF Feedback THEN "correct" ELSE "loadTarget")
     \/ ~Measurable /\ actual' = actual /\ Goto(control, "loadTarget")
  /\ UNCHANGED <<target, duty, scale, runVars, setVars, ctlVars, ctxVars>>

\* correct(): the target it compares the sample with may be newer than the
\* interval the sample is about.
CorrectLoad ==
  /\ pc[control] = "correct"
  /\ ctlTarget' = target
  /\ Goto(control, "storeScale")
  /\ UNCHANGED <<atomVars, runVars, setVars, ctlScale, ctxVars>>

CorrectStoreOnly ==                     \* mutant: no updateDuty afterwards
  /\ pc[control] = "storeScale"
  /\ scale' = Corrected(ctlTarget, scale, actual) /\ ctlTarget' = 0
  /\ Goto(control, "select")
  /\ UNCHANGED <<target, duty, actual, runVars, setVars, ctlScale, ctxVars>>

CorrectStore ==
  /\ pc[control] = "storeScale"
  /\ scale' = Corrected(ctlTarget, scale, actual) /\ ctlTarget' = 0
  /\ Goto(control, "loadTarget")
  /\ UNCHANGED <<target, duty, actual, runVars, setVars, ctlScale, ctxVars>>

\* case <-ctx.Done()
ControlDone ==
  /\ pc[control] = "select"
  /\ cancelled
  /\ Exit(control)
  /\ UNCHANGED <<atomVars, runPc, spawned, setVars, ctlVars, ctxVars>>

(***************************************************************************)
(* The workers.                                                            *)
(***************************************************************************)

\* sleepCtx() runs to its end. Without a duration it looks at the context.
Slept(w) ==
  /\ \/ pc[w] = "stagger" /\ (w = 0 => ~cancelled)
     \/ pc[w] = "pause"
  /\ Goto(w, "check")
  /\ UNCHANGED <<atomVars, runVars, setVars, ctlVars, ctxVars>>

\* The context ends a sleep, or the worker finds it ended between slices.
WorkerDoneAsleep(w) ==                  \* mutant: only a sleep is ended
  /\ pc[w] \in {"stagger", "pause"}
  /\ cancelled
  /\ Exit(w)
  /\ UNCHANGED <<atomVars, runPc, spawned, setVars, ctlVars, ctxVars>>

WorkerDone(w) ==
  /\ pc[w] \in {"stagger", "pause", "check"}
  /\ cancelled
  /\ Exit(w)
  /\ UNCHANGED <<atomVars, runPc, spawned, setVars, ctlVars, ctxVars>>

CheckSkipped(w) ==                      \* mutant: ctx.Err() not looked at
  /\ pc[w] = "check"
  /\ Goto(w, "load")
  /\ UNCHANGED <<atomVars, runVars, setVars, ctlVars, ctxVars>>

Check(w) ==
  /\ pc[w] = "check"
  /\ ~cancelled
  /\ Goto(w, "load")
  /\ UNCHANGED <<atomVars, runVars, setVars, ctlVars, ctxVars>>

\* The cases of the switch: at most 0.0005 is nothing to burn, at least
\* 0.9995 the whole slice.
Idle(d) == 2000 * d <= Core
Full(d) == 2000 * d >= 1999 * Core

LoadDuty(w) ==
  /\ pc[w] = "load"
  /\ Goto(w, IF Idle(duty) THEN "pause"
             ELSE IF Full(duty) THEN "burnAll" ELSE "burn")
  /\ late' = IF cancelled /\ ~Idle(duty)
             THEN [late EXCEPT ![w] = Clamp(@ + 1, 0, 2)] ELSE late
  /\ UNCHANGED <<atomVars, runVars, setVars, ctlVars, cancelled>>

\* burn() ends; what is left of the slice is slept, if anything is.
Burned(w) ==
  /\ \/ pc[w] = "burnAll" /\ Goto(w, "check")
     \/ pc[w] = "burn" /\ Goto(w, "pause")
  /\ UNCHANGED <<atomVars, runVars, setVars, ctlVars, ctxVars>>

Cancel ==
  /\ ~cancelled
  /\ cancelled' = TRUE
  /\ UNCHANGED <<atomVars, pc, runVars, setVars, ctlVars, late>>

-----------------------------------------------------------------------------
Run == Add \/ Go \/ Return

SetTarget == SetLoadTarget \/ SetLoadScale \/ SetStoreDuty

Control == \/ ControlLoadTarget \/ ControlLoadScale \/ ControlStoreDuty
           \/ Measure \/ CorrectLoad \/ CorrectStore

Worker(w) == Slept(w) \/ Check(w) \/ LoadDuty(w) \/ Burned(w)

Next == \/ Run \/ Cancel
        \/ (\E cores \in Targets : StoreTarget(cores)) \/ SetTarget
        \/ Control \/ ControlDone
        \/ \E w \in Workers : Worker(w) \/ WorkerDone(w)

\* Goroutines are scheduled and timers fire. A select that finds the context
\* ended along with a tick or a timer picks one at random, so the end of the
\* context is not passed over for ever.
Fairness == /\ WF_vars(Run) /\ WF_vars(SetTarget)
            /\ WF_vars(Control) /\ SF_vars(ControlDone)
            /\ \A w \in Workers : WF_vars(Worker(w)) /\ SF_vars(WorkerDone(w))

Spec == Init /\ [][Next]_vars /\ Fairness

-----------------------------------------------------------------------------
(***************************************************************************)
(* Safety.                                                                 *)
(***************************************************************************)

\* Domains; the scale stays within the clamp of correct(), and a duty cycle
\* within a whole slice.
TypeOK ==
  /\ target \in Nat /\ actual \in Nat
  /\ duty \in 0 .. Core /\ scale \in MinScale .. MaxScale
  /\ pc \in [Goroutines -> WorkerPCs \cup ControlPCs]
  /\ runPc \in {"add", "go", "wait", "returned"} /\ spawned \in 0 .. PoolSize + 1
  /\ wg \in Nat
  /\ setPc \in {"idle", "loadTarget", "loadScale", "storeDuty"}
  /\ setTarget \in Nat /\ setScale \in MinScale .. MaxScale
  /\ ctlTarget \in Nat /\ ctlScale \in MinScale .. MaxScale
  /\ cancelled \in BOOLEAN /\ sets \in 0 .. MaxSets
  /\ late \in [Workers -> 0 .. 2]

\* The goroutines that were started and have not ended.
Alive == {g \in Goroutines : pc[g] \notin {"unborn", "done"}}

\* The WaitGroup counts exactly those, and the one about to be started, at every
\* moment of the start-up and of the shutdown, even when the first have ended
\* before Run has started the last; and when Run has returned none is left: the
\* runner's "engines" channel really means that the load is off.
WaitGroupExact ==
  /\ wg = Cardinality(Alive) + (IF runPc = "go" THEN 1 ELSE 0)
  /\ \A g \in Goroutines : pc[g] = "unborn" <=> g >= spawned
  /\ runPc = "returned" => \A g \in Goroutines : pc[g] = "done"

\* Domains and the WaitGroup together: Run() waits for whoever is alive and for
\* nobody else (cpuload.go:136-154).
Inv == TypeOK /\ WaitGroupExact

\* A worker begins at most one more burn after the context has ended, so that
\* shutting down takes at most one slice whatever the duty cycle.
OneLateBurn == \A w \in Workers : late[w] <= 1

(***************************************************************************)
(* Liveness.                                                               *)
(***************************************************************************)

\* "Apply immediately so a ramp follows the profile" (cpuload.go:99-100) is
\* kept in the end: control() may overtake SetTarget() and leave the duty cycle
\* of the previous target behind, but only until one of its later ticks.
DutySettles ==
  <>[](~cancelled /\ pc[control] = "select" => duty = DutyOf(target, scale))

\* At target zero no worker burns any more, and the correction of the last load
\* does not survive, whatever scale, duty cycle or sample was in flight when
\* the target was set.
RestsAtZero ==
  <>[](target = 0 => /\ \A w \in Workers : pc[w] \notin {"burn", "burnAll"}
                     /\ ~cancelled => scale = One)

\* Run returns after the context has ended.
Returns == <>[](cancelled => runPc = "returned")
=============================================================================
