--------------------------- MODULE Runner_proofs ---------------------------
(***************************************************************************)
(* Proofs about Runner, for every set of configurations: the delays, ends, *)
(* commands and mistakes of a process, however its main goroutine, the     *)
(* engines, the HTTP server, clients and signals interleave.               *)
(***************************************************************************)
EXTENDS Runner, TLAPS

USE ConfigAssumption, TimeAssumption DEF ConfigAssumption, TimeAssumption

(***************************************************************************)
(* The inductive invariant.                                                *)
(***************************************************************************)

\* The places of one iteration of Run, in their order.
Iteration == {"observe", "gate", "setCPU", "setMemory", "publish", "decide", "select"}

\* The main goroutine works with a time that has been, and nothing is loaded in
\* an iteration that belongs to the initialisation, even if the clock has passed
\* it meanwhile.
TimeBehind ==
  /\ uptime <= now
  /\ Initializing(uptime) => \A e \in Engines : goals[e] = "zero"

\* How many of the engines have ended; each left one message.
Left(e) == IF engine[e] = "ended" THEN 1 ELSE 0
MessagesCounted == tokens + drained = Left("cpu") + Left("memory")

\* What has been started, cancelled and received where the main goroutine is.
BeforeRun ==
  pc \in {"dispatch", "spawn"} =>
    \A e \in Engines : engine[e] = "unborn" /\ goals[e] = "zero"
InRun ==
  pc \in {"dispatch", "spawn"} \cup Iteration =>
    runErr = "none" /\ drained = 0 /\ ~cancelled
Begun ==
  pc \in Iteration \cup {"drain", "returned", "await"} =>
    \A e \in Engines : engine[e] # "unborn"
Draining == pc = "drain" => runErr # "none" /\ drained <= 1 /\ Done
Drained  == pc \in {"returned", "await"} => runErr # "none" /\ drained = 2 /\ Done
Exited ==
  pc = "exited" =>
    \/ runErr = "none" /\ drained = 0 /\ \A e \in Engines : engine[e] = "unborn"
    \/ runErr # "none" /\ drained = 2 /\ Done
Places == BeforeRun /\ InRun /\ Begun /\ Draining /\ Drained /\ Exited

\* Only a signal or the end of Run stops the context of cmdRun, and nothing
\* happens before the command is known.
Stopped ==
  /\ stopped /\ ~signalled => drained = 2
  /\ listener = "closed" => stopped
  /\ pc = "dispatch" => server = "unborn" /\ ~stopped

\* The readiness gate and the iteration under way: what is behind it holds for
\* the time of the iteration.
GateTrue == ready => GateOpen(uptime)
GatePassed ==
  pc \in {"setCPU", "setMemory", "publish", "decide", "select"} /\ GateOpen(uptime) => ready
GoalsSet ==
  /\ pc \in {"setMemory", "publish", "decide", "select"} => goals["cpu"] = GoalAt(uptime)
  /\ pc \in {"publish", "decide", "select"} => goals["memory"] = GoalAt(uptime)
  /\ pc \in {"decide", "select"} => snap.goal = GoalAt(uptime)
SnapTrue ==
  /\ snap.ready => ready
  /\ snap.initializing => ~snap.ready
  /\ snap.goal = "profile" => ~snap.initializing

\* Why Run returned, and which command ran.
ReasonKept ==
  /\ runErr = "cancelled" => signalled
  /\ runErr = "nil" => \/ finished /\ now >= opts.initDelay + opts.finishAfter
                       \/ opts.exitAfter > 0 /\ now >= opts.exitAfter
  /\ outcome # "none" <=> pc = "exited"
  /\ pc \notin {"dispatch", "exited"} => opts.command = "run" /\ ~Refused

IInv ==
  /\ TypeOK /\ TimeBehind /\ MessagesCounted /\ Places /\ Stopped
  /\ GateTrue /\ GatePassed /\ GoalsSet /\ SnapTrue
  /\ ReasonKept /\ EndsForAReason

(***************************************************************************)
(* Type correctness.                                                       *)
(***************************************************************************)

\* What ConfigAssumption says of the configuration in force.
LEMMA OptsType ==
  ASSUME TypeOK
  PROVE  /\ opts.readyDelay \in Nat /\ opts.initDelay \in Nat
         /\ opts.exitAfter \in Nat /\ opts.finishAfter \in Nat
         /\ opts.serverOn \in BOOLEAN
  BY DEF TypeOK

LEMMA TypeInit == Init => TypeOK
<1>. SUFFICES ASSUME Init PROVE TypeOK
  OBVIOUS
<1>. USE DEF Init
<1>1. ready \in BOOLEAN /\ finished \in BOOLEAN
      /\ cancelled \in BOOLEAN /\ stopped \in BOOLEAN /\ signalled \in BOOLEAN
  BY Zenon
<1>2. snap \in [ready : BOOLEAN, initializing : BOOLEAN, goal : {"zero", "profile"}]
  BY Zenon
<1>. QED  BY <1>1, <1>2 DEF TypeOK, PCs

\* Every variable stays in its domain; the channel of the engines, for one,
\* never holds more than its buffer.
LEMMA TypeStep == IInv /\ [Next]_vars => TypeOK'
<1>. SUFFICES ASSUME IInv, [Next]_vars PROVE TypeOK'
  OBVIOUS
<1>. USE DEF IInv, TypeOK, PCs, runVars, endVars, engVars, srvVars, ctxVars
<1>1. CASE Presets \/ Dispatch
  BY <1>1 DEF Presets, Dispatch, PrintAndEnd
<1>2. CASE SpawnEngines
  BY <1>2 DEF SpawnEngines
<1>3. CASE Observe \/ Stay \/ Wake
  BY <1>3 DEF Observe, Stay, Wake
<1>4. CASE OpenGate
  <2>1. (ready \/ GateOpen(uptime)) \in BOOLEAN
    OBVIOUS
  <2>. QED  BY <1>4, <2>1 DEF OpenGate
<1>5. CASE SetCPU \/ SetMemory
  BY <1>5 DEF SetCPU, SetMemory, GoalAt
<1>6. CASE Publish
  <2>1. Published \in [ready : BOOLEAN, initializing : BOOLEAN, goal : {"zero", "profile"}]
    BY DEF Published, GoalAt, Initializing
  <2>. QED  BY <1>6, <2>1 DEF Publish
<1>7. CASE Leave
  <2>1. (finished \/ Over(uptime)) \in BOOLEAN /\ TRUE \in BOOLEAN
    OBVIOUS
  <2>. QED  BY <1>7, <2>1 DEF Leave
<1>8. CASE SeeDone
  BY <1>8 DEF SeeDone
<1>9. CASE Drain
  <2>1. cancelled' \in BOOLEAN
    BY <1>9, Zenon DEF Drain
  <2>2. drained' \in 0 .. 2 /\ tokens' \in 0 .. 2
    BY <1>9 DEF Drain, Places, Draining
  <2>3. pc' \in PCs
    BY <1>9 DEF Drain
  <2>. QED  BY <1>9, <2>1, <2>2, <2>3 DEF Drain
<1>10. CASE Stop \/ Exit
  <2>1. stopped' \in BOOLEAN
    BY <1>10, Zenon DEF Stop, Exit
  <2>. QED  BY <1>10, <2>1 DEF Stop, Exit
<1>11. ASSUME NEW e \in Engines, EndEngine(e) PROVE TypeOK'
  <2>1. tokens + 1 \in 0 .. 2
    BY <1>11 DEF EndEngine, MessagesCounted, Left, Engines
  <2>. QED  BY <1>11, <2>1 DEF EndEngine
<1>12. CASE StartServer \/ Listen \/ ServeFailed \/ Shutdown \/ ShutdownEnd
  BY <1>12 DEF StartServer, Listen, ServeFailed, Shutdown, ShutdownEnd
<1>13. CASE Clock \/ Signal \/ SignalUnhandled \/ Request \/ Respond \/ AcceptFails
  <2>1. stopped' \in BOOLEAN /\ signalled' \in BOOLEAN
    BY <1>13, Zenon DEF Clock, Signal, SignalUnhandled, Request, Respond, AcceptFails
  <2>. QED  BY <1>13, <2>1 DEF Clock, Signal, SignalUnhandled, Request, Respond, AcceptFails
<1>14. CASE UNCHANGED vars
  BY <1>14 DEF vars
<1>. QED
  BY <1>1, <1>2, <1>3, <1>4, <1>5, <1>6, <1>7, <1>8, <1>9, <1>10, <1>11,
     <1>12, <1>13, <1>14 DEF Next, Loop, Server, Environment

(***************************************************************************)
(* The other parts.                                                        *)
(***************************************************************************)

\* What was not the time of an initialisation stays so.
LEMMA InitializingOver ==
  ASSUME TypeOK, NEW s \in Nat, NEW t \in Nat, s <= t, Initializing(t)
  PROVE  Initializing(s)
  BY OptsType DEF Initializing

\* While one iteration works with its own time, the clock goes on; the goals of
\* an iteration of the initialisation are zero.
LEMMA TimeStep == IInv /\ [Next]_vars => TimeBehind'
<1>. SUFFICES ASSUME IInv, [Next]_vars PROVE TimeBehind'
  OBVIOUS
<1>. USE DEF IInv, TimeBehind, runVars, endVars, engVars, srvVars, ctxVars
<1>1. now \in Nat /\ uptime \in Nat /\ uptime <= now
  BY DEF TypeOK
<1>2. CASE Observe
  <2>1. uptime' = now /\ UNCHANGED <<now, opts, goals>>
    BY <1>2 DEF Observe
  <2>2. Initializing(now) => Initializing(uptime)
    BY <1>1, InitializingOver
  <2>. QED  BY <1>1, <2>1, <2>2 DEF Initializing
<1>3. CASE SetCPU \/ SetMemory
  <2>1. UNCHANGED <<now, uptime, opts>>
    BY <1>3 DEF SetCPU, SetMemory
  <2>2. ASSUME Initializing(uptime) PROVE \A e \in Engines : goals'[e] = "zero"
    <3>1. GoalAt(uptime) = "zero"
      BY <2>2 DEF GoalAt
    <3>. QED  BY <1>3, <2>2, <3>1 DEF SetCPU, SetMemory, TypeOK
  <2>. QED  BY <2>1, <2>2 DEF Initializing
<1>4. CASE Clock
  BY <1>1, <1>4 DEF Clock, Initializing
<1>5. CASE UNCHANGED <<now, uptime, opts, goals>>
  BY <1>5 DEF Initializing
<1>6. CASE ~(Observe \/ SetCPU \/ SetMemory \/ Clock)
  <2>1. UNCHANGED <<now, uptime, opts, goals>>
    BY <1>6 DEF Next, Loop, Server, Environment, vars, Presets, Dispatch, PrintAndEnd,
      SpawnEngines, OpenGate, Publish, Leave, Stay, Wake, SeeDone, Drain, Stop,
      Exit, EndEngine, StartServer, Listen, ServeFailed, Shutdown,
      ShutdownEnd, Signal, SignalUnhandled, Request, Respond, AcceptFails
  <2>. QED  BY <1>5, <2>1
<1>. QED  BY <1>2, <1>3, <1>4, <1>6

\* An engine leaves its message when it ends, and no other way.
LEMMA CountStep == IInv /\ [Next]_vars => MessagesCounted'
<1>. SUFFICES ASSUME IInv, [Next]_vars PROVE MessagesCounted'
  OBVIOUS
<1>. USE DEF IInv, MessagesCounted, Left, runVars, endVars, engVars, srvVars, ctxVars
<1>1. tokens \in Nat /\ drained \in Nat
      /\ engine \in [Engines -> {"unborn", "running", "ended"}]
      /\ "cpu" \in Engines /\ "memory" \in Engines
  BY DEF TypeOK, Engines
<1>2. CASE SpawnEngines
  BY <1>1, <1>2 DEF SpawnEngines, Places, BeforeRun
<1>3. CASE Drain
  BY <1>1, <1>3 DEF Drain
<1>4. ASSUME NEW e \in Engines, EndEngine(e) PROVE MessagesCounted'
  <2>1. e = "cpu" \/ e = "memory"
    BY DEF Engines
  <2>. QED  BY <1>1, <1>4, <2>1 DEF EndEngine
<1>5. CASE ~(SpawnEngines \/ Drain \/ \E e \in Engines : EndEngine(e))
  <2>1. UNCHANGED engVars
    BY <1>5 DEF Next, Loop, Server, Environment, vars, Presets, Dispatch, PrintAndEnd,
      Observe, OpenGate, SetCPU, SetMemory, Publish, Leave, Stay, Wake,
      SeeDone, Stop, Exit, StartServer, Listen, ServeFailed, Shutdown,
      ShutdownEnd, Clock, Signal, SignalUnhandled, Request, Respond, AcceptFails
  <2>. QED  BY <2>1
<1>. QED  BY <1>2, <1>3, <1>4, <1>5

\* Where the main goroutine is tells what was started and what has ended.
LEMMA PlaceStep == IInv /\ [Next]_vars => Places'
<1>. SUFFICES ASSUME IInv, [Next]_vars PROVE Places'
  OBVIOUS
<1>. USE DEF IInv, Places, BeforeRun, InRun, Begun, Draining, Drained, Exited,
             Iteration, Done, runVars, endVars, engVars, srvVars, ctxVars
<1>1. CASE Presets \/ Dispatch
  BY <1>1 DEF Presets, Dispatch, PrintAndEnd
<1>2. CASE SpawnEngines
  BY <1>2 DEF SpawnEngines, TypeOK
<1>3. CASE Observe \/ OpenGate \/ Publish \/ Stay \/ Wake
  BY <1>3 DEF Observe, OpenGate, Publish, Stay, Wake
<1>4. CASE SetCPU \/ SetMemory
  BY <1>4 DEF SetCPU, SetMemory
<1>5. CASE Leave \/ SeeDone
  BY <1>5 DEF Leave, SeeDone
<1>6. CASE Drain
  BY <1>6 DEF Drain, TypeOK
<1>7. CASE Stop \/ Exit
  BY <1>7 DEF Stop, Exit
<1>8. ASSUME NEW e \in Engines, EndEngine(e) PROVE Places'
  BY <1>8 DEF EndEngine, TypeOK, PCs
<1>9. CASE Signal \/ SignalUnhandled
  BY <1>9 DEF Signal, SignalUnhandled
<1>10. CASE Clock \/ Request \/ Respond \/ AcceptFails \/ Server
  BY <1>10 DEF Clock, Request, Respond, AcceptFails, Server, StartServer, Listen, ServeFailed,
               Shutdown, ShutdownEnd
<1>11. CASE UNCHANGED vars
  BY <1>11 DEF vars
<1>. QED
  BY <1>1, <1>2, <1>3, <1>4, <1>5, <1>6, <1>7, <1>8, <1>9, <1>10, <1>11
     DEF Next, Loop, Environment

\* Until both messages were received, only a signal ends the context of cmdRun,
\* and only with that context does Shutdown close the listener.
LEMMA StoppedStep == IInv /\ [Next]_vars => Stopped'
<1>. SUFFICES ASSUME IInv, [Next]_vars PROVE Stopped'
  OBVIOUS
<1>. USE DEF IInv, Stopped, runVars, endVars, engVars, srvVars, ctxVars
<1>1. CASE Presets \/ Dispatch \/ SpawnEngines \/ Observe \/ OpenGate \/ Publish
  BY <1>1 DEF Presets, Dispatch, PrintAndEnd, SpawnEngines, Observe, OpenGate, Publish
<1>2. CASE Stay \/ Wake \/ SetCPU \/ SetMemory \/ Leave \/ SeeDone
  BY <1>2 DEF Stay, Wake, SetCPU, SetMemory, Leave, SeeDone
<1>3. CASE Drain
  BY <1>3 DEF Drain, Places, Draining
<1>4. CASE Stop \/ Exit
  BY <1>4 DEF Stop, Exit, Places, Drained
<1>5. ASSUME NEW e \in Engines, EndEngine(e) PROVE Stopped'
  BY <1>5 DEF EndEngine
<1>6. CASE Signal \/ SignalUnhandled \/ Clock \/ Request \/ Respond \/ AcceptFails
  BY <1>6 DEF Signal, SignalUnhandled, Clock, Request, Respond, AcceptFails
<1>7. CASE Server
  BY <1>7 DEF Server, StartServer, Listen, ServeFailed, Shutdown, ShutdownEnd
<1>8. CASE UNCHANGED vars
  BY <1>8 DEF vars
<1>. QED
  BY <1>1, <1>2, <1>3, <1>4, <1>5, <1>6, <1>7, <1>8 DEF Next, Loop, Environment

\* The gate never closes, so that what opened it holds for every later time.
LEMMA GateStays ==
  ASSUME TypeOK, NEW s \in Nat, NEW t \in Nat, s <= t, GateOpen(s)
  PROVE  GateOpen(t)
  BY OptsType DEF GateOpen, Initializing

\* Behind the gate, and behind each store of a goal, an iteration finds what it
\* stored: the goals and the snapshot are those of one moment.
LEMMA GateStep == IInv /\ [Next]_vars => GateTrue' /\ GatePassed' /\ GoalsSet' /\ SnapTrue'
<1>. DEFINE Gate == GateTrue /\ GatePassed /\ GoalsSet /\ SnapTrue
<1>. SUFFICES ASSUME IInv, [Next]_vars PROVE Gate'
  OBVIOUS
<1>. USE DEF IInv, GateTrue, GatePassed, GoalsSet, SnapTrue, runVars, endVars, engVars,
             srvVars, ctxVars
<1>1. CASE Observe
  <2>1. GateOpen(uptime) => GateOpen(now)
    BY GateStays DEF TypeOK, TimeBehind
  <2>. QED  BY <1>1, <2>1 DEF Observe, GateOpen, Initializing
<1>2. CASE OpenGate
  BY <1>2 DEF OpenGate, GateOpen, Initializing
<1>3. CASE SetCPU
  BY <1>3 DEF SetCPU, GateOpen, Initializing, GoalAt, Over, TypeOK, Engines
<1>4. CASE SetMemory
  BY <1>4 DEF SetMemory, GateOpen, Initializing, GoalAt, Over, TypeOK, Engines
<1>5. CASE Publish
  BY <1>5 DEF Publish, Published, GateOpen, Initializing, GoalAt, Over
<1>6. CASE UNCHANGED <<opts, uptime, ready, goals, snap>> /\ (pc' = pc \/ pc' \notin Iteration)
  BY <1>6 DEF GateOpen, Initializing, GoalAt, Over, Iteration
<1>7. CASE Stay \/ Wake
  BY <1>7 DEF Stay, Wake, GateOpen, Initializing, GoalAt, Over
<1>8. CASE SpawnEngines
  BY <1>8 DEF SpawnEngines, GateOpen, Initializing
<1>9. CASE Presets \/ Dispatch \/ Leave \/ SeeDone \/ Drain \/ Stop \/ Exit
  BY <1>6, <1>9 DEF Presets, Dispatch, PrintAndEnd, Leave, SeeDone, Drain, Stop, Exit,
                    Iteration
<1>10. CASE Server \/ Environment \/ UNCHANGED vars \/ \E e \in Engines : EndEngine(e)
  BY <1>6, <1>10 DEF Server, StartServer, Listen, ServeFailed, Shutdown, ShutdownEnd,
                     Environment, Clock, Signal, SignalUnhandled, Request, Respond, AcceptFails,
                     EndEngine, Iteration, vars
<1>. QED
  BY <1>1, <1>2, <1>3, <1>4, <1>5, <1>7, <1>8, <1>9, <1>10 DEF Next, Loop

\* Run returns for a reason that stays true, and the status that is logged is
\* the one of that reason.
LEMMA ReasonStep == IInv /\ [Next]_vars => ReasonKept' /\ EndsForAReason'
<1>. DEFINE Reasons == ReasonKept /\ EndsForAReason
<1>. SUFFICES ASSUME IInv, [Next]_vars PROVE Reasons'
  OBVIOUS
<1>. USE DEF IInv, ReasonKept, EndsForAReason, Refused, runVars, endVars, engVars,
             srvVars, ctxVars
<1>1. CASE Presets \/ Dispatch
  BY <1>1 DEF Presets, Dispatch, PrintAndEnd, Stopped, Places, BeforeRun, InRun
<1>2. CASE SpawnEngines
  BY <1>2 DEF SpawnEngines
<1>3. CASE Observe \/ OpenGate \/ SetCPU \/ SetMemory \/ Publish
  BY <1>3 DEF Observe, OpenGate, SetCPU, SetMemory, Publish
<1>4. CASE Leave
  <2>1. now \in Nat /\ uptime \in Nat /\ uptime <= now
    BY DEF TypeOK, TimeBehind
  <2>2. Over(uptime) => now >= opts.initDelay + opts.finishAfter
    BY <2>1, OptsType DEF Over
  <2>3. Timeout => opts.exitAfter > 0 /\ now >= opts.exitAfter
    BY <2>1, OptsType DEF Timeout
  <2>4. finished' <=> finished \/ Over(uptime)
    BY <1>4, Zenon DEF Leave
  <2>5. UNCHANGED <<now, opts, outcome, signalled, engine, server>>
        /\ runErr' = "nil" /\ pc' = "drain" /\ pc = "decide" /\ (Over(uptime) \/ Timeout)
    BY <1>4 DEF Leave
  <2>. QED  BY <2>2, <2>3, <2>4, <2>5
<1>5. CASE Stay \/ Wake
  BY <1>5 DEF Stay, Wake
<1>6. CASE SeeDone
  BY <1>6 DEF SeeDone, Done, Stopped, Places, InRun, Iteration
<1>7. CASE Drain \/ Stop
  BY <1>7 DEF Drain, Stop
<1>8. CASE Exit
  <2>1. runErr \in {"nil", "cancelled"}
    BY <1>8 DEF Exit, Places, Drained, TypeOK
  <2>. QED  BY <1>8, <2>1 DEF Exit
<1>9. ASSUME NEW e \in Engines, EndEngine(e) PROVE Reasons'
  BY <1>9 DEF EndEngine, TypeOK
<1>10. CASE Server
  BY <1>10 DEF Server, StartServer, Listen, ServeFailed, Shutdown, ShutdownEnd
<1>11. CASE Clock
  BY <1>11, OptsType DEF Clock, TypeOK
<1>12. CASE Signal \/ SignalUnhandled \/ Request \/ Respond \/ AcceptFails
  BY <1>12 DEF Signal, SignalUnhandled, Request, Respond, AcceptFails
<1>13. CASE UNCHANGED vars
  BY <1>13 DEF vars
<1>. QED
  BY <1>1, <1>2, <1>3, <1>4, <1>5, <1>6, <1>7, <1>8, <1>9, <1>10, <1>11, <1>12, <1>13
     DEF Next, Loop, Environment

LEMMA InvInit == Init => IInv
<1>. SUFFICES ASSUME Init PROVE IInv
  OBVIOUS
<1>. USE DEF Init
<1>1. TypeOK
  BY TypeInit
<1>2. TimeBehind /\ MessagesCounted
  BY DEF TimeBehind, MessagesCounted, Left, Engines
<1>3. Places /\ Stopped
  BY DEF Places, BeforeRun, InRun, Begun, Draining, Drained, Exited, Stopped, Iteration
<1>4. GateTrue /\ GatePassed /\ GoalsSet /\ SnapTrue
  BY DEF GateTrue, GatePassed, GoalsSet, SnapTrue
<1>5. ReasonKept /\ EndsForAReason
  BY DEF ReasonKept, EndsForAReason
<1>. QED  BY <1>1, <1>2, <1>3, <1>4, <1>5 DEF IInv

(***************************************************************************)
(* The properties of the runs.                                             *)
(***************************************************************************)

\* The invariant is inductive.
THEOREM Invariant == Spec => []IInv
<1>1. IInv /\ [Next]_vars => IInv'
  BY TypeStep, TimeStep, CountStep, PlaceStep, StoppedStep, GateStep, ReasonStep DEF IInv
<1>. QED  BY InvInit, <1>1, PTL DEF Spec

\* Nothing loads the container before its initialisation is over, for every
\* delay (runner.go:110-129): the clock is ahead of the iteration, never behind.
THEOREM InitWithoutLoad == Spec => []Inv
<1>1. ASSUME IInv, Initializing(now) PROVE Initializing(uptime)
  <2>1. now \in Nat /\ uptime \in Nat /\ uptime <= now
    BY <1>1 DEF IInv, TypeOK, TimeBehind
  <2>. QED  BY <1>1, <2>1, InitializingOver DEF IInv
<1>2. IInv => Inv
  BY <1>1 DEF IInv, TimeBehind, Inv, NoLoadDuringInit
<1>. QED  BY Invariant, <1>2, PTL

\* For all delays a ready process is past both of them, and gate, snapshot and
\* goals agree whenever the loop rests.
THEOREM ReadinessCorrect == Spec => []ReadinessHonest
<1>1. IInv => ReadinessHonest
  <2>. SUFFICES ASSUME IInv PROVE ReadinessHonest
    OBVIOUS
  <2>. USE DEF IInv
  <2>1. now \in Nat /\ uptime \in Nat /\ uptime <= now
    BY DEF TypeOK, TimeBehind
  <2>2. ready => GateOpen(now)
    BY <2>1, GateStays DEF GateTrue
  <2>3. pc = "select" => (ready <=> GateOpen(uptime))
    BY DEF GateTrue, GatePassed
  <2>4. pc \in {"decide", "select"} => \A e \in Engines : goals[e] = snap.goal
    BY DEF GoalsSet, Engines
  <2>. QED  BY <2>2, <2>3, <2>4 DEF ReadinessHonest, GateOpen, SnapTrue
<1>. QED  BY Invariant, <1>1, PTL

\* When Run has returned both engines have ended, their messages are received,
\* and the endpoints have answered until then unless a signal came.
THEOREM OrderlyEndCorrect == Spec => []OrderlyEnd
<1>1. IInv => OrderlyEnd
  <2>. SUFFICES ASSUME IInv PROVE OrderlyEnd
    OBVIOUS
  <2>. USE DEF IInv
  <2>1. drained = 2 => tokens = 0 /\ \A e \in Engines : engine[e] = "ended"
    BY DEF MessagesCounted, Left, Engines, TypeOK
  <2>2. (\A e \in Engines : engine[e] = "unborn") /\ drained = 0 => tokens = 0
    BY DEF MessagesCounted, Left, Engines, TypeOK
  <2>3. pc \in {"returned", "await", "exited"} =>
          (\A e \in Engines : engine[e] # "running") /\ tokens = 0
    BY <2>1, <2>2 DEF Places, Drained, Exited
  <2>4. listener = "closed" /\ ~signalled => \A e \in Engines : engine[e] = "ended"
    BY <2>1 DEF Stopped
  <2>. QED  BY <2>3, <2>4 DEF OrderlyEnd
<1>. QED  BY Invariant, <1>1, PTL

\* A process ends for the reason it logs, with nothing started if it refuses.
THEOREM EndCorrect == Spec => []EndsForAReason
<1>1. IInv => EndsForAReason
  BY DEF IInv
<1>. QED  BY Invariant, <1>1, PTL

(***************************************************************************)
(* The process implements Lifecycle.                                       *)
(***************************************************************************)

\* The phase of Lifecycle, case by case.
LEMMA PhaseIs ==
  /\ (pc = "exited" /\ runErr # "none") => phase = "gone"
  /\ ~(pc = "exited" /\ runErr # "none") /\ Done => phase = "draining"
  /\ ~(pc = "exited" /\ runErr # "none") /\ ~Done /\ Initializing(uptime)
       => phase = "init"
  /\ ~(pc = "exited" /\ runErr # "none") /\ ~Done /\ ~Initializing(uptime)
       => phase = "running"
  BY DEF phase

\* A step that changes nothing of what Lifecycle sees.
LEMMA Unseen ==
  ASSUME UNCHANGED <<runErr, opts, uptime, ready, goals, engine>>, Done' = Done,
         (pc = "exited" <=> pc' = "exited") \/ runErr = "none"
  PROVE  UNCHANGED L!vars
  BY DEF L!vars, phase, load, Initializing

\* Every step of the process is one of Lifecycle or does not show there: the
\* load moves only behind the initialisation, because an iteration of the
\* initialisation stores zero (TimeBehind); and what is gone has no load,
\* because both engines have ended (Exited).
LEMMA LifecycleStep == IInv /\ [Next]_vars => [L!Next]_(L!vars)
<1>. SUFFICES ASSUME IInv, [Next]_vars PROVE [L!Next]_(L!vars)
  OBVIOUS
<1>. USE DEF IInv, runVars, endVars, engVars, srvVars, ctxVars
<1>1. CASE Presets \/ Dispatch \/ Publish \/ Stay \/ Wake
  <2>1. runErr = "none"
    BY <1>1 DEF Presets, Dispatch, Publish, Stay, Wake, Places, InRun, Iteration
  <2>. QED  BY <1>1, <2>1, Unseen DEF Presets, Dispatch, PrintAndEnd, Publish, Stay, Wake, Done
<1>2. CASE SpawnEngines
  <2>1. load' = load
    BY <1>2 DEF SpawnEngines, load, Places, BeforeRun
  <2>2. phase' = phase /\ ready' = ready
    BY <1>2 DEF SpawnEngines, phase, Done, Initializing
  <2>. QED  BY <2>1, <2>2 DEF L!vars
<1>3. CASE Observe
  <2>1. Initializing(now) => Initializing(uptime)
    BY InitializingOver DEF TypeOK, TimeBehind
  <2>2. load' = load /\ ready' = ready
    BY <1>3 DEF Observe, load
  <2>3. phase' = phase \/ (phase = "init" /\ phase' = "running")
    BY <1>3, <2>1 DEF Observe, phase, Done, Initializing
  <2>. QED  BY <2>2, <2>3 DEF L!vars, L!Next, L!Start
<1>4. CASE OpenGate
  <2>1. phase' = phase /\ load' = load
    BY <1>4 DEF OpenGate, phase, load, Done, Initializing
  <2>2. CASE ready' = ready
    BY <2>1, <2>2 DEF L!vars
  <2>3. CASE ready' # ready
    <3>1. ~ready /\ ready' = TRUE /\ GateOpen(uptime)
      BY <1>4, <2>3 DEF OpenGate, TypeOK
    <3>2. phase \in {"running", "draining"}
      BY <1>4, <3>1, PhaseIs DEF OpenGate, GateOpen
    <3>. QED  BY <2>1, <3>1, <3>2 DEF L!Next, L!BecomeReady
  <2>. QED  BY <2>2, <2>3
<1>5. CASE SetCPU \/ SetMemory
  <2>1. phase' = phase /\ ready' = ready
    BY <1>5 DEF SetCPU, SetMemory, phase, Done, Initializing
  <2>2. CASE phase \in {"running", "draining"}
    <3>1. load' \in BOOLEAN
      BY DEF load
    <3>. QED  BY <2>1, <2>2, <3>1 DEF L!Next, L!SetLoad
  <2>3. CASE phase \notin {"running", "draining"}
    <3>1. Initializing(uptime)
      BY <1>5, <2>3, PhaseIs DEF SetCPU, SetMemory
    <3>2. \A e \in Engines : goals[e] = "zero" /\ goals'[e] = "zero"
      BY <1>5, <3>1 DEF SetCPU, SetMemory, TimeBehind, GoalAt, TypeOK
    <3>3. load' = load
      BY <3>2 DEF load
    <3>. QED  BY <2>1, <3>3 DEF L!vars
  <2>. QED  BY <2>2, <2>3
<1>6. CASE Leave
  <2>1. load' = load /\ ready' = ready
    BY <1>6 DEF Leave, load
  <2>2. phase \in {"init", "running", "draining"} /\ phase' = "draining"
    BY <1>6 DEF Leave, phase, Done
  <2>. QED  BY <2>1, <2>2 DEF L!vars, L!Next, L!Announce
<1>7. CASE SeeDone \/ Drain \/ Stop
  <2>1. load' = load /\ ready' = ready
    BY <1>7 DEF SeeDone, Drain, Stop, load
  <2>2. phase = "draining" /\ phase' = "draining"
    BY <1>7 DEF SeeDone, Drain, Stop, phase, Done, Places, Draining, Drained
  <2>. QED  BY <2>1, <2>2 DEF L!vars
<1>8. CASE Exit \/ (SignalUnhandled /\ pc = "await")
  <2>1. load' = load /\ ready' = ready
    BY <1>8 DEF Exit, SignalUnhandled, load
  <2>2. phase = "draining" /\ phase' = "gone"
    BY <1>8 DEF Exit, SignalUnhandled, phase, Done, Places, Drained
  <2>3. \A e \in Engines : engine[e] = "ended"
    BY <1>8 DEF Exit, SignalUnhandled, Places, Drained, MessagesCounted, Left, Engines, TypeOK
  <2>4. ~load
    BY <2>3 DEF load
  <2>. QED  BY <2>1, <2>2, <2>4 DEF L!Next, L!Leave
<1>9. CASE SignalUnhandled /\ pc = "dispatch"
  <2>1. runErr = "none"
    BY <1>9 DEF Places, InRun
  <2>. QED  BY <1>9, <2>1, Unseen DEF SignalUnhandled, Done
<1>10. ASSUME NEW e \in Engines, EndEngine(e) PROVE [L!Next]_(L!vars)
  <2>1. phase' = phase /\ ready' = ready
    BY <1>10 DEF EndEngine, phase, Done, Initializing
  <2>2. ~(pc = "exited" /\ runErr # "none")
    BY <1>10 DEF EndEngine, Places, Exited, MessagesCounted, Left, Engines, TypeOK
  <2>3. phase = "draining"
    BY <1>10, <2>2, PhaseIs DEF EndEngine
  <2>4. load' \in BOOLEAN
    BY DEF load
  <2>. QED  BY <2>1, <2>3, <2>4 DEF L!Next, L!SetLoad
<1>11. CASE Signal
  <2>1. load' = load /\ ready' = ready
    BY <1>11 DEF Signal, load
  <2>2. phase \in {"init", "running", "draining"} /\ phase' = "draining"
    BY <1>11 DEF Signal, phase, Done
  <2>. QED  BY <2>1, <2>2 DEF L!vars, L!Next, L!Announce
<1>12. CASE Clock \/ Request \/ Respond \/ AcceptFails \/ Server \/ UNCHANGED vars
  BY <1>12, Unseen DEF Clock, Request, Respond, AcceptFails, Server, StartServer, Listen, ServeFailed,
                       Shutdown, ShutdownEnd, vars, Done
<1>. QED
  BY <1>1, <1>2, <1>3, <1>4, <1>5, <1>6, <1>7, <1>8, <1>9, <1>10, <1>11, <1>12
     DEF Next, Loop, Environment, SignalUnhandled

\* The process implements the safety part of Lifecycle, for every configuration:
\* it initialises without load, is ready only after that, and is gone only when
\* the load is off. That it ends stays with TLC.
THEOREM LifecycleCorrect == Spec => LivesAsPromised
<1>1. Init => L!Init
  BY DEF Init, L!Init, phase, load, Done, Initializing, Engines
<1>. QED  BY Invariant, <1>1, LifecycleStep, PTL DEF Spec, LivesAsPromised
=============================================================================
