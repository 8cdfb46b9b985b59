------------------------------- MODULE Runner -------------------------------
(***************************************************************************)
(* The life of a LoadSim process: the main goroutine (cmd/loadsim/main.go, *)
(* run and cmdRun), the control loop it enters (internal/runner/runner.go, *)
(* Run), the two engine goroutines and the HTTP server                     *)
(* (internal/server/server.go).                                            *)
(*                                                                         *)
(* The engines appear as goroutines that end some time after their context *)
(* does; CpuEngine and MemEngine model what they do in between. A target   *)
(* is zero or what the profile asks for. Time is counted in ticks.         *)
(***************************************************************************)
EXTENDS Integers

CONSTANTS
  Configs,      \* configurations of a process: see ConfigAssumption
  MaxTime,      \* bound: the clock stops here
  MaxInFlight   \* bound: concurrent HTTP requests

\* startup.ready_delay, startup.init_delay, exit_after (0 = never), the length
\* of a profile that ends because hold_last is false (0 = it does not), and
\* whether the HTTP server is not disabled; the command, and what is wrong with
\* its command line: flags that do not parse (-h is one, for flag.ErrHelp), an
\* argument too many, a configuration that Load() or Compile() refuses, a
\* --window that is no duration, "presets show" without the name of a preset.
Faults == {"flags", "argument", "config", "window", "preset"}

\* The faults a command looks for; "other" is any other word.
Loading == {"flags", "argument", "config"}
FaultsOf == [run |-> Loading, plan |-> Loading \cup {"window"}, config |-> Loading,
             presets |-> {"preset"}, version |-> {}, help |-> {}, other |-> Faults]

ASSUME ConfigAssumption ==
  Configs \subseteq [readyDelay : Nat, initDelay : Nat, exitAfter : Nat,
                     finishAfter : Nat, serverOn : BOOLEAN,
                     command : DOMAIN FaultsOf, faults : SUBSET Faults]
ASSUME TimeAssumption == MaxTime \in Nat /\ MaxInFlight \in Nat

Engines == {"cpu", "memory"}

VARIABLES
  now,        \* ticks since startedAt
  opts,       \* the configuration, fixed
  pc,         \* where the main goroutine is, inside cmdRun and Run
  uptime,     \* Run's local: the time of this iteration
  ready,      \* Runner.ready
  finished,   \* Runner.finished
  goals,      \* the targets stored in the two engines: "zero" or "profile"
  snap,       \* Runner.snap, the published Snapshot
  runErr,     \* what Run returned: "none" so far, "nil" or "cancelled"
  cancelled,  \* the context of Run, derived from ctx, was cancelled by Run
  stopped,    \* ctx of cmdRun is done: a signal, or stop()
  signalled,  \* history: a signal was received
  engine,     \* the engine goroutines: "unborn", "running" or "ended"
  tokens,     \* messages in the channel "engines"
  drained,    \* messages received from it
  server,     \* the goroutine of Server.Run
  listener,   \* the goroutine of ListenAndServe
  srvErr,     \* the channel srvErr: "empty", "nil" or "error"
  inFlight,   \* HTTP requests being served
  outcome     \* how the process ended

runVars == <<opts, uptime, ready, finished, goals, snap>>
endVars == <<runErr, outcome>>
engVars == <<engine, tokens, drained>>
srvVars == <<server, listener, srvErr, inFlight>>
ctxVars == <<cancelled, stopped, signalled>>
vars == <<now, pc, runVars, endVars, ctxVars, engVars, srvVars>>

\* The context of Run, and of the engines.
Done == cancelled \/ stopped

Initializing(t) == t < opts.initDelay

\* Eval(): a profile that ends has run out of phases.
Over(t) == opts.finishAfter > 0 /\ t - opts.initDelay >= opts.finishAfter

GoalAt(t) == IF Initializing(t) \/ Over(t) THEN "zero" ELSE "profile"

PCs == {"dispatch", "spawn", "observe", "gate", "setCPU", "setMemory", "publish", "decide",
        "select", "drain", "returned", "await", "exited"}

-----------------------------------------------------------------------------
Init ==
  /\ opts \in Configs
  /\ now = 0 /\ pc = "dispatch" /\ uptime = 0 /\ ready = FALSE /\ finished = FALSE
  /\ goals = [e \in Engines |-> "zero"]
  /\ snap = [ready |-> FALSE, initializing |-> FALSE, goal |-> "zero"]
  /\ runErr = "none" /\ outcome = "none"
  /\ cancelled = FALSE /\ stopped = FALSE /\ signalled = FALSE
  /\ engine = [e \in Engines |-> "unborn"] /\ tokens = 0 /\ drained = 0
  /\ server = "unborn" /\ listener = "unborn" /\ srvErr = "empty"
  /\ inFlight = 0

(***************************************************************************)
(* run: the command, before anything is started.                           *)
(***************************************************************************)

Refused == opts.command = "other" \/ opts.faults \cap FaultsOf[opts.command] # {}

\* A command that is not to run prints something and ends, with status 0 unless
\* it is refused.
PrintAndEnd ==
  /\ pc' = "exited"
  /\ outcome' = IF Refused THEN "refused" ELSE "printed"

\* cmdPresets: the list of the presets, or one of them by name.
Presets ==
  /\ pc = "dispatch"
  /\ opts.command = "presets"
  /\ PrintAndEnd
  /\ UNCHANGED <<now, runVars, runErr, ctxVars, engVars, srvVars>>

\* cmdRun asks for signals and starts the clock.
Dispatch ==
  /\ pc = "dispatch"
  /\ opts.command # "presets"
  /\ IF opts.command = "run" /\ ~Refused
     THEN pc' = "spawn" /\ UNCHANGED outcome
     ELSE PrintAndEnd
  /\ UNCHANGED <<now, runVars, runErr, ctxVars, engVars, srvVars>>

(***************************************************************************)
(* Run: one iteration of the loop.                                         *)
(***************************************************************************)

\* The two go statements.
SpawnEngines ==
  /\ pc = "spawn"
  /\ engine' = [e \in Engines |-> "running"]
  /\ pc' = "observe"
  /\ UNCHANGED <<now, runVars, endVars, ctxVars, tokens, drained, srvVars>>

\* now := time.Now(), used for the whole iteration.
Observe ==
  /\ pc = "observe"
  /\ uptime' = now
  /\ pc' = "gate"
  /\ UNCHANGED <<now, opts, ready, finished, goals, snap, endVars, ctxVars,
                 engVars, srvVars>>

GateOpenUngated(t) == t >= opts.readyDelay   \* mutant: initializing ignored
GateOpen(t) == t >= opts.readyDelay /\ ~Initializing(t)

OpenGate ==
  /\ pc = "gate"
  /\ ready' = (ready \/ GateOpen(uptime))
  /\ pc' = "setCPU"
  /\ UNCHANGED <<now, opts, uptime, finished, goals, snap, endVars, ctxVars,
                 engVars, srvVars>>

SetCPUUninitialized ==                  \* mutant: not zeroed during the init
  /\ pc = "setCPU"
  /\ goals' = [goals EXCEPT !["cpu"] = IF Over(uptime) THEN "zero" ELSE "profile"]
  /\ pc' = "setMemory"
  /\ UNCHANGED <<now, opts, uptime, ready, finished, snap, endVars, ctxVars,
                 engVars, srvVars>>

SetCPU ==
  /\ pc = "setCPU"
  /\ goals' = [goals EXCEPT !["cpu"] = GoalAt(uptime)]
  /\ pc' = "setMemory"
  /\ UNCHANGED <<now, opts, uptime, ready, finished, snap, endVars, ctxVars,
                 engVars, srvVars>>

SetMemory ==
  /\ pc = "setMemory"
  /\ goals' = [goals EXCEPT !["memory"] = GoalAt(uptime)]
  /\ pc' = "publish"
  /\ UNCHANGED <<now, opts, uptime, ready, finished, snap, endVars, ctxVars,
                 engVars, srvVars>>

\* publish() swaps the pointer to the whole snapshot.
Published ==
  [ready |-> ready, initializing |-> Initializing(uptime), goal |-> GoalAt(uptime)]

Publish ==
  /\ pc = "publish"
  /\ snap' = Published
  /\ pc' = "decide"
  /\ UNCHANGED <<now, opts, uptime, ready, finished, goals, endVars, ctxVars,
                 engVars, srvVars>>

\* The profile is over, or exit_after has elapsed: Run cancels its own context.
TimeoutAlways == uptime >= opts.exitAfter    \* mutant: 0 does not mean never
Timeout == opts.exitAfter > 0 /\ uptime >= opts.exitAfter

Leave ==
  /\ pc = "decide"
  /\ Over(uptime) \/ Timeout
  /\ finished' = (finished \/ Over(uptime))
  /\ cancelled' = TRUE
  /\ runErr' = "nil"
  /\ pc' = "drain"
  /\ UNCHANGED <<now, opts, uptime, ready, goals, snap, outcome, stopped,
                 signalled, engVars, srvVars>>

Stay ==
  /\ pc = "decide"
  /\ ~(Over(uptime) \/ Timeout)
  /\ pc' = "select"
  /\ UNCHANGED <<now, runVars, endVars, ctxVars, engVars, srvVars>>

\* case <-tick.C or case <-logTick: the loop begins anew.
Wake ==
  /\ pc = "select"
  /\ pc' = "observe"
  /\ UNCHANGED <<now, runVars, endVars, ctxVars, engVars, srvVars>>

\* case <-ctx.Done()
SeeDone ==
  /\ pc = "select"
  /\ Done
  /\ runErr' = "cancelled"
  /\ pc' = "drain"
  /\ UNCHANGED <<now, runVars, outcome, ctxVars, engVars, srvVars>>

\* <-engines, twice; then Run returns and its deferred cancel() runs.
DrainAny ==                             \* mutant: waits for one engine only
  /\ pc = "drain"
  /\ tokens > 0
  /\ tokens' = tokens - 1
  /\ drained' = drained + 1
  /\ cancelled' = TRUE
  /\ pc' = "returned"
  /\ UNCHANGED <<now, runVars, endVars, stopped, signalled, engine, srvVars>>

Drain ==
  /\ pc = "drain"
  /\ tokens > 0
  /\ tokens' = tokens - 1
  /\ drained' = drained + 1
  /\ IF drained = 1
     THEN pc' = "returned" /\ cancelled' = TRUE
     ELSE UNCHANGED <<pc, cancelled>>
  /\ UNCHANGED <<now, runVars, endVars, stopped, signalled, engine, srvVars>>

(***************************************************************************)
(* cmdRun: the end of the process.                                         *)
(***************************************************************************)

\* stop() ends the context of the server as well.
StopEarly ==                            \* mutant: stop() before Run returns
  /\ pc \in {"drain", "returned"}
  /\ stopped' = TRUE
  /\ pc' = IF pc = "returned" THEN "await" ELSE pc
  /\ UNCHANGED <<now, runVars, endVars, cancelled, signalled, engVars,
                 srvVars>>

Stop ==
  /\ pc = "returned"
  /\ stopped' = TRUE
  /\ pc' = "await"
  /\ UNCHANGED <<now, runVars, endVars, cancelled, signalled, engVars,
                 srvVars>>

\* <-srvErr, the final status line and the return of cmdRun.
Exit ==
  /\ pc = "await"
  /\ srvErr # "empty"
  /\ outcome' = IF runErr = "cancelled" THEN "signal" ELSE "stopped"
  /\ pc' = "exited"
  /\ UNCHANGED <<now, runVars, runErr, ctxVars, engVars, srvVars>>

(***************************************************************************)
(* The engine goroutines.                                                  *)
(***************************************************************************)

\* engine.Run(ctx) returns and engines <- struct{}{} (a buffer of two).
EndEngine(e) ==
  /\ engine[e] = "running"
  /\ Done
  /\ engine' = [engine EXCEPT ![e] = "ended"]
  /\ tokens' = tokens + 1
  /\ UNCHANGED <<now, pc, runVars, endVars, ctxVars, drained, srvVars>>

(***************************************************************************)
(* Server.Run and the HTTP server.                                         *)
(***************************************************************************)

StartServer ==
  /\ server = "unborn" /\ pc # "dispatch" /\ pc # "exited"
  /\ server' = "waiting"
  /\ listener' = IF opts.serverOn THEN "starting" ELSE "off"
  /\ UNCHANGED <<now, pc, runVars, endVars, ctxVars, engVars, srvErr,
                 inFlight>>

\* ListenAndServe binds its address, or fails and reports to errc ...
Listen ==
  /\ listener = "starting"
  /\ listener' \in {"serving", "failed"}
  /\ UNCHANGED <<now, pc, runVars, endVars, ctxVars, engVars, server, srvErr,
                 inFlight>>

\* ... which it can also do when it has served for a while.
AcceptFails ==
  /\ listener = "serving" /\ pc # "exited"
  /\ listener' = "failed"
  /\ UNCHANGED <<now, pc, runVars, endVars, ctxVars, engVars, server, srvErr,
                 inFlight>>

\* case err := <-errc
ServeFailed ==
  /\ server = "waiting"
  /\ listener = "failed"
  /\ server' = "ended" /\ srvErr' = "error"
  /\ UNCHANGED <<now, pc, runVars, endVars, ctxVars, engVars, listener,
                 inFlight>>

\* case <-ctx.Done(): Shutdown closes the listener ...
Shutdown ==
  /\ server = "waiting"
  /\ stopped
  /\ IF opts.serverOn
     THEN server' = "closing" /\ listener' = "closed" /\ UNCHANGED srvErr
     ELSE server' = "ended" /\ srvErr' = "nil" /\ UNCHANGED listener
  /\ UNCHANGED <<now, pc, runVars, endVars, ctxVars, engVars, inFlight>>

\* ... and waits for the requests being served, for three seconds.
ShutdownUnlimited ==                    \* mutant: no timeout
  /\ server = "closing"
  /\ inFlight = 0
  /\ server' = "ended"
  /\ srvErr' = "nil"
  /\ UNCHANGED <<now, pc, runVars, endVars, ctxVars, engVars, listener,
                 inFlight>>

ShutdownEnd ==
  /\ server = "closing"
  /\ server' = "ended"
  /\ srvErr' = IF inFlight = 0 THEN "nil" ELSE "error"
  /\ UNCHANGED <<now, pc, runVars, endVars, ctxVars, engVars, listener,
                 inFlight>>

(***************************************************************************)
(* The environment: time, signals and HTTP clients.                        *)
(***************************************************************************)

Clock ==
  /\ now < MaxTime /\ pc # "dispatch"
  /\ now' = now + 1
  /\ UNCHANGED <<pc, runVars, endVars, ctxVars, engVars, srvVars>>

\* SIGINT or SIGTERM, until stop(): further ones change nothing.
Signal ==
  /\ ~stopped /\ pc \notin {"dispatch", "exited"}
  /\ stopped' = TRUE /\ signalled' = TRUE
  /\ UNCHANGED <<now, pc, runVars, endVars, cancelled, engVars, srvVars>>

\* Before NotifyContext and after stop() a signal has its default effect.
SignalUnhandled ==
  /\ pc \in {"dispatch", "await"}
  /\ pc' = "exited" /\ outcome' = "killed"
  /\ signalled' = TRUE
  /\ UNCHANGED <<now, runVars, runErr, cancelled, stopped, engVars, srvVars>>

Request ==
  /\ listener = "serving" /\ pc # "exited"
  /\ inFlight < MaxInFlight
  /\ inFlight' = inFlight + 1
  /\ UNCHANGED <<now, pc, runVars, endVars, ctxVars, engVars, server, listener,
                 srvErr>>

Respond ==
  /\ inFlight > 0
  /\ inFlight' = inFlight - 1
  /\ UNCHANGED <<now, pc, runVars, endVars, ctxVars, engVars, server, listener,
                 srvErr>>

-----------------------------------------------------------------------------
Loop == \/ Presets \/ Dispatch \/ SpawnEngines \/ Observe \/ OpenGate \/ SetCPU \/ SetMemory
        \/ Publish \/ Leave \/ Stay \/ Wake \/ Drain \/ Stop \/ Exit

Server == StartServer \/ Listen \/ ServeFailed \/ Shutdown \/ ShutdownEnd

Environment == \/ Clock \/ Signal \/ SignalUnhandled
               \/ Request \/ Respond \/ AcceptFails

Next == \/ Loop \/ SeeDone \/ Server \/ Environment
        \/ \E e \in Engines : EndEngine(e)

\* Goroutines are scheduled and time passes; an engine ends once its context
\* has (MemEngine!EventuallyDrained, CpuEngine!Returns); a select picks among
\* its ready cases at random. Clients need not ever finish a request.
Fairness == /\ WF_vars(Loop) /\ SF_vars(SeeDone)
            /\ \A e \in Engines : WF_vars(EndEngine(e))
            /\ WF_vars(Server) /\ WF_vars(Clock)

Spec == Init /\ [][Next]_vars /\ Fairness

-----------------------------------------------------------------------------
(***************************************************************************)
(* Safety.                                                                 *)
(***************************************************************************)

TypeOK ==
  /\ opts \in Configs
  /\ now \in 0 .. MaxTime /\ uptime \in 0 .. MaxTime /\ pc \in PCs
  /\ ready \in BOOLEAN /\ finished \in BOOLEAN
  /\ goals \in [Engines -> {"zero", "profile"}]
  /\ snap \in [ready : BOOLEAN, initializing : BOOLEAN, goal : {"zero", "profile"}]
  /\ runErr \in {"none", "nil", "cancelled"}
  /\ outcome \in {"none", "refused", "printed", "signal", "stopped", "killed"}
  /\ cancelled \in BOOLEAN /\ stopped \in BOOLEAN /\ signalled \in BOOLEAN
  /\ engine \in [Engines -> {"unborn", "running", "ended"}]
  /\ tokens \in 0 .. 2 /\ drained \in 0 .. 2
  /\ server \in {"unborn", "waiting", "closing", "ended"}
  /\ listener \in {"unborn", "off", "starting", "serving", "failed", "closed"}
  /\ srvErr \in {"empty", "nil", "error"} /\ inFlight \in 0 .. MaxInFlight

\* While the simulated initialisation lasts no engine is asked for any load,
\* although each iteration works with a time that is already past
\* (runner.go:110-129).
NoLoadDuringInit == Initializing(now) => \A e \in Engines : goals[e] = "zero"

\* The variables are of their types, and nothing loads the container before
\* its initialisation is over (runner.go:110-129).
Inv == TypeOK /\ NoLoadDuringInit

\* A probe that finds the process ready finds it initialised too, and it finds
\* it ready after the first iteration past both delays (the gate waits for the
\* initialisation as well as for ready_delay). The status, the metrics and
\* /readyz agree: what a snapshot says of readiness is true of the gate, and of
\* the same moment as its other fields.
ReadinessHonest ==
  /\ ready => now >= opts.readyDelay /\ ~Initializing(now)
  /\ pc = "select" => (ready <=> uptime >= opts.readyDelay /\ ~Initializing(uptime))
  /\ snap.ready => ready
  /\ snap.initializing => ~snap.ready
  /\ snap.goal = "profile" => ~snap.initializing
  /\ pc \in {"decide", "select"} => \A e \in Engines : goals[e] = snap.goal

\* Run has returned, and with it the process, only when both engines have
\* ended and none can have left a message behind; and the endpoints answer
\* until then, unless a signal or a failure of the server ended them: a Job that
\* finishes can be scraped while it drains.
OrderlyEnd ==
  /\ pc \in {"returned", "await", "exited"} =>
       (\A e \in Engines : engine[e] # "running") /\ tokens = 0
  /\ listener = "closed" /\ ~signalled => \A e \in Engines : engine[e] = "ended"

\* The process only ends for a reason, and logs the right one; and it ends
\* with status 1, or prints instead of running, only if nothing was ever
\* started: once a run has begun a failure, of the server for instance, no
\* longer reaches the status (main.go:43-48, main.go:112-125, main.go:193-205).
EndsForAReason ==
  /\ outcome \in {"refused", "printed"} =>
       (\A e \in Engines : engine[e] = "unborn") /\ server = "unborn"
  /\ outcome \in {"signal", "stopped"} => opts.command = "run" /\ ~Refused
  /\ outcome \in {"signal", "killed"} => signalled
  /\ outcome = "stopped" => \/ finished /\ now >= opts.initDelay + opts.finishAfter
                            \/ opts.exitAfter > 0 /\ now >= opts.exitAfter

(***************************************************************************)
(* Liveness.                                                               *)
(***************************************************************************)

\* A signal, exit_after or the end of the profile ends the process, even if a
\* client never finishes its request or the server has failed; and every
\* command but run ends by itself.
Exits == (\/ signalled \/ opts.exitAfter > 0 \/ opts.finishAfter > 0
          \/ opts.command # "run") ~> (pc = "exited")

(***************************************************************************)
(* The process implements Lifecycle.                                       *)
(***************************************************************************)

phase == IF pc = "exited" /\ runErr # "none" THEN "gone"
         ELSE IF Done THEN "draining"
         ELSE IF Initializing(uptime) THEN "init" ELSE "running"

load == \E e \in Engines : engine[e] = "running" /\ goals[e] = "profile"

L == INSTANCE Lifecycle WITH phase <- phase, load <- load, ready <- ready

\* Every step of the process is a step of the promise of Lifecycle, or one
\* that does not show: load only while running, gone only without load, and
\* an end for whoever was told to end.
ImplementsLifecycle == L!Spec

\* The part of it that is proved.
LivesAsPromised == L!Init /\ [][L!Next]_(L!vars)
=============================================================================
