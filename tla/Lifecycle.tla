----------------------------- MODULE Lifecycle -----------------------------
(***************************************************************************)
(* What a LoadSim process promises to the platform that runs it: it first  *)
(* initialises without load, becomes ready only after that, generates load *)
(* until it is told to end or its profile is over, takes the load off, and *)
(* only then is gone. Runner implements it.                                *)
(***************************************************************************)
VARIABLES
  phase,  \* "init", "running", "draining" or "gone"
  load,   \* whether the engines are asked for load
  ready   \* what the readiness probe answers

vars == <<phase, load, ready>>

\* Without a configured initialisation the process is running at once.
Init == phase \in {"init", "running"} /\ load = FALSE /\ ready = FALSE

Start ==
  /\ phase = "init"
  /\ phase' = "running"
  /\ UNCHANGED <<load, ready>>

\* The gate opens while running, or in the iteration that notices the end.
BecomeReady ==
  /\ phase \in {"running", "draining"}
  /\ ~ready /\ ready' = TRUE
  /\ UNCHANGED <<phase, load>>

\* The profile moves the load. An iteration under way when the end is
\* announced may still do so.
SetLoad ==
  /\ phase \in {"running", "draining"}
  /\ load' \in BOOLEAN
  /\ UNCHANGED <<phase, ready>>

\* The end may be announced at any time, and even before the load has begun.
Announce ==
  /\ phase \in {"init", "running"}
  /\ phase' = "draining"
  /\ UNCHANGED <<load, ready>>

Leave ==
  /\ phase = "draining"
  /\ ~load
  /\ phase' = "gone"
  /\ UNCHANGED <<load, ready>>

Next == Start \/ BecomeReady \/ SetLoad \/ Announce \/ Leave

\* A process that was told to end does end.
Ends == (phase = "draining") ~> (phase = "gone")

Spec == Init /\ [][Next]_vars /\ Ends
=============================================================================
