----------------------------- MODULE MC_Runner -----------------------------
(***************************************************************************)
(* The configurations of a process for TLC.                                *)
(***************************************************************************)
EXTENDS Runner

Config(gate, init, exit, finish, http) ==
  [readyDelay |-> gate, initDelay |-> init, exitAfter |-> exit,
   finishAfter |-> finish, serverOn |-> http, command |-> "run", faults |-> {}]

Command(command, faults) ==
  [Config(0, 0, 0, 0, TRUE) EXCEPT !.command = command, !.faults = faults]

\* A Job that is ready after its initialisation, a service that would be ready
\* before it and ends by exit_after without a server, a Job with both ends, and
\* a service that only a signal ends, run with a --window, which it ignores;
\* and every command with nothing or with one thing wrong.
MC_Configs ==
  { Config(3, 2, 0, 3, TRUE), Config(1, 2, 4, 0, FALSE), Config(0, 1, 3, 2, TRUE),
    [Config(2, 0, 0, 0, TRUE) EXCEPT !.faults = {"window"}] }
    \cup {Command("run", {f}) : f \in Loading}
    \cup {Command(c, {}) : c \in DOMAIN FaultsOf \ {"run"}}
    \cup {Command(c, {f}) : c \in DOMAIN FaultsOf \ {"run"}, f \in Faults}
=============================================================================
