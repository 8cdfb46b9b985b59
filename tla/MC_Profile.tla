----------------------------- MODULE MC_Profile -----------------------------
(***************************************************************************)
(* Profiles of up to three phases for TLC, and small charts of them.       *)
(***************************************************************************)
EXTENDS PlanChart

Phase(d, r, from, to, curve, jitter) ==
  [duration |-> d, repeat |-> r, from |-> from, to |-> to, curve |-> curve,
   period |-> 4, duty |-> 3, jitter |-> jitter]

\* Ramps up and down, a constant and every periodic curve.
MC_Segments ==
  { <<0, 8, "linear">>, <<8, 2, "linear">>, <<4, 4, "step">>,
    <<2, 8, "sawtooth">>, <<2, 8, "triangle">>, <<2, 8, "square">> }

MC_Phases(durations, jitter) ==
  { Phase(d, r, s[1], s[2], s[3], jitter) :
      d \in durations, r \in {1, 2}, s \in MC_Segments }

\* Every pair of them, the second possibly open-ended, some triples, and
\* phases with a jitter of a quarter.
MC_Specs ==
  {<<a>> : a \in MC_Phases({0, 2}, 0)}
  \cup {<<a, b>> : a \in MC_Phases({1, 3}, 0), b \in MC_Phases({0, 2}, 0)}
  \cup {<<a>> : a \in MC_Phases({2}, 3)}
  \cup {<<a, b, a>> : a \in MC_Phases({2}, 0), b \in MC_Phases({1, 3}, 0)}

\* A ramp and an open-ended periodic phase.
MC_OpenSpecs == {<<a, b>> : a \in MC_Phases({2}, 0), b \in MC_Phases({0}, 0)}

\* The nice steps of the code in seconds, and a window that ends in a phase.
MC_NiceSteps == <<1, 2, 5, 10, 15>>
MC_Windows == {0, 3, 12}

MC_Both == BOOLEAN
MC_Yes == {TRUE}
MC_No == {FALSE}
=============================================================================
