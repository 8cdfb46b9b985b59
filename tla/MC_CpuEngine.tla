---------------------------- MODULE MC_CpuEngine ----------------------------
(***************************************************************************)
(* Small instances of CpuEngine for TLC: a core is four units, so that a   *)
(* duty cycle is off, a fraction or the whole slice.                       *)
(***************************************************************************)
EXTENDS CpuEngine

\* Samples below and above any target.
MC_Usages == {0, 12}

\* Rest and a load; with the corrections above, the duty cycles are off, a
\* fraction of the slice and the whole of it.
MC_RestTargets == {0, 3}
=============================================================================
