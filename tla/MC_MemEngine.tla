---------------------------- MODULE MC_MemEngine ----------------------------
(***************************************************************************)
(* Small instances of MemEngine for TLC.                                   *)
(***************************************************************************)
EXTENDS MemEngine

\* Less a footprint of 3, one is rounded up to whole chunks and one down. The way
\* down is worth a forced release; the drops that the moving estimate of the
\* overhead makes are not.
MC_RampTargets == {5, 20}

\* Targets that differ by less than the release threshold.
MC_OscillatingTargets == {12, 14}
=============================================================================
