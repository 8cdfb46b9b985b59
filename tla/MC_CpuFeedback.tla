--------------------------- MODULE MC_CpuFeedback ---------------------------
(***************************************************************************)
(* Instances of CpuFeedback for TLC: a core is 1000 units, as in "500m".   *)
(***************************************************************************)
EXTENDS CpuFeedback

MC_Targets == {0, 300, 1500}

\* Unthrottled, and throttled below the larger target and the smaller one.
MC_Limits == {9000, 1000, 200}

MC_Backgrounds == {0, 50, 200}

\* The pool config.Compile chooses for the peak of MC_Targets on four CPUs.
MC_SuggestedPool == SuggestWorkers(1500, 4)

=============================================================================
