--------------------------- MODULE MC_RandomCurve ---------------------------
(***************************************************************************)
(* Small instances of RandomCurve for TLC; the cfg files give the bounds.  *)
(***************************************************************************)
EXTENDS RandomCurve
=============================================================================
