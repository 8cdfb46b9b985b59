------------------------------ MODULE Holding ------------------------------
(***************************************************************************)
(* What the memory engine promises to the runner that drives it: it holds  *)
(* a number of chunks that grows one chunk at a time, and only as far as   *)
(* something that has been asked for; it reports what it holds, if late;   *)
(* and told to end, it ends holding nothing and reporting nothing.         *)
(* MemEngine implements it.                                                *)
(***************************************************************************)
EXTENDS Naturals

CONSTANT Chunk  \* the size of a chunk

VARIABLES
  asked,     \* the targets asked for so far
  holds,     \* the number of chunks held
  reported,  \* the bytes that Stats() reports
  told,      \* whether the engine was told to end
  ended      \* whether it has ended

vars == <<asked, holds, reported, told, ended>>

\* n chunks are at most t memory units, rounded to a chunk.
Within(n, t) == 2 * (n * Chunk) <= 2 * t + Chunk

Init == /\ asked = {0} /\ holds = 0 /\ reported = 0
        /\ told = FALSE /\ ended = FALSE

\* The runner may ask for anything at any time, in vain after the end.
Ask ==
  /\ asked \subseteq asked'
  /\ UNCHANGED <<holds, reported, told, ended>>

Grow ==
  /\ ~ended
  /\ holds' = holds + 1
  /\ \E t \in asked : Within(holds', t)
  /\ UNCHANGED <<asked, reported, told, ended>>

Drop ==
  /\ ~ended
  /\ holds' < holds
  /\ UNCHANGED <<asked, reported, told, ended>>

Report ==
  /\ ~ended
  /\ reported' = holds * Chunk
  /\ UNCHANGED <<asked, holds, told, ended>>

Tell ==
  /\ ~told
  /\ told' = TRUE
  /\ UNCHANGED <<asked, holds, reported, ended>>

End ==
  /\ told /\ ~ended
  /\ ended' = TRUE /\ holds' = 0 /\ reported' = 0
  /\ UNCHANGED <<asked, told>>

Next == Ask \/ Grow \/ Drop \/ Report \/ Tell \/ End

\* Whoever is told to end does.
Ends == told ~> ended

Spec == Init /\ [][Next]_vars /\ Ends
=============================================================================
