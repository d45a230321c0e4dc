-------------------------- MODULE MCResponseEngine --------------------------
(* Small instances of ResponseEngine for TLC. *)
EXTENDS ResponseEngine, TLC

CONSTANTS h1, h2, d1, a1, a2

\* One device; symmetric threads and action ids (safety runs only).
Interchangeable == Permutations(Handlers) \cup Permutations(ActionIds)
=============================================================================
