--------------------------- MODULE MCSessionPool ---------------------------
(***************************************************************************)
(* Instances of SessionPool for TLC.  Calls and sessions are               *)
(* interchangeable, so the safety runs may identify permuted states.       *)
(***************************************************************************)
EXTENDS SessionPool, TLC

Symmetry == Permutations(Calls) \cup Permutations(Sessions)

=============================================================================
