------------------------------ MODULE MCServer ------------------------------
(* The model values of the TLC runs of Server. *)
EXTENDS Server

Symmetry == Permutations(Request) \cup Permutations(Link)
=============================================================================
