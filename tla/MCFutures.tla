----------------------------- MODULE MCFutures ------------------------------
(* Instances of Futures for TLC. *)
EXTENDS Futures, TLC

Symmetry == Permutations(Promise) \cup Permutations(Future)
=============================================================================
