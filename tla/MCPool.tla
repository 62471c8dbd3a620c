------------------------------- MODULE MCPool -------------------------------
(* Instances of Pool for TLC. *)
EXTENDS Pool

Symmetry == Permutations(Worker) \cup Permutations(Client)
=============================================================================
