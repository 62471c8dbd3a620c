------------------------------ MODULE MCForEach ------------------------------
(* The lengths of the calls of the TLC run of ForEach: a list of two, so that *)
(* an exception can leave something unsent.                                   *)
EXTENDS ForEach

Lengths == [c \in Client |-> IF c \in Latched THEN 2 ELSE 1]
=============================================================================
