------------------------------ MODULE Promises ------------------------------
(***************************************************************************)
(* What promises and futures promise: the copies of a promise make the same*)
(* promise to the same futures, the first outcome given by one of them     *)
(* reaches all of these futures, and when the last copy is gone without an *)
(* outcome the futures are told.  There are no pointers here.              *)
(***************************************************************************)
EXTENDS Naturals

CONSTANTS Promise,   \* places where a promise can be
          Future     \* places where a future can be

VARIABLES makes,     \* for each promise the futures it will resolve
          is         \* what each future is

vars == <<makes, is>>

Outcome == {"value", "error", "broken"}

Init == /\ makes = [p \in Promise |-> {}]
        /\ is = [f \in Future |-> "invalid"]

\* The copies of promise p, itself included.
Copies(p) == {q \in Promise : makes[q] \cap makes[p] # {}}

\* The futures of p become r, and no copy is valid any more.
Resolve(p, r) ==
  /\ makes[p] # {}
  /\ is' = [f \in Future |-> IF f \in makes[p] THEN r ELSE is[f]]
  /\ makes' = [q \in Promise |-> IF q \in Copies(p) THEN {} ELSE makes[q]]

\* A future is made from a promise, the first or one that shares.
Attach(f, p) ==
  /\ is[f] = "invalid"
  /\ is' = [is EXCEPT ![f] = "pending"]
  /\ makes' = [q \in Promise |->
                 IF q \in Copies(p) \cup {p} THEN makes[q] \cup {f} ELSE makes[q]]

CopyPromise(p, q) ==
  /\ makes[p] # {} /\ makes[q] = {}
  /\ makes' = [makes EXCEPT ![q] = makes[p]]
  /\ UNCHANGED is

MovePromise(p, q) ==
  /\ makes[p] # {} /\ makes[q] = {}
  /\ makes' = [makes EXCEPT ![q] = makes[p], ![p] = {}]
  /\ UNCHANGED is

DropPromise(p) == IF Copies(p) = {p}
                  THEN Resolve(p, "broken")
                  ELSE makes' = [makes EXCEPT ![p] = {}] /\ UNCHANGED is

CopyFuture(f, g) ==
  /\ is[f] = "pending" /\ is[g] = "invalid"
  /\ is' = [is EXCEPT ![g] = "pending"]
  /\ makes' = [p \in Promise |-> IF f \in makes[p] THEN makes[p] \cup {g} ELSE makes[p]]

MoveFuture(f, g) ==
  /\ is[g] = "invalid"
  /\ is' = [is EXCEPT ![g] = is[f], ![f] = "invalid"]
  /\ makes' = [p \in Promise |->
                 IF f \in makes[p] THEN (makes[p] \ {f}) \cup {g} ELSE makes[p]]

DropFuture(f) ==
  /\ is' = [is EXCEPT ![f] = "invalid"]
  /\ makes' = [p \in Promise |-> makes[p] \ {f}]

Retrieve(f) == /\ is[f] \in Outcome
               /\ is' = [is EXCEPT ![f] = "retrieved"]
               /\ UNCHANGED makes

Next == \/ \E p \in Promise : DropPromise(p) \/ \E r \in Outcome \ {"broken"} : Resolve(p, r)
        \/ \E p, q \in Promise : CopyPromise(p, q) \/ MovePromise(p, q)
        \/ \E f \in Future, p \in Promise : Attach(f, p)
        \/ \E f, g \in Future : CopyFuture(f, g) \/ MoveFuture(f, g)
        \/ \E f \in Future : DropFuture(f) \/ Retrieve(f)

Spec == Init /\ [][Next]_vars
=============================================================================
