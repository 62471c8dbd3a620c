------------------------------ MODULE Futures -------------------------------
(***************************************************************************)
(* ircd::ctx::promise and future (src/ircd/ctx.cc, promise.h, future.h,    *)
(* shared_state.h): two singly linked lists of objects that live on stacks *)
(* and in containers, are copied, moved and destroyed at any time, and find*)
(* each other only through the two heads.                                  *)
(*                                                                         *)
(* A member of Promise or Future is a place in memory.  A place that holds *)
(* no object (not in `alive`) can still be pointed at.                     *)
(***************************************************************************)
EXTENDS Naturals, FiniteSets

CONSTANTS Promise, Future, Null

(* What the union holds that is no promise; INVALID is the null pointer.    *)
FutureState == {"READY", "RETRIEVED"}

ASSUME FuturesAssumption == /\ Promise \cap Future = {}
                            /\ Null \notin Promise \cup Future \cup FutureState
                            /\ Promise \cap FutureState = {}
                            /\ IsFiniteSet(Promise) /\ IsFiniteSet(Future)

VARIABLES alive,     \* the places that hold an object
          st,        \* promise_base::st, the head of all sharing futures
          pnext,     \* promise_base::next
          p,         \* shared_state_base::p, in a union with the state
          fnext,     \* shared_state_base::next
          eptr       \* shared_state_base::eptr

futuresVars == <<alive, st, pnext, p, fnext, eptr>>

FuturesInit == /\ alive = {}
               /\ st = [a \in Promise |-> Null] /\ pnext = [a \in Promise |-> Null]
               /\ p = [f \in Future |-> Null] /\ fnext = [f \in Future |-> Null]
               /\ eptr = [f \in Future |-> "none"]

-----------------------------------------------------------------------------
(* Following pointers.                                                     *)

\* The list that starts at o: the smallest set that has o and, with an object,
\* what it points to.
Chain(next, o) ==
  {x \in DOMAIN next :
     \A S \in SUBSET DOMAIN next :
       o \in S /\ (\A y \in S : next[y] \in S \cup {Null}) => x \in S}

EndOf(next, o) == CHOOSE x \in Chain(next, o) : next[x] = Null

Pending(f) == p[f] \in Promise

\* promise_base::head() and shared_state_base::head().
HeadPromise(a) == IF st[a] # Null /\ Pending(st[a]) THEN p[st[a]] ELSE a
HeadFuture(f) == IF Pending(f) /\ st[p[f]] # Null THEN st[p[f]] ELSE f

\* The promises reachable from future f, and the futures from promise a.
Promises(f) == IF Pending(f) THEN Chain(pnext, p[f]) ELSE {}
Futures(a) == IF st[a] # Null THEN Chain(fnext, st[a]) ELSE {}

\* Every one of `objects` is told the new place of the other list's head.
Point(field, objects, to) ==
  [x \in DOMAIN field |-> IF x \in objects THEN to ELSE field[x]]

\* The pointer to x in list `next` becomes y.
Relink(next, head, x, y) ==
  [o \in DOMAIN next |-> IF o \in Chain(next, head) /\ next[o] = x THEN y ELSE next[o]]

Empty(a) == a \notin alive

-----------------------------------------------------------------------------
(* Promises.                                                               *)

NewPromise(a) == /\ Empty(a)
                 /\ alive' = alive \cup {a}
                 /\ UNCHANGED <<st, pnext, p, fnext, eptr>>

\* append() to the end of the list.
CopyPromise(a, b) ==
  /\ a \in alive /\ Empty(b) /\ st[a] # Null
  /\ alive' = alive \cup {b}
  /\ st' = [st EXCEPT ![b] = st[a]]
  /\ pnext' = [pnext EXCEPT ![EndOf(pnext, a)] = b]
  /\ UNCHANGED <<p, fnext, eptr>>

\* A bug: update() forgets that the head is known to the futures.
MovePromiseUntold(a, b) ==
  /\ a \in alive /\ Empty(b)
  /\ alive' = alive \cup {b}
  /\ st' = [st EXCEPT ![b] = st[a], ![a] = Null]
  /\ pnext' = [Relink(pnext, HeadPromise(a), a, b) EXCEPT ![b] = pnext[a], ![a] = Null]
  /\ UNCHANGED <<p, fnext, eptr>>

\* update(): b takes the place of a, which is left empty.
MovePromise(a, b) ==
  /\ a \in alive /\ Empty(b)
  /\ alive' = alive \cup {b}
  /\ st' = [st EXCEPT ![b] = st[a], ![a] = Null]
  /\ IF HeadPromise(a) = a
     THEN /\ p' = Point(p, Futures(a), b)
          /\ pnext' = [pnext EXCEPT ![b] = pnext[a], ![a] = Null]
     ELSE /\ pnext' = [Relink(pnext, HeadPromise(a), a, b)
                         EXCEPT ![b] = pnext[a], ![a] = Null]
          /\ UNCHANGED p
  /\ UNCHANGED <<fnext, eptr>>

\* set_value() or set_exception(), and make_ready(), to all sharing futures.
Ready(a, r) ==
  /\ st' = Point(st, Promises(st[a]), Null)
  /\ p' = Point(p, Futures(a), "READY")
  /\ eptr' = Point(eptr, Futures(a), r)

\* An invalid promise ignores its outcome.
Set(a, r) == /\ a \in alive /\ st[a] # Null /\ Pending(st[a])
             /\ Ready(a, r)
             /\ UNCHANGED <<alive, pnext, fnext>>

\* The destructor of the last copy.
BreakPromise(a) ==
  /\ a \in alive /\ st[a] # Null /\ Cardinality(Promises(st[a])) = 1
  /\ Ready(a, "broken")
  /\ alive' = alive \ {a}
  /\ pnext' = [pnext EXCEPT ![a] = Null]
  /\ UNCHANGED fnext

\* A bug: the copies behind a removed head are lost to the futures.
RemovePromiseHead(a) ==
  /\ a \in alive /\ st[a] # Null /\ Cardinality(Promises(st[a])) > 1
  /\ p' = IF HeadPromise(a) = a THEN Point(p, Futures(a), Null) ELSE p
  /\ pnext' = [Relink(pnext, HeadPromise(a), a, pnext[a]) EXCEPT ![a] = Null]
  /\ st' = [st EXCEPT ![a] = Null]
  /\ alive' = alive \ {a}
  /\ UNCHANGED <<fnext, eptr>>

\* The destructor of another: remove().
RemovePromise(a) ==
  /\ a \in alive /\ st[a] # Null /\ Cardinality(Promises(st[a])) > 1
  /\ IF HeadPromise(a) = a
     THEN /\ p' = Point(p, Futures(a), pnext[a])
          /\ pnext' = [pnext EXCEPT ![a] = Null]
     ELSE /\ pnext' = [Relink(pnext, HeadPromise(a), a, pnext[a]) EXCEPT ![a] = Null]
          /\ UNCHANGED p
  /\ st' = [st EXCEPT ![a] = Null]
  /\ alive' = alive \ {a}
  /\ UNCHANGED <<fnext, eptr>>

\* The destructor of one that is satisfied, moved from or never used.
DestroyPromise(a) == /\ a \in alive /\ st[a] = Null
                     /\ alive' = alive \ {a}
                     /\ pnext' = [pnext EXCEPT ![a] = Null]
                     /\ UNCHANGED <<st, p, fnext, eptr>>

-----------------------------------------------------------------------------
(* Futures.                                                                *)

\* future(promise &).  The promise is new (whatever was left of an earlier list
\* is not followed again) or it has futures already.
NewFuture(f, a) ==
  /\ Empty(f) /\ a \in alive /\ (st[a] = Null => pnext[a] = Null)
  /\ alive' = alive \cup {f}
  /\ p' = [p EXCEPT ![f] = HeadPromise(a)]
  /\ IF st[a] = Null
     THEN st' = [st EXCEPT ![a] = f] /\ UNCHANGED fnext
     ELSE fnext' = [fnext EXCEPT ![EndOf(fnext, st[a])] = f] /\ UNCHANGED st
  /\ eptr' = [eptr EXCEPT ![f] = "none"]
  /\ UNCHANGED pnext

\* Sharing a pending future.
CopyFuture(f, g) ==
  /\ f \in alive /\ Empty(g) /\ Pending(f)
  /\ alive' = alive \cup {g}
  /\ p' = [p EXCEPT ![g] = p[f]]
  /\ fnext' = [fnext EXCEPT ![EndOf(fnext, f)] = g]
  /\ eptr' = [eptr EXCEPT ![g] = "none"]
  /\ UNCHANGED <<st, pnext>>

\* update(): g takes the place of f, whether pending or not.
MoveFuture(f, g) ==
  /\ f \in alive /\ Empty(g)
  /\ alive' = alive \cup {g}
  /\ st' = IF HeadFuture(f) = f THEN Point(st, Promises(f), g) ELSE st
  /\ p' = [p EXCEPT ![g] = p[f], ![f] = Null]
  /\ fnext' = [Relink(fnext, HeadFuture(f), f, g) EXCEPT ![g] = fnext[f], ![f] = Null]
  /\ eptr' = [eptr EXCEPT ![g] = eptr[f], ![f] = "none"]
  /\ UNCHANGED pnext

\* The destructor: the last pending future leaves its promises without one, any
\* other is taken out of the list.
DestroyFuture(f) ==
  /\ f \in alive
  /\ alive' = alive \ {f}
  /\ st' = IF HeadFuture(f) = f THEN Point(st, Promises(f), fnext[f]) ELSE st
  /\ fnext' = IF Pending(f)
              THEN [Relink(fnext, HeadFuture(f), f, fnext[f]) EXCEPT ![f] = Null]
              ELSE [fnext EXCEPT ![f] = Null]
  /\ p' = [p EXCEPT ![f] = Null]
  /\ eptr' = [eptr EXCEPT ![f] = "none"]
  /\ UNCHANGED pnext

\* The end of wait() and get(): the outcome is taken.
Retrieve(f) == /\ f \in alive /\ p[f] = "READY"
               /\ p' = [p EXCEPT ![f] = "RETRIEVED"]
               /\ UNCHANGED <<alive, st, pnext, fnext, eptr>>

-----------------------------------------------------------------------------
FuturesNext == \/ \E a \in Promise : \/ NewPromise(a) \/ BreakPromise(a)
                                     \/ RemovePromise(a) \/ DestroyPromise(a)
                                     \/ \E r \in {"none", "error"} : Set(a, r)
                                     \/ \E b \in Promise : CopyPromise(a, b) \/ MovePromise(a, b)
               \/ \E f \in Future : \/ DestroyFuture(f) \/ Retrieve(f)
                                    \/ \E a \in Promise : NewFuture(f, a)
                                    \/ \E g \in Future : CopyFuture(f, g) \/ MoveFuture(f, g)

FuturesSpec == FuturesInit /\ [][FuturesNext]_futuresVars

-----------------------------------------------------------------------------
(* Properties.                                                             *)

FuturesTypeOK == /\ alive \in SUBSET (Promise \cup Future)
                 /\ st \in [Promise -> Future \cup {Null}]
                 /\ pnext \in [Promise -> Promise \cup {Null}]
                 /\ p \in [Future -> Promise \cup {Null} \cup FutureState]
                 /\ fnext \in [Future -> Future \cup {Null}]
                 /\ eptr \in [Future -> {"none", "error", "broken"}]
                 /\ \A f \in Future : eptr[f] # "none" => p[f] \in FutureState

\* No operation on a valid promise or a pending future follows a pointer to an
\* object that was moved or destroyed, after any sequence of operations.
NoDangling ==
  /\ \A a \in alive \cap Promise : st[a] # Null =>
       /\ Pending(st[a])
       /\ Futures(a) \cup Promises(st[a]) \subseteq alive
  /\ \A f \in alive \cap Future : Pending(f) =>
       Promises(f) \subseteq alive /\ st[p[f]] # Null

\* "When all copies of a promise destruct without setting a value or exception
\* the future is notified": nobody waits for a promise that does not exist.
Kept == \A f \in alive \cap Future : Pending(f) =>
          \E a \in alive \cap Promise : f \in Futures(a)

\* Both lists agree: the promises that reach a future are those it reaches.
Mutual == \A f \in alive \cap Future : Pending(f) =>
            Promises(f) = {a \in alive \cap Promise : f \in Futures(a)}

\* The futures a promise resolves, and what a future is, whatever points where.
makes == [a \in Promise |-> IF a \in alive THEN Futures(a) ELSE {}]
is == [f \in Future |-> CASE f \notin alive \/ p[f] = Null -> "invalid"
                          [] Pending(f) -> "pending"
                          [] p[f] = "RETRIEVED" -> "retrieved"
                          [] OTHER -> IF eptr[f] = "none" THEN "value" ELSE eptr[f]]

\* The pointers implement the sets of module Promises: every future gets exactly
\* the outcome of its own promise.
Abstract == INSTANCE Promises WITH makes <- makes, is <- is

ImplementsPromises == Abstract!Spec
=============================================================================
