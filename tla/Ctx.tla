-------------------------------- MODULE Ctx --------------------------------
(***************************************************************************)
(* The scheduling state of ircd::ctx::ctx (src/ircd/ctx.cc), the userspace *)
(* thread every part of Construct runs on, as operators over a table       *)
(*                                                                         *)
(*     x \in [Ctx -> CtxState]                                             *)
(*                                                                         *)
(* that each component keeps in a variable.  A context runs until it       *)
(* yields, on one OS thread, so that between two yields nothing else       *)
(* happens: a step of a component is everything a context does from one    *)
(* yield to the next, and composes these operators.                        *)
(***************************************************************************)
EXTENDS Naturals, Sequences

CONSTANT Ctx            \* the contexts
ASSUME CtxNonempty == Ctx # {}

(***************************************************************************)
(* Where a context is:                                                     *)
(*   none    not constructed                                               *)
(*   posted  its spawn() handler is in the ios queue: not started()        *)
(*   run     it is ctx::current                                            *)
(*   nest    suspended by ios::dispatch(yield) below the code it runs      *)
(*   wait    suspended in ctx::wait() on its alarm                         *)
(*   wake    still suspended, the alarm's handler is in the ios queue      *)
(*   done    finished(): the base frame returned                           *)
(***************************************************************************)
At == {"none", "posted", "run", "nest", "wait", "wake", "done"}

\* The bits of context::flags the scheduler reads and writes.
Flag == {"NOINTERRUPT", "INTERRUPTED", "TERMINATED"}

CtxState == [at : At, notes : Nat, flags : SUBSET Flag]

Fresh == [at |-> "none", notes |-> 0, flags |-> {}]

\* ctx::current is null: the event loop's own stack is executing.
NoCurrent(x) == \A c \in Ctx : x[c].at # "run"

Suspended(x, c) == x[c].at \in {"wait", "wake"}

-----------------------------------------------------------------------------
(* Notes.  note() cancels the alarm for the first note only; a context that *)
(* is not suspended on its alarm has nothing to cancel.                    *)

\* alarm.cancel() as seen by the context.
Cancelled(at) == IF at = "wait" THEN "wake" ELSE at

\* ctx::note() on every context of S.
Note(x, S) ==
  [c \in Ctx |->
     IF c \in S
     THEN [at    |-> IF x[c].notes = 0 THEN Cancelled(x[c].at) ELSE x[c].at,
           notes |-> x[c].notes + 1,
           flags |-> x[c].flags]
     ELSE x[c]]

\* A bug: the notes taken while awake are carried into the suspension.
LeaveNoted(x, c) == [x EXCEPT ![c].at = "wait"]

\* The last part of ctx::wait() before the switch: the note counter is
\* cleared and the context suspends until its alarm returns.
Leave(x, c) == [x EXCEPT ![c].at = "wait", ![c].notes = 0]

\* continuation::enter(): the context is current again, with one note.
Enter(x, c) == [x EXCEPT ![c].at = "run", ![c].notes = 1]

\* The base frame returns: ctx::operator()'s exit.
End(x, c) == [x EXCEPT ![c] = [at |-> "done", notes |-> 0, flags |-> x[c].flags]]

-----------------------------------------------------------------------------
(* Interrupts and terminations.                                            *)

\* interruption_requested(): a flag is lit, whether or not it may throw.
Requested(r) == r.flags \cap {"INTERRUPTED", "TERMINATED"} # {}

\* ctx::interruption(): an interruption point of this context would throw.
Interruption(r) == Requested(r) /\ "NOINTERRUPT" \notin r.flags

\* The flags after an interruption point threw: `terminated` is preferred,
\* leaves its flag lit and suppresses what follows, `interrupted` clears
\* its own.
Thrown(r) == IF "TERMINATED" \in r.flags
             THEN r.flags \cup {"NOINTERRUPT"}
             ELSE r.flags \ {"INTERRUPTED"}

Throw(x, c) == [x EXCEPT ![c].flags = Thrown(x[c])]

\* Light flag f of d and call the interruptor of its continuation, unless it
\* has finished or the flag is lit already.  Only ctx::wait() installs an
\* interruptor that does anything (the alarm is cancelled, without a note).
Flagged(x, d, f) ==
  IF x[d].at = "done" \/ f \in x[d].flags
  THEN x
  ELSE [x EXCEPT ![d].flags = @ \cup {f}, ![d].at = Cancelled(@)]

Interrupt(x, d) == Flagged(x, d, "INTERRUPTED")

Terminate(x, d) == Flagged(x, d, "TERMINATED")

Suppressed(x, c) == "NOINTERRUPT" \in x[c].flags

\* this_ctx::interruptible(b, nothrow).
Interruptible(x, c, b) ==
  [x EXCEPT ![c].flags = IF b THEN @ \ {"NOINTERRUPT"}
                              ELSE @ \cup {"NOINTERRUPT"}]
=============================================================================
