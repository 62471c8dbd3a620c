------------------------------ MODULE Context ------------------------------
(***************************************************************************)
(* The life of contexts: ircd::ctx::context (src/include/ircd/ctx/context.h*)
(* and src/ircd/ctx.cc), the owning handle that spawns, joins, detaches    *)
(* and destroys a context, over the scheduler of module Ctx.               *)
(*                                                                         *)
(* Every context runs the same nondeterministic user code: it waits, yields*)
(* for courtesy, polls interruption_point(), spawns children, joins them   *)
(* and destroys them, and returns; exceptions unwind it.  Notifications    *)
(* and interrupts come from whoever runs, a context or a handler on the    *)
(* event loop's stack.                                                     *)
(***************************************************************************)
EXTENDS Ctx, FiniteSets, SequencesExt

CONSTANTS Root,         \* the context spawned by the program's main stack
          None,         \* no context
          SpawnFlags,   \* the flags a child is constructed with
          Signals,      \* the flags that others than the owner may light
          MaxNotes      \* bound on the notes given by others

ASSUME ContextAssumption ==
  /\ Root \in Ctx
  /\ None \notin Ctx
  /\ {"none", "self"} \cap Ctx = {}
  /\ SpawnFlags \subseteq SUBSET {"DETACH", "WAIT_JOIN"}
  /\ Signals \subseteq {"INTERRUPTED", "TERMINATED"}
  /\ MaxNotes \in Nat

VARIABLES
  cx,         \* the table of module Ctx
  pc,         \* what the context is doing
  target,     \* the child it joins, destroys or dispatches
  back,       \* where it was before the destructor it is in
  theirs,     \* uninterruptible::theirs of the scope it is in
  owner,      \* whose context object owns it
  waitjoin,   \* the contexts constructed with WAIT_JOIN
  freed,      \* the contexts whose ctx::ctx was deleted
  nest,       \* the parents inside ios::dispatch(yield), outermost first
  deferred    \* the courtesy yields whose handler is in the ios queue

vars == <<cx, pc, target, back, theirs, owner, waitjoin, freed, nest, deferred>>
life == <<owner, waitjoin, freed>>
scope == <<target, back, theirs>>

Pc == {"user", "yield", "dispatch", "join", "destroy", "unwind"}
Owner == Ctx \cup {"none", "self"}

Children(c) == {d \in Ctx : owner[d] = c}
Finished(d) == cx[d].at = "done"

\* A bug: one of the joining contexts is taken for all.
AdjoindreFirst ==
  LET W == {c \in Ctx : pc[c] \in {"join", "destroy"} /\ Suspended(cx, c)}
  IN IF W = {} THEN {} ELSE {CHOOSE c \in W : TRUE}

\* The contexts in the static dock ctx::adjoindre.
Adjoindre == {c \in Ctx : pc[c] \in {"join", "destroy"} /\ Suspended(cx, c)}

Running(c) == cx[c].at = "run"
InUser(c) == Running(c) /\ pc[c] = "user"

\* The event loop runs the next handler of the ios queue.
Loop == NoCurrent(cx) /\ nest = <<>>

\* Some code runs: a handler on the loop's stack, or a context.
Executing == Loop \/ ~NoCurrent(cx)

Init ==
  /\ cx = [c \in Ctx |-> [Fresh EXCEPT !.at = IF c = Root THEN "posted" ELSE "none"]]
  /\ pc = [c \in Ctx |-> "user"]
  /\ target = [c \in Ctx |-> None]
  /\ back = [c \in Ctx |-> "user"]
  /\ theirs = [c \in Ctx |-> TRUE]
  /\ owner = [c \in Ctx |-> IF c = Root THEN "self" ELSE "none"]
  /\ waitjoin = {}
  /\ freed = {}
  /\ nest = <<>>
  /\ deferred = {}

-----------------------------------------------------------------------------
(* Scheduling.                                                             *)

\* Where the exception of an interruption point leads: `terminated` unwinds
\* the stack, `interrupted` is caught by the user's code or unwinds too.
Raised(c) == {"unwind"} \cup (IF "TERMINATED" \in cx[c].flags THEN {} ELSE {"user"})

\* The base frame ctx::operator(): a precocious interrupt never enters the
\* user's function.
Start(c) ==
  /\ Loop
  /\ cx[c].at = "posted"
  /\ LET x == Enter(cx, c) IN
     IF Interruption(cx[c])
     THEN cx' = Throw(x, c) /\ pc' = [pc EXCEPT ![c] = "unwind"]
     ELSE cx' = x /\ UNCHANGED pc
  /\ UNCHANGED <<life, scope, nest, deferred>>

\* this_ctx::wait() in the user's code.  It does not look at the flags.
Wait(c) ==
  /\ InUser(c)
  /\ cx' = Leave(cx, c)
  /\ UNCHANGED <<pc, life, scope, nest, deferred>>

\* A user's wait returns: through its interruption point if one is pending.
Resume(c) ==
  /\ Loop
  /\ cx[c].at = "wake" /\ pc[c] = "user"
  /\ IF Interruption(cx[c])
     THEN /\ cx' = Throw(Enter(cx, c), c)
          /\ \E p \in Raised(c) : pc' = [pc EXCEPT ![c] = p]
     ELSE cx' = Enter(cx, c) /\ UNCHANGED pc
  /\ UNCHANGED <<life, scope, nest, deferred>>

\* this_ctx::interruption_point().
InterruptionPoint(c) ==
  /\ InUser(c)
  /\ Interruption(cx[c])
  /\ cx' = Throw(cx, c)
  /\ \E p \in Raised(c) : pc' = [pc EXCEPT ![c] = p]
  /\ UNCHANGED <<life, scope, nest, deferred>>

\* Another context, or a handler, calls notify(d), interrupt(d) or
\* terminate(d); d is not the caller and is not below the caller's frame.
NotifyCtx(d) ==
  /\ Executing
  /\ cx[d].at \in {"posted", "wait", "wake"}
  /\ cx[d].notes < MaxNotes
  /\ cx' = Note(cx, {d})
  /\ UNCHANGED <<pc, life, scope, nest, deferred>>

Signal(d) ==
  /\ Executing
  /\ cx[d].at \in {"posted", "wait", "wake"}
  /\ \E f \in Signals : cx' = Flagged(cx, d, f)
  /\ UNCHANGED <<pc, life, scope, nest, deferred>>

-----------------------------------------------------------------------------
(* ctx::yield(): the context waits, uninterruptible, on a latch that a     *)
(* handler posted to the ios queue counts down.                            *)

CourtesyYield(c) ==
  /\ InUser(c)
  /\ theirs' = [theirs EXCEPT ![c] = ~Suppressed(cx, c)]
  /\ cx' = Leave(Interruptible(cx, c, FALSE), c)
  /\ pc' = [pc EXCEPT ![c] = "yield"]
  /\ deferred' = deferred \cup {c}
  /\ UNCHANGED <<target, back, life, nest>>

CountDown(c) ==
  /\ Loop
  /\ c \in deferred
  /\ deferred' = deferred \ {c}
  /\ cx' = Note(cx, {c})
  /\ UNCHANGED <<pc, life, scope, nest>>

\* latch::wait() tests its predicate; the scope ends without a throw.
ResumeYield(c) ==
  /\ Loop
  /\ cx[c].at = "wake" /\ pc[c] = "yield"
  /\ IF c \in deferred
     THEN cx' = Leave(cx, c) /\ UNCHANGED pc
     ELSE /\ cx' = Interruptible(Enter(cx, c), c, theirs[c])
          /\ pc' = [pc EXCEPT ![c] = "user"]
  /\ theirs' = [theirs EXCEPT ![c] = IF c \in deferred THEN @ ELSE TRUE]
  /\ UNCHANGED <<life, target, back, nest, deferred>>

-----------------------------------------------------------------------------
(* Construction.                                                           *)

Construct(c, d, fl) ==
  /\ cx[d].at = "none"
  /\ owner' = [owner EXCEPT ![d] = IF "DETACH" \in fl THEN "self" ELSE c]
  /\ waitjoin' = IF "WAIT_JOIN" \in fl THEN waitjoin \cup {d} ELSE waitjoin

\* With POST the spawn is queued and the constructor returns.
SpawnPost(c, d) ==
  /\ InUser(c)
  /\ \E fl \in SpawnFlags : Construct(c, d, fl)
  /\ cx' = [cx EXCEPT ![d].at = "posted"]
  /\ UNCHANGED <<pc, scope, freed, nest, deferred>>

\* Without it the child runs at once, on top of the parent's stack, up to
\* its first suspension.  (DETACH is only ever given together with POST.)  The
\* dispatch begins with an `uninterruptible`, whose constructor throws what is
\* pending before anything else is done: that is InterruptionPoint, and here
\* nothing is pending.
SpawnDispatch(c, d) ==
  /\ InUser(c)
  /\ ~Requested(cx[c])
  /\ \E fl \in SpawnFlags : "DETACH" \notin fl /\ Construct(c, d, fl)
  /\ cx' = Enter([Interruptible(cx, c, FALSE) EXCEPT ![c].at = "nest"], d)
  /\ pc' = [pc EXCEPT ![c] = "dispatch"]
  /\ target' = [target EXCEPT ![c] = d]
  /\ theirs' = [theirs EXCEPT ![c] = ~Suppressed(cx, c)]
  /\ nest' = Append(nest, c)
  /\ UNCHANGED <<back, freed, deferred>>

\* The child suspended or finished and the parent continues.  If it was
\* interrupted meanwhile the destructor of `uninterruptible` throws, out of
\* the constructor, whose member unique_ptr deletes the child.
ResumeParent ==
  /\ NoCurrent(cx)
  /\ nest # <<>>
  /\ LET c == Last(nest)
         x == Interruptible(Enter(cx, c), c, theirs[c])
     IN /\ IF Interruption(x[c])
           THEN /\ cx' = Throw(x, c)
                /\ \E p \in Raised(c) : pc' = [pc EXCEPT ![c] = p]
                /\ freed' = freed \cup {target[c]}
                /\ owner' = [owner EXCEPT ![target[c]] = "none"]
           ELSE /\ cx' = x
                /\ pc' = [pc EXCEPT ![c] = "user"]
                /\ UNCHANGED <<freed, owner>>
        /\ target' = [target EXCEPT ![c] = None]
        /\ theirs' = [theirs EXCEPT ![c] = TRUE]
  /\ nest' = Front(nest)
  /\ UNCHANGED <<waitjoin, back, deferred>>

-----------------------------------------------------------------------------
(* Joining and destruction.                                                *)

\* context::join(), an interruptible wait on ctx::adjoindre, entered whatever
\* flags are lit.
Join(c, d) ==
  /\ InUser(c)
  /\ d \in Children(c)
  /\ ~Finished(d)
  /\ cx' = Leave(cx, c)
  /\ pc' = [pc EXCEPT ![c] = "join"]
  /\ target' = [target EXCEPT ![c] = d]
  /\ UNCHANGED <<back, theirs, life, nest, deferred>>

ResumeJoin(c) ==
  /\ Loop
  /\ cx[c].at = "wake" /\ pc[c] = "join"
  /\ \/ /\ Interruption(cx[c])
        /\ cx' = Throw(Enter(cx, c), c)
        /\ \E p \in Raised(c) : pc' = [pc EXCEPT ![c] = p]
        /\ target' = [target EXCEPT ![c] = None]
     \/ /\ ~Interruption(cx[c]) /\ Finished(target[c])
        /\ cx' = Enter(cx, c)
        /\ pc' = [pc EXCEPT ![c] = "user"]
        /\ target' = [target EXCEPT ![c] = None]
     \/ /\ ~Interruption(cx[c]) /\ ~Finished(target[c])
        /\ cx' = Leave(cx, c)
        /\ UNCHANGED <<pc, target>>
  /\ UNCHANGED <<back, theirs, life, nest, deferred>>

Delete(d) ==
  /\ freed' = freed \cup {d}
  /\ owner' = [owner EXCEPT ![d] = "none"]
  /\ UNCHANGED waitjoin

\* A bug: the destructor does not suppress interruption while it joins.
DestroyInterruptible(c, d) ==
  /\ Running(c) /\ pc[c] \in {"user", "unwind"}
  /\ d \in Children(c)
  /\ IF Finished(d)
     THEN Delete(d) /\ UNCHANGED <<cx, pc, scope>>
     ELSE /\ cx' = Leave(IF d \in waitjoin THEN cx ELSE Terminate(cx, d), c)
          /\ pc' = [pc EXCEPT ![c] = "destroy"]
          /\ target' = [target EXCEPT ![c] = d]
          /\ back' = [back EXCEPT ![c] = pc[c]]
          /\ theirs' = [theirs EXCEPT ![c] = ~Suppressed(cx, c)]
          /\ UNCHANGED life
  /\ UNCHANGED <<nest, deferred>>

\* ~context() inside a context, from the user's code or from the unwinding
\* of its stack: uninterruptible, terminate the child unless WAIT_JOIN, join.
Destroy(c, d) ==
  /\ Running(c) /\ pc[c] \in {"user", "unwind"}
  /\ d \in Children(c)
  /\ IF Finished(d)
     THEN Delete(d) /\ UNCHANGED <<cx, pc, scope>>
     ELSE LET x == Interruptible(cx, c, FALSE)
              y == IF d \in waitjoin THEN x ELSE Terminate(x, d)
          IN /\ cx' = Leave(y, c)
             /\ pc' = [pc EXCEPT ![c] = "destroy"]
             /\ target' = [target EXCEPT ![c] = d]
             /\ back' = [back EXCEPT ![c] = pc[c]]
             /\ theirs' = [theirs EXCEPT ![c] = ~Suppressed(cx, c)]
             /\ UNCHANGED life
  /\ UNCHANGED <<nest, deferred>>

\* A bug: any wakeup of the destructor is taken for the end of the child.
ResumeDestroySpurious(c) ==
  /\ Loop
  /\ cx[c].at = "wake" /\ pc[c] = "destroy"
  /\ cx' = Interruptible(Enter(cx, c), c, theirs[c])
  /\ pc' = [pc EXCEPT ![c] = back[c]]
  /\ target' = [target EXCEPT ![c] = None]
  /\ back' = [back EXCEPT ![c] = "user"]
  /\ theirs' = [theirs EXCEPT ![c] = TRUE]
  /\ Delete(target[c])
  /\ UNCHANGED <<nest, deferred>>

ResumeDestroy(c) ==
  /\ Loop
  /\ cx[c].at = "wake" /\ pc[c] = "destroy"
  /\ IF Finished(target[c])
     THEN /\ cx' = Interruptible(Enter(cx, c), c, theirs[c])
          /\ pc' = [pc EXCEPT ![c] = back[c]]
          /\ target' = [target EXCEPT ![c] = None]
          /\ back' = [back EXCEPT ![c] = "user"]
          /\ theirs' = [theirs EXCEPT ![c] = TRUE]
          /\ Delete(target[c])
     ELSE cx' = Leave(cx, c) /\ UNCHANGED <<pc, scope, life>>
  /\ UNCHANGED <<nest, deferred>>

\* The user's function returned or unwound: no context object is left on
\* this stack.  Everyone joining is notified; a detached context deletes itself.
Finish(c) ==
  /\ Running(c) /\ pc[c] \in {"user", "unwind"}
  /\ Children(c) = {}
  /\ cx' = End(Note(cx, Adjoindre), c)
  /\ freed' = IF owner[c] = "self" THEN freed \cup {c} ELSE freed
  /\ pc' = [pc EXCEPT ![c] = "user"]
  /\ UNCHANGED <<scope, owner, waitjoin, nest, deferred>>

Next ==
  \/ ResumeParent
  \/ \E c \in Ctx :
       \/ Start(c) \/ Wait(c) \/ Resume(c) \/ InterruptionPoint(c)
       \/ NotifyCtx(c) \/ Signal(c)
       \/ CourtesyYield(c) \/ CountDown(c) \/ ResumeYield(c)
       \/ ResumeJoin(c) \/ ResumeDestroy(c) \/ Finish(c)
       \/ \E d \in Ctx : \/ SpawnPost(c, d) \/ SpawnDispatch(c, d)
                         \/ Join(c, d) \/ Destroy(c, d)

Spec == Init /\ [][Next]_vars

-----------------------------------------------------------------------------
(* What the code also allows, each step with what it breaks in Properties.  *)

\* notify() of the context that runs, for which note() has a branch.
NotifySelf(c) ==
  /\ InUser(c)
  /\ cx' = Note(cx, {c})
  /\ cx'[c].notes <= MaxNotes + 1
  /\ UNCHANGED <<pc, life, scope, nest, deferred>>

\* interrupt() or terminate() of the parent by the child it is dispatching.
SignalParent(c) ==
  /\ ~NoCurrent(cx)
  /\ cx[c].at = "nest"
  /\ \E f \in Signals : cx' = Flagged(cx, c, f)
  /\ UNCHANGED <<pc, life, scope, nest, deferred>>

SpecUndisciplined ==
  Init /\ [][Next \/ \E c \in Ctx : NotifySelf(c) \/ SignalParent(c)]_vars

-----------------------------------------------------------------------------
(* Fairness.  The ios queue is first in first out: a handler that is queued *)
(* runs, however often others run before it (strong fairness, because it is *)
(* disabled while a context runs).  User code is cooperative (context.h: "If *)
(* the child context does not cooperate the destructor will hang"): it does  *)
(* not wait or join over a lit flag, it suspends again if none is, reaches   *)
(* an interruption point if one is, and unwinds to its end.                  *)
Resumption(c) == \/ Start(c) \/ Resume(c) \/ ResumeYield(c)
                 \/ ResumeJoin(c) \/ ResumeDestroy(c)

Unwind(c) == pc[c] = "unwind" /\ (Finish(c) \/ \E d \in Ctx : Destroy(c, d))

Polled(c) == ~Requested(cx[c]) /\ Wait(c)

Suspends(c) == Running(c) /\ cx'[c].at = "wait" /\ pc'[c] \in {"user", "join"}

Cooperation == \A c \in Ctx : Suspends(c) => ~Requested(cx[c])

Fairness ==
  /\ WF_vars(ResumeParent)
  /\ \A c \in Ctx : /\ SF_vars(Resumption(c)) /\ SF_vars(CountDown(c))
                    /\ SF_vars(InterruptionPoint(c))
                    /\ WF_vars(Polled(c)) /\ WF_vars(Unwind(c))

FairSpec == Init /\ [][Next /\ Cooperation]_vars /\ Fairness

-----------------------------------------------------------------------------
(* Properties.                                                             *)

TypeOK ==
  /\ cx \in [Ctx -> CtxState]
  /\ pc \in [Ctx -> Pc]
  /\ target \in [Ctx -> Ctx \cup {None}]
  /\ back \in [Ctx -> {"user", "unwind"}]
  /\ theirs \in [Ctx -> BOOLEAN]
  /\ owner \in [Ctx -> Owner]
  /\ waitjoin \in SUBSET Ctx
  /\ freed \in SUBSET Ctx
  /\ nest \in Seq(Ctx)
  /\ deferred \in SUBSET Ctx

\* A notification given to a suspended context is never lost: while the note
\* counter is not zero the alarm has been cancelled (note() only cancels it
\* for the first note, so a counter left over from before the suspension
\* would silence every later notification).
NoLostNote == \A c \in Ctx : cx[c].at = "wait" => cx[c].notes = 0

\* assert(notes == 1) in ctx::wait(): whatever others do, the counter of the
\* context that runs is one.
OneNoteRunning == \A c \in Ctx : Running(c) => cx[c].notes = 1

\* An interrupt or termination that reaches a suspended context ends its
\* suspension for good: whichever loop of the library it waits in (the join, the
\* destructor's, the courtesy yield's), it does not go back to sleep over a flag
\* that would throw, unless it had it when it went to sleep.
Woken ==
  \A c \in Ctx : Suspended(cx, c) /\ cx'[c].at = "wait" /\ Interruption(cx'[c])
                 => cx[c].at = "wait" /\ Interruption(cx[c])

InterruptsWake == [][Woken]_vars

\* "a context switch is an interruption point and so the context will wake up
\* in its exception handler" (context.h): no context sleeps with an interrupt
\* or termination that it would throw at its next interruption point.  Nobody
\* would wake it: interrupt() and terminate() do nothing for a flag that is lit.
NoSleepingInterrupt ==
  \A c \in Ctx : cx[c].at = "wait" => ~Interruption(cx[c])

\* A context that waits in ctx::adjoindre for a child that has finished has
\* been woken: the notification from the child's base frame reaches all.
NoMissedJoin ==
  \A c \in Ctx : pc[c] \in {"join", "destroy"} /\ Finished(target[c])
                 => cx[c].at # "wait"

\* assert(yc == nullptr) in ~ctx(): a ctx is deleted only when its base frame
\* has returned, however its owner went away.
NoFreeWhileActive == \A d \in freed : Finished(d)

\* The comment of ctx::wait(): a context that was notified before it suspends
\* does not suspend, the note is handled.
NotedDoesNotSuspend ==
  [][\A c \in Ctx : Running(c) /\ cx[c].notes > 1 => cx'[c].at # "wait"]_vars

\* ~context() returns: the terminated child finishes and the destructor's
\* join sees it.
DestroyReturns ==
  \A c \in Ctx : pc[c] = "destroy" ~> pc[c] # "destroy"
=============================================================================
