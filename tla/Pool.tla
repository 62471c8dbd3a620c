-------------------------------- MODULE Pool --------------------------------
(***************************************************************************)
(* ircd::ctx::pool and the ctx::queue under it (src/ircd/ctx.cc,           *)
(* src/include/ircd/ctx/pool.h, queue.h): worker contexts that pop closures*)
(* off a queue, and client contexts that are held back on a second dock,   *)
(* q_max, until a worker is free.                                          *)
(*                                                                         *)
(* A step is what a context does from one switch to the next.  Of a waiting*)
(* context only whether its resumption is on its way is kept (asleep).     *)
(***************************************************************************)
EXTENDS Integers, List

CONSTANTS Worker,     \* pool::ctxs
          Client,     \* contexts that submit
          Soft,       \* opts::queue_max_soft
          Dispatch,   \* opts::dispatch: "FIFO" or "LIFO"
          Hard,       \* opts::queue_max_hard
          Handlers,   \* whether handlers outside any context submit too
          Interruptible,   \* the contexts that may be interrupted
          Terminable       \* the workers that may be terminated

ASSUME PoolAssumption == /\ Worker \cap Client = {}
                         /\ Soft \in Nat /\ Hard \in Nat
                         /\ Dispatch \in {"FIFO", "LIFO"}
                         /\ Handlers \in BOOLEAN
                         /\ Interruptible \subseteq Worker \cup Client
                         /\ Terminable \subseteq Worker

VARIABLES pc,            \* where each context is
          size,          \* the closures in pool::q
          idle,          \* the list of the queue's dock
          full,          \* the list of q_max
          asleep,        \* the waiters of either that are not being resumed
          interrupted,   \* those that were interrupted, and
          terminated     \* terminated, with the flag still lit

flags == <<interrupted, terminated>>
vars == <<pc, size, idle, full, asleep, flags>>

Member == Worker \cup Client

(* Workers: spawn posted, in pop(), running a closure; and finished, before *)
(* main(), terminated in pop(), or terminated in a closure.  Clients:       *)
(* outside the pool, waiting on q_max.                                      *)
Finished == {"unborn", "left", "quit"}
Pc == {"posted", "pop", "work", "out", "full"} \cup Finished

Init == /\ pc = [c \in Member |-> IF c \in Worker THEN "posted" ELSE "out"]
        /\ size = 0
        /\ idle = <<>> /\ full = <<>>
        /\ asleep = {} /\ interrupted = {} /\ terminated = {}

-----------------------------------------------------------------------------
\* running - working: the workers inside pop().
Avail == Cardinality({w \in Worker : pc[w] = "pop"})

WouldBlock == /\ ~(size < Soft)
              /\ ~(Soft = 0 /\ size < Avail)

\* queue::push(), which notifies the workers, unless the hard limit throws.
Push == IF size < Hard
        THEN /\ size' = size + 1
             /\ idle' = Rotate(idle)
             /\ asleep' = asleep \ Foremost(idle)
        ELSE UNCHANGED <<size, idle, asleep>>

\* main()'s loop from the end of one work() to the next switch: take a closure,
\* or wait in list q; those of `awake` have been notified meanwhile.
Loop(w, q, awake) ==
  IF size > 0
  THEN /\ size' = size - 1
       /\ pc' = [pc EXCEPT ![w] = "work"]
       /\ idle' = q
       /\ asleep' = asleep \ awake
  ELSE /\ pc' = [pc EXCEPT ![w] = "pop"]
       /\ idle' = IF Dispatch = "LIFO" THEN <<w>> \o q ELSE Append(q, w)
       /\ asleep' = (asleep \ awake) \cup {w}
       /\ UNCHANGED size

Flagged(c) == c \in interrupted \cup terminated

\* The flag is cleared when `interrupted` is thrown.
Clear(c) == interrupted' = interrupted \ {c} /\ UNCHANGED terminated

-----------------------------------------------------------------------------
(* Workers.                                                                *)

\* main(): one more worker is available.
Start(w) ==
  /\ pc[w] = "posted" /\ ~Flagged(w)
  /\ Loop(w, idle, Foremost(full))
  /\ full' = Rotate(full)
  /\ UNCHANGED flags

\* A precocious interrupt: main() is not entered.
StartFlagged(w) ==
  /\ pc[w] = "posted" /\ Flagged(w)
  /\ pc' = [pc EXCEPT ![w] = "unborn"]
  /\ Clear(w)
  /\ UNCHANGED <<size, idle, full, asleep>>

\* queue::pop() tests its predicate.
PopResume(w) ==
  /\ pc[w] = "pop" /\ w \notin asleep /\ ~Flagged(w)
  /\ IF size > 0
     THEN /\ size' = size - 1
          /\ pc' = [pc EXCEPT ![w] = "work"]
          /\ idle' = Unlink(idle, w)
          /\ UNCHANGED asleep
     ELSE /\ asleep' = asleep \cup {w}
          /\ UNCHANGED <<size, pc, idle>>
  /\ UNCHANGED <<full, flags>>

\* `interrupted` leaves pop(), whose dock renotifies, and is stopped in work().
PopInterrupted(w) ==
  /\ pc[w] = "pop" /\ w \notin asleep /\ w \in interrupted \ terminated
  /\ LET q == Unlink(idle, w) IN Loop(w, q, Foremost(q))
  /\ Clear(w)
  /\ UNCHANGED full

\* A bug: the notification of a terminated worker is lost.
PopTerminatedSilent(w) ==
  /\ pc[w] = "pop" /\ w \notin asleep /\ w \in terminated
  /\ idle' = Unlink(idle, w)
  /\ pc' = [pc EXCEPT ![w] = "left"]
  /\ UNCHANGED <<size, full, flags, asleep>>

\* `terminated` leaves main().
PopTerminated(w) ==
  /\ pc[w] = "pop" /\ w \notin asleep /\ w \in terminated
  /\ idle' = Unlink(idle, w)
  /\ asleep' = asleep \ Foremost(idle')
  /\ pc' = [pc EXCEPT ![w] = "left"]
  /\ UNCHANGED <<size, full, flags>>

\* A bug: the closure's scope does not notify q_max.
JobDoneSilent(w) ==
  /\ pc[w] = "work" /\ w \notin terminated
  /\ Loop(w, idle, {})
  /\ Clear(w)
  /\ UNCHANGED full

\* The closure returned, or `interrupted` was thrown, by it or after it.
JobDone(w) ==
  /\ pc[w] = "work" /\ w \notin terminated
  /\ Loop(w, idle, Foremost(full))
  /\ full' = Rotate(full)
  /\ Clear(w)

\* The closure threw something else: an interrupt stays pending over the next.
JobThrew(w) ==
  /\ pc[w] = "work" /\ w \in interrupted \ terminated
  /\ Loop(w, idle, Foremost(full))
  /\ full' = Rotate(full)
  /\ UNCHANGED flags

\* The closure was unwound, or what it threw ends in main()'s test.
JobTerminated(w) ==
  /\ pc[w] = "work" /\ w \in terminated
  /\ pc' = [pc EXCEPT ![w] = "quit"]
  /\ full' = Rotate(full)
  /\ asleep' = asleep \ Foremost(full)
  /\ UNCHANGED <<size, idle, flags>>

-----------------------------------------------------------------------------
(* Clients.                                                                *)

\* operator()() in a context.
Submit(c) ==
  /\ pc[c] = "out"
  /\ IF WouldBlock
     THEN /\ pc' = [pc EXCEPT ![c] = "full"]
          /\ full' = Append(full, c)
          /\ asleep' = asleep \cup {c}
          /\ UNCHANGED <<size, idle>>
     ELSE Push /\ UNCHANGED <<pc, full>>
  /\ UNCHANGED flags

SubmitResume(c) ==
  /\ pc[c] = "full" /\ c \notin asleep /\ c \notin interrupted
  /\ IF WouldBlock
     THEN asleep' = asleep \cup {c} /\ UNCHANGED <<pc, full, size, idle>>
     ELSE /\ Push
          /\ full' = Unlink(full, c)
          /\ pc' = [pc EXCEPT ![c] = "out"]
  /\ UNCHANGED flags

SubmitInterrupted(c) ==
  /\ pc[c] = "full" /\ c \notin asleep /\ c \in interrupted
  /\ full' = Unlink(full, c)
  /\ asleep' = asleep \ Foremost(full')
  /\ pc' = [pc EXCEPT ![c] = "out"]
  /\ Clear(c)
  /\ UNCHANGED <<size, idle>>

\* operator()() on the event loop's own stack: it cannot wait.
SubmitHandler == /\ Handlers
                 /\ Push
                 /\ UNCHANGED <<pc, full, flags>>

-----------------------------------------------------------------------------
(* interrupt() and terminate() of a context, for a worker also by the pool. *)

Interrupt(c) ==
  /\ c \in Interruptible \ interrupted
  /\ pc[c] \notin Finished \cup {"out"}
  /\ interrupted' = interrupted \cup {c}
  /\ asleep' = asleep \ {c}
  /\ UNCHANGED <<pc, size, idle, full, terminated>>

Terminate(w) ==
  /\ w \in Terminable \ terminated
  /\ pc[w] \notin Finished
  /\ terminated' = terminated \cup {w}
  /\ asleep' = asleep \ {w}
  /\ UNCHANGED <<pc, size, idle, full, interrupted>>

WorkerStep(w) == \/ Start(w) \/ StartFlagged(w) \/ PopResume(w) \/ PopInterrupted(w)
                 \/ PopTerminated(w) \/ JobDone(w) \/ JobThrew(w) \/ JobTerminated(w)
ClientStep(c) == SubmitResume(c) \/ SubmitInterrupted(c)

Next == \/ \E w \in Worker : WorkerStep(w) \/ Terminate(w) \/ Interrupt(w)
        \/ \E c \in Client : Submit(c) \/ ClientStep(c) \/ Interrupt(c)
        \/ SubmitHandler

Spec == Init /\ [][Next]_vars

(* Fairness.  What can be resumed is, in the order of the ios queue, and    *)
(* closures return.                                                         *)
FairSpec == /\ Spec
            /\ \A w \in Worker : WF_vars(WorkerStep(w))
            /\ \A c \in Client : WF_vars(ClientStep(c))

-----------------------------------------------------------------------------
(* Properties.                                                             *)

TypeOK == /\ pc \in [Member -> Pc]
          /\ size \in Nat
          /\ idle \in Seq(Worker) /\ full \in Seq(Client)
          /\ asleep \in SUBSET Member
          /\ interrupted \in SUBSET Member /\ terminated \in SUBSET Worker

\* No closure is stranded: while one is queued and workers wait for closures,
\* one of these is being resumed, whoever was notified for it and was
\* interrupted, terminated or overtaken by a worker that did not wait.
NoStrandedClosure ==
  size > 0 /\ idle # <<>> => \E i \in DOMAIN idle : idle[i] \notin asleep

\* No client is stranded on q_max: when it could submit, one of those that
\* wait is being resumed.
NoStrandedClient ==
  full # <<>> /\ ~WouldBlock => \E i \in DOMAIN full : full[i] \notin asleep

\* "By default there is no queueing of jobs at all": contexts never queue more
\* than there are workers waiting, over every interleaving of their tests.
NoQueueing == Soft = 0 /\ ~Handlers /\ terminated = {} => size <= Avail

\* "notify consumer": as long as a worker waits for closures, a queued one has a
\* worker that will look at the queue, ...
ConsumerNotified ==
  size > 0 /\ (\E w \in Worker : pc[w] = "pop") =>
    \E w \in Worker : pc[w] = "work" \/ (pc[w] = "pop" /\ w \notin asleep)

\* ... which it loses only by two terminations of two kinds: a worker that leaves
\* pop() passes its notification to one that the next push() may notify again,
\* and whoever has two notifications may leave with its first closure.
Deserted == (\E w \in Worker : pc[w] = "left") /\ (\E w \in Worker : pc[w] = "quit")
QueueServed == Deserted \/ ConsumerNotified

\* Whatever is interrupted or terminated, a client that could submit is being
\* resumed, or will be by the end of some closure.
ClientsServed ==
  full # <<>> /\ ~WouldBlock =>
    \/ \E i \in DOMAIN full : full[i] \notin asleep
    \/ size > 0 \/ \E w \in Worker : pc[w] = "work"

\* As long as one worker lives, every queued closure is taken and every client
\* gets through, once no more clients come.
Calm == <>[][~SubmitHandler /\ \A c \in Client : ~Submit(c)]_vars
Lives == \E w \in Worker : [](pc[w] \notin Finished)
Served == Calm /\ Lives /\ []~Deserted =>
            /\ (size > 0) ~> (size = 0)
            /\ \A c \in Client : pc[c] = "full" ~> pc[c] = "out"
=============================================================================
