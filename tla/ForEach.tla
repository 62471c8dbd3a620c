------------------------------- MODULE ForEach ------------------------------
(***************************************************************************)
(* ctx::concurrent_for_each and ctx::concurrent                            *)
(* (src/include/ircd/ctx/concurrent_for_each.h, concurrent.h) over a pool: *)
(* a context hands one closure for each element to the pool and waits for  *)
(* all of them, the first on a ctx::latch that was made for the length of  *)
(* the list (latch.h), the second on a dock, until as many have finished as*)
(* were sent.  The closures refer to the waiting context's stack.          *)
(*                                                                         *)
(* Contexts do not preempt each other: while one runs its loop, without    *)
(* waiting for the pool, nobody else takes a step.                         *)
(***************************************************************************)
EXTENDS Pool

CONSTANTS Latched,     \* the clients that use concurrent_for_each
          Throwing,    \* the clients whose function may throw
          Elements     \* how many elements each call sends

ASSUME ForEachAssumption == /\ Latched \subseteq Client
                            /\ Latched \cap Interruptible = {}
                            /\ Throwing \subseteq Client
                            /\ Elements \in [Client -> Nat]

VARIABLES at,                \* where each client's call is
          snd, rcv, fin,     \* the counters of a call
          eptr,              \* whether it keeps an exception
          waiting,           \* the clients that wait for their closures
          jobs,              \* the pool's queue: whose call a closure is of, if any
          job                \* whose closure a worker runs

counts == <<snd, rcv, fin, eptr>>
callVars == <<vars, at, counts, waiting, jobs, job>>

(* Before the call, in the loop that sends, waiting for the closures, and   *)
(* returned.  Every client makes one call.                                  *)
At == {"out", "loop", "wait", "done"}

CallInit ==
  /\ Init
  /\ at = [c \in Client |-> "out"]
  /\ snd = [c \in Client |-> 0]
  /\ rcv = [c \in Client |-> 0]
  /\ fin = [c \in Client |-> 0]
  /\ eptr = [c \in Client |-> FALSE]
  /\ waiting = {}
  /\ jobs = <<>>
  /\ job = [w \in Worker |-> {}]

-----------------------------------------------------------------------------
\* Nobody runs the loop of a call.
Idle == \A c \in Client : at[c] = "loop" => pc[c] = "full"

\* A bug: what the wait is for counts the closures that were begun.
ReadyReceived(c) == IF c \in Latched THEN rcv[c] = Elements[c] ELSE snd[c] = rcv[c]

\* latch::is_ready(), or what concurrent::wait() waits for.
Ready(c) == IF c \in Latched THEN fin[c] = Elements[c] ELSE snd[c] = fin[c]

\* latch::wait(), and ~concurrent(), which waits however its scope is left:
\* neither can be interrupted.  They return if there is nothing to wait for.
Await(c) ==
  /\ at' = [at EXCEPT ![c] = IF Ready(c)' THEN "done" ELSE "wait"]
  /\ waiting' = IF Ready(c)' THEN waiting ELSE waiting \cup {c}

\* What follows p(): it is still waiting for the pool; the queue was full and
\* it threw, out of the frame or to the destructor; or the closure is queued,
\* and `concurrent` throws what it keeps of the earlier ones.
Submitted(c) ==
  IF pc'[c] = "full" THEN UNCHANGED <<at, waiting, jobs>>
  ELSE IF size' = size
  THEN /\ IF c \in Latched THEN at' = [at EXCEPT ![c] = "done"] /\ UNCHANGED waiting
                           ELSE Await(c)
       /\ UNCHANGED jobs
  ELSE /\ jobs' = Append(jobs, {c})
       /\ IF c \notin Latched /\ eptr[c] THEN Await(c) ELSE UNCHANGED <<at, waiting>>

-----------------------------------------------------------------------------
(* Clients.                                                                *)

Begin(c) == /\ at[c] = "out" /\ Idle
            /\ at' = [at EXCEPT ![c] = "loop"]
            /\ UNCHANGED <<vars, counts, waiting, jobs, job>>

\* An element is sent, if the loop goes on: ++snd comes before the pool is
\* waited for.
Send(c) == /\ at[c] = "loop" /\ snd[c] < Elements[c]
           /\ ~(c \in Latched /\ eptr[c])
           /\ Submit(c)
           /\ snd' = [snd EXCEPT ![c] = @ + 1]
           /\ UNCHANGED <<rcv, fin, eptr, job>>
           /\ Submitted(c)

\* The pool has a place, or had one.
SendResume(c) == /\ at[c] = "loop" /\ Idle
                 /\ SubmitResume(c)
                 /\ UNCHANGED <<counts, job>>
                 /\ Submitted(c)

\* An interrupt while the pool is waited for unwinds the caller.
SendInterrupted(c) == /\ at[c] = "loop" /\ Idle
                      /\ SubmitInterrupted(c)
                      /\ UNCHANGED <<counts, jobs, job>>
                      /\ Await(c)

\* The loop ends: after its last element or an exception, for `concurrent`
\* whenever its user is done.
EndLoop(c) == /\ at[c] = "loop" /\ pc[c] = "out"
              /\ c \in Latched => snd[c] = Elements[c] \/ eptr[c]
              /\ UNCHANGED <<vars, counts, jobs, job>>
              /\ Await(c)

\* Whoever waits is notified, and tests again.
AwaitResume(c) == /\ at[c] = "wait" /\ c \notin waiting /\ Idle
                  /\ UNCHANGED <<vars, counts, jobs, job>>
                  /\ Await(c)

-----------------------------------------------------------------------------
(* Workers.                                                                *)

\* What the function throws, an interrupt of the worker included, is kept.
Outcomes(w) == IF job[w] \subseteq Throwing \/ Flagged(w) THEN BOOLEAN ELSE {FALSE}

\* A bug: the latch notifies before it has counted down.
FinishUncounted(w) ==
  /\ fin' = [c \in Client |-> IF c \in job[w] THEN fin[c] + 1 ELSE fin[c]]
  /\ \E thrown \in Outcomes(w) :
       eptr' = [c \in Client |-> eptr[c] \/ (thrown /\ c \in job[w])]
  /\ waiting' = {c \in waiting : ~(c \in job[w] /\ (c \in Latched => Ready(c)))}

\* The rest of the closure the worker runs, if it runs one.  The latch notifies
\* when it has counted down to zero, the dock each time.
Finish(w) ==
  /\ fin' = [c \in Client |-> IF c \in job[w] THEN fin[c] + 1 ELSE fin[c]]
  /\ \E thrown \in Outcomes(w) :
       eptr' = [c \in Client |-> eptr[c] \/ (thrown /\ c \in job[w])]
  /\ waiting' = {c \in waiting : ~(c \in job[w] /\ (c \in Latched => Ready(c)'))}

\* The worker may take another closure, and begins it.
Take(w) == LET taken == IF size' < size THEN Head(jobs) ELSE {} IN
  /\ jobs' = IF size' < size THEN Tail(jobs) ELSE jobs
  /\ job' = [job EXCEPT ![w] = taken]
  /\ rcv' = [c \in Client |-> IF c \in taken THEN rcv[c] + 1 ELSE rcv[c]]

\* A worker's step from one switch to the next.  The closures of a call catch
\* everything.
Work(w) == /\ Idle
           /\ \/ Start(w) \/ StartFlagged(w)
              \/ PopResume(w) \/ PopInterrupted(w) \/ PopTerminated(w)
              \/ JobDone(w) \/ JobTerminated(w)
              \/ job[w] = {} /\ JobThrew(w)
           /\ UNCHANGED <<at, snd>>
           /\ Take(w)
           /\ Finish(w)

\* A handler of the event loop submits a closure of its own.
OtherJob == /\ Idle
            /\ SubmitHandler
            /\ jobs' = IF size' > size THEN Append(jobs, {}) ELSE jobs
            /\ UNCHANGED <<at, counts, waiting, job>>

\* From outside, when no context runs.
Signal == /\ Idle
          /\ \/ \E c \in Worker \cup Client : Interrupt(c)
             \/ \E w \in Worker : Terminate(w)
          /\ UNCHANGED <<at, counts, waiting, jobs, job>>

-----------------------------------------------------------------------------
Call(c) == \/ Send(c) \/ SendResume(c) \/ SendInterrupted(c)
           \/ EndLoop(c) \/ AwaitResume(c)

CallNext == \/ \E c \in Client : Begin(c) \/ Call(c)
            \/ \E w \in Worker : Work(w)
            \/ OtherJob \/ Signal

(* Fairness.  What can be resumed is, in the order of the ios queue, and the*)
(* functions return.                                                        *)
CallSpec == /\ CallInit /\ [][CallNext]_callVars
            /\ \A c \in Client : WF_callVars(Call(c))
            /\ \A w \in Worker : WF_callVars(Work(w))

-----------------------------------------------------------------------------
(* Properties.                                                             *)

\* The closures refer to the stack of their call: when it returns, by whatever
\* exception, none of them is left in the queue or in a worker.
Framed == \A c \in Client : at[c] = "done" =>
            /\ \A i \in DOMAIN jobs : c \notin jobs[i]
            /\ \A w \in Worker : c \notin job[w]

\* What the code leaves waiting for ever: the latch counts elements that nobody
\* sends after an exception, and `concurrent` an element whose sending was
\* interrupted.
Queued(c) == Cardinality({i \in DOMAIN jobs : c \in jobs[i]})
Abandoned(c) == /\ at[c] = "wait"
                /\ IF c \in Latched THEN eptr[c] /\ snd[c] < Elements[c]
                                    ELSE rcv[c] + Queued(c) < snd[c]

\* Every other call returns once handlers submit nothing more, however the pool
\* is shared and whichever workers are terminated, as long as one of them lives
\* and the pool is not deserted.
Quiet == <>[][~OtherJob]_callVars
Unserved == Deserted \/ \A w \in Worker : pc[w] \in Finished
Returns ==
  Quiet => <>[](\A c \in Client :
                  at[c] \in {"out", "done"} \/ Abandoned(c) \/ Unserved)
=============================================================================
