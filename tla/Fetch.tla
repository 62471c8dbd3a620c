------------------------------- MODULE Fetch --------------------------------
(***************************************************************************)
(* m::fetch (src/matrix/fetch.cc, src/include/ircd/m/fetch.h): what this   *)
(* server misses is asked of one remote server after the other.  Requests  *)
(* for the same thing are one, which answers everybody who asked.          *)
(*                                                                         *)
(* A caller makes the first attempt itself; one context, the worker, waits *)
(* for whichever answer comes first (when_any()), or five seconds, and     *)
(* goes on with it.  Both hold requests_mutex meanwhile, but for that      *)
(* wait.  Callers that find the unit full and the worker that finds it     *)
(* idle wait on one dock.  The mutex is that of module Lock, and what      *)
(* joined keeps of promises and futures is that of module Promises.        *)
(***************************************************************************)
EXTENDS Naturals, FiniteSets, List

CONSTANTS Caller,
          Worker,    \* the context of request_worker()
          None,
          Key,       \* what is asked for: operation, room and event
          Server,    \* remote servers
          RequestsMax,       \* ircd.m.fetch.requests.max
          Limit      \* opts::attempt_limit, here the same for all; 0 is none

ASSUME FetchAssumption == /\ Worker \notin Caller /\ None \notin Caller \cup {Worker} \cup Key
                          /\ IsFiniteSet(Server)
                          /\ RequestsMax \in Nat \ {0} /\ Limit \in Nat

VARIABLES requests,   \* the keys that have a request
          finished,   \* request::finished, of requests
          joined,     \* the callers whose futures the promise of a request has
          attempted,  \* request::attempted
          future,     \* request::future, with its answer
          observed,   \* those of the futures that a when_any() has returned
          overdue,    \* request::last is longer ago than the timeout
          at, asks,   \* where a context is, and the key a caller asks for
          holder,     \* the owner of requests_mutex
          q, asleep,  \* the dock, and those in it who were not notified
          watched,    \* the futures that `next' of a pass waits for
          got,        \* what came of it
          late,       \* the wait for it timed out
          work, todo  \* the request the worker goes on with, those it has still to see

request == <<requests, finished, joined, attempted, future, observed, overdue>>
dock == <<q, asleep>>
pass == <<watched, got, late, work, todo>>
vars == <<request, at, asks, holder, dock, pass>>

Context == Caller \cup {Worker}
Answered == {"value", "error", "broken", "left"}

Init == /\ requests = {} /\ finished = {} /\ observed = {} /\ overdue = {}
        /\ joined = [k \in Key |-> {}]
        /\ attempted = [k \in Key |-> {}]
        /\ future = [k \in Key |-> "none"]
        /\ at = [c \in Context |-> IF c = Worker THEN "dock" ELSE "idle"]
        /\ asks = [c \in Caller |-> None]
        /\ holder = None
        /\ q = <<Worker>> /\ asleep = {Worker}
        /\ watched = {} /\ got = None /\ late = FALSE
        /\ work = None /\ todo = {}

-----------------------------------------------------------------------------
(* The dock and the end of a request.                                      *)

Unfinished == requests \ finished
Full == Cardinality(requests) >= RequestsMax

\* What the contexts in the dock wait for.
Ready(c) == IF c = Worker THEN Unfinished # {} ELSE ~Full

Goes(c, place) == at' = [at EXCEPT ![c] = place]

\* The promise has no future any more.
Abandoned(k) == joined[k] = {}

\* ~scope_notify: dock::notify(), the front, which goes to the back.
Notify == q' = Rotate(q) /\ asleep' = asleep \ Foremost(q)

\* The callers in who get this answer; the others, and who is moved to, go on.
Answers(who, answer, c, place) ==
  at' = [d \in Context |-> IF d \in who THEN answer ELSE IF d = c THEN place ELSE at[d]]

\* Requests that are removed from the set, with what is left of them.
Erase(keys) ==
  /\ requests' = requests \ keys
  /\ finished' = finished \ keys
  /\ joined' = [k \in Key |-> IF k \in keys THEN {} ELSE joined[k]]
  /\ attempted' = [k \in Key |-> IF k \in keys THEN {} ELSE attempted[k]]
  /\ future' = [k \in Key |-> IF k \in keys THEN "none" ELSE future[k]]
  /\ observed' = observed \ keys
  /\ overdue' = overdue \ keys

-----------------------------------------------------------------------------
(* fetch::start().                                                         *)

Ask(c, k) ==
  /\ at[c] = "idle"
  /\ asks' = [asks EXCEPT ![c] = k]
  /\ IF Full
     THEN Goes(c, "dock") /\ q' = Append(q, c) /\ asleep' = asleep \cup {c}
     ELSE Goes(c, "lock") /\ UNCHANGED dock
  /\ UNCHANGED <<request, holder, pass>>

\* dock.wait(): a context that was notified tests what it waits for.
Resume(c) ==
  /\ at[c] = "dock" /\ c \notin asleep
  /\ IF Ready(c)
     THEN Goes(c, "lock") /\ q' = Unlink(q, c) /\ UNCHANGED asleep
     ELSE asleep' = asleep \cup {c} /\ UNCHANGED <<at, q>>
  /\ UNCHANGED <<request, asks, holder, pass>>

\* A caller has the mutex.  It joins the request there is, or makes one, which it
\* attempts before it gives the mutex back.
Enter(c) ==
  /\ at[c] = "lock" /\ holder = None
  /\ LET k == asks[c] IN
       /\ joined' = [joined EXCEPT ![k] = @ \cup {c}]
       /\ IF k \in requests
          THEN Goes(c, "joined") /\ Notify /\ UNCHANGED <<requests, holder>>
          ELSE /\ requests' = requests \cup {k} /\ holder' = c
               /\ Goes(c, "start") /\ UNCHANGED dock
  /\ UNCHANGED <<finished, attempted, future, observed, overdue, asks, pass>>

\* A caller does not want the answer any more, or not wait for its turn.
Leave(c) ==
  /\ at[c] \in {"dock", "lock", "joined"} /\ c \in Caller
  /\ Goes(c, "left")
  /\ IF at[c] = "dock"
     THEN q' = Unlink(q, c) /\ asleep' = asleep \ ({c} \cup Foremost(q'))
     ELSE UNCHANGED dock
  /\ joined' = [joined EXCEPT ![asks[c]] = @ \ {c}]
  /\ UNCHANGED <<requests, finished, attempted, future, observed, overdue, asks, holder, pass>>

-----------------------------------------------------------------------------
(* start(request): who has the mutex attempts one server after the other.  *)

\* The servers that can be asked at this moment: those in the room, without the
\* ones that m::fed knows not to work, or that were asked already.
Proffered(k) == SUBSET (Server \ attempted[k])

Exhausted(k) == Limit # 0 /\ Cardinality(attempted[k]) >= Limit

\* An attempt is under way.
Sent(k, s) ==
  /\ attempted' = [attempted EXCEPT ![k] = @ \cup {s}]
  /\ future' = [future EXCEPT ![k] = "pending"]
  /\ observed' = observed \ {k} /\ overdue' = overdue \ {k}
  /\ UNCHANGED <<requests, finished, joined>>

\* An attempt that could not be made: the next one.
Failed(k, s) ==
  /\ attempted' = [attempted EXCEPT ![k] = @ \cup {s}]
  /\ UNCHANGED <<requests, finished, joined, future, observed, overdue, at, holder, dock, pass>>

\* A bug: the request isn't marked.
FinishUnmarked(k) ==
  /\ joined' = [joined EXCEPT ![k] = {}]
  /\ UNCHANGED <<requests, finished, attempted, future, observed, overdue>>

\* finish() with an error, for want of a server or of a caller.
Finish(k) ==
  /\ finished' = finished \cup {k}
  /\ joined' = [joined EXCEPT ![k] = {}]
  /\ UNCHANGED <<requests, attempted, future, observed, overdue>>

\* A bug: nobody is told of the attempt.
TellNobody(c) == UNCHANGED dock

\* dock.notify_all(), and the notification at the end of a caller's scope.
Tell(c) == asleep' = {} /\ q' = IF c = Worker THEN q ELSE Rotate(q)

\* The attempt of k by c, which goes to one of two places.
Attempt(c, k, sent, failed) ==
  /\ \E proffered \in Proffered(k) :
       IF proffered = {} \/ Exhausted(k) \/ Abandoned(k)
       THEN /\ Finish(k) /\ Answers(joined[k], "error", c, failed)
            /\ IF c = Worker
               THEN UNCHANGED <<holder, dock>>
               ELSE holder' = None /\ Notify
            /\ work' = IF failed = "sweep" THEN None ELSE work
            /\ UNCHANGED <<watched, got, late, todo>>
       ELSE \E s \in proffered :
              \/ /\ Sent(k, s) /\ Goes(c, sent) /\ Tell(c)
                 /\ holder' = IF c = Worker THEN holder ELSE None
                 /\ work' = IF c = Worker THEN None ELSE work
                 /\ UNCHANGED <<watched, got, late, todo>>
              \/ Failed(k, s)
  /\ UNCHANGED asks

FirstAttempt(c) == c \in Caller /\ at[c] = "start" /\ Attempt(c, asks[c], "joined", "error")

-----------------------------------------------------------------------------
(* request_handle(): a pass of the worker.                                 *)

Pending == {k \in requests : future[k] = "pending"}
Arrived == {k \in requests \ observed : future[k] \in {"good", "bad"}}

\* request_cleanup() begins, after the requests in gone were erased.
Sweep(gone) ==
  /\ Goes(Worker, "sweep")
  /\ work' = None /\ todo' = overdue \ gone

\* The answer is taken, and tested, which takes a while.
Handle(k) == Goes(Worker, "check") /\ work' = k /\ UNCHANGED todo

\* when_any() over all the requests.
Look ==
  /\ at[Worker] = "lock" /\ holder = None
  /\ IF Arrived # {}
     THEN /\ \E k \in Arrived : observed' = observed \cup {k} /\ Handle(k)
          /\ holder' = Worker /\ UNCHANGED watched
     ELSE IF Pending # {}
          THEN Goes(Worker, "wait") /\ watched' = Pending /\ UNCHANGED <<holder, observed, work, todo>>
          ELSE Sweep({}) /\ holder' = Worker /\ UNCHANGED <<watched, observed>>
  /\ UNCHANGED <<requests, finished, joined, attempted, future, overdue, asks, dock, got, late>>

\* The worker has the mutex again after its wait.
Back(timedout) ==
  /\ holder' = Worker
  /\ IF timedout THEN Sweep({}) ELSE Handle(got)

\* The wait ends, with an answer or without; if nobody has the mutex it goes on.
Ring ==
  /\ at[Worker] = "wait"
  /\ late' = (got = None)
  /\ IF holder = None
     THEN Back(late')
     ELSE Goes(Worker, "relock") /\ UNCHANGED <<holder, work, todo>>
  /\ UNCHANGED <<request, asks, dock, watched, got>>

Relock == /\ at[Worker] = "relock" /\ holder = None
          /\ Back(late)
          /\ UNCHANGED <<request, asks, dock, watched, got, late>>

\* retry(): the attempt there was is cancelled.
Cancel(k) ==
  /\ future' = [future EXCEPT ![k] = "none"]
  /\ observed' = observed \ {k} /\ watched' = watched \ {k}
  /\ work' = k
  /\ UNCHANGED <<requests, finished, joined, attempted, overdue>>

\* handle(), after check_response().
Checked ==
  /\ at[Worker] = "check"
  /\ IF future[work] = "good" \/ Abandoned(work)
     THEN /\ Erase({work})
          /\ at' = [c \in Context |-> IF c = Worker THEN "sweep"
                                      ELSE IF c \in joined[work] THEN "value" ELSE at[c]]
          /\ work' = None /\ todo' = overdue \ {work}
          /\ UNCHANGED watched
     ELSE Cancel(work) /\ Goes(Worker, "again") /\ UNCHANGED todo
  /\ UNCHANGED <<asks, holder, dock, got, late>>

\* The attempts of handle(): a request for which there are no more is erased.
Again == at[Worker] = "again" /\ work # None /\ Attempt(Worker, work, "end", "over")
Over == /\ at[Worker] = "over"
        /\ Erase({work}) /\ Sweep({work})
        /\ UNCHANGED <<asks, holder, dock, watched, got, late>>

\* A bug: only those without an answer are retried.
StalePending(k) == k \in Unfinished /\ ~Abandoned(k) /\ future[k] = "pending"

\* The first loop of request_cleanup(): the requests that wait for too long.
Stale(k) == k \in Unfinished /\ ~Abandoned(k)
SweepNext == /\ at[Worker] = "sweep" /\ work = None
             /\ \E k \in todo : Stale(k) /\ Cancel(k) /\ todo' = todo \ {k}
             /\ UNCHANGED <<at, asks, holder, dock, got, late>>
SweepAttempt == at[Worker] = "sweep" /\ work # None /\ Attempt(Worker, work, "sweep", "sweep")

\* The second one: finished and abandoned requests are erased.
SweepEnd == /\ at[Worker] = "sweep" /\ work = None /\ \A k \in todo : ~Stale(k)
            /\ LET gone == {k \in requests : k \in finished \/ Abandoned(k)} IN
                 Erase(gone) /\ Answers(UNION {joined[k] : k \in gone}, "broken", Worker, "end")
            /\ todo' = {}
            /\ UNCHANGED <<asks, holder, dock, watched, got, late, work>>

\* The end of a pass, and dock.wait() for the next.
EndPass ==
  /\ at[Worker] = "end"
  /\ holder' = None /\ watched' = {} /\ got' = None /\ late' = FALSE
  /\ IF Ready(Worker)
     THEN Goes(Worker, "lock") /\ Notify
     ELSE /\ Goes(Worker, "dock")
          /\ q' = Append(Rotate(q), Worker)
          /\ asleep' = (asleep \ Foremost(q)) \cup {Worker}
  /\ UNCHANGED <<request, asks, work, todo>>

-----------------------------------------------------------------------------
(* Around it.                                                              *)

\* An attempt ends.  A `next' that still waits for it takes it, also when nobody
\* will look at `next' any more.
Answer(k) ==
  /\ future[k] = "pending"
  /\ \E answer \in {"good", "bad"} : future' = [future EXCEPT ![k] = answer]
  /\ IF k \in watched /\ got = None
     THEN got' = k /\ observed' = observed \cup {k}
     ELSE UNCHANGED <<got, observed>>
  /\ UNCHANGED <<requests, finished, joined, attempted, overdue, at, asks, holder, dock,
                 watched, late, work, todo>>

\* The timeout of an attempt passes.
Late(k) == /\ k \in requests \ overdue /\ future[k] # "none"
           /\ overdue' = overdue \cup {k}
           /\ UNCHANGED <<requests, finished, joined, attempted, future, observed, at, asks,
                          holder, dock, pass>>

Passes == \/ Look \/ Ring \/ Relock \/ Checked \/ Again \/ Over
          \/ SweepNext \/ SweepAttempt \/ SweepEnd \/ EndPass

Next == \/ \E c \in Caller : (\E k \in Key : Ask(c, k)) \/ Enter(c) \/ Leave(c) \/ FirstAttempt(c)
        \/ \E c \in Context : Resume(c)
        \/ Passes
        \/ \E k \in Key : Answer(k) \/ Late(k)

Spec == Init /\ [][Next]_vars

\* Contexts that can go on do, and time passes.  No remote need ever answer and
\* nobody need give up.
FairSpec == /\ Spec
            /\ WF_vars(Passes)
            /\ \A c \in Caller : WF_vars(Enter(c)) /\ WF_vars(FirstAttempt(c))
            /\ \A c \in Context : WF_vars(Resume(c))
            /\ \A k \in Key : WF_vars(Late(k))

-----------------------------------------------------------------------------
(* Properties.                                                             *)

TypeOK == /\ requests \subseteq Key /\ finished \subseteq requests
          /\ joined \in [Key -> SUBSET Caller]
          /\ attempted \in [Key -> SUBSET Server]
          /\ future \in [Key -> {"none", "pending", "good", "bad"}]
          /\ observed \subseteq requests /\ overdue \subseteq requests
          /\ at \in [Context -> {"idle", "dock", "lock", "start", "joined", "wait", "relock",
                                 "check", "again", "over", "sweep", "end"} \cup Answered]
          /\ asks \in [Caller -> Key \cup {None}]
          /\ holder \in Context \cup {None}
          /\ q \in Seq(Context) /\ asleep \subseteq Context
          /\ watched \subseteq Key /\ got \in Key \cup {None}
          /\ late \in BOOLEAN
          /\ work \in Key \cup {None} /\ todo \subseteq Key

\* The keys somebody makes attempts for.
Attempting == {k \in Key : \/ \E c \in Caller : at[c] = "start" /\ asks[c] = k
                           \/ k = work /\ at[Worker] \in {"again", "sweep"}}

\* The worker does not sleep beside a request that is under way, though it shares
\* its dock with callers and most notifications are for one.
Attended == Unfinished \ Attempting # {} => ~(at[Worker] = "dock" /\ Worker \in asleep)

\* A request that isn't finished has an attempt, or somebody makes one; one that
\* is has none, so that no answer comes for it.
InFlight == \A k \in requests :
              IF k \in finished THEN future[k] = "none"
              ELSE future[k] # "none" \/ k \in Attempting

\* Who waits for an answer has joined a request that still has his future: no
\* request is erased, and no promise dropped, without a word to those who wait.
Held == \A c \in Caller : at[c] \in {"start", "joined"}
                           => asks[c] \in requests /\ c \in joined[asks[c]]

\* "Once one server can provide a satisfying response" the request has it.
Satisfied == [][\A k \in Key : future[k] = "good" /\ future'[k] # "good"
                                  => \A c \in joined[k] : at'[c] # "joined"]_vars

\* The unit's capacity is kept.
Capacity == Cardinality(requests) <= RequestsMax

\* Who joins a request under way gets an answer, or the error, in the end: after
\* a timeout for every server, whatever the servers do and whoever comes and goes.
Served == \A c \in Caller : (at[c] = "joined" /\ asks[c] \notin finished) ~> at[c] # "joined"

\* The same for whoever has a future.
Everybody == \A c \in Caller : at[c] = "joined" ~> at[c] # "joined"
=============================================================================
