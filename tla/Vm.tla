--------------------------------- MODULE Vm ---------------------------------
(***************************************************************************)
(* ircd::m::vm (src/matrix/vm_execute.cc, vm_eval.cc, vm_seq.cc, vm.cc):   *)
(* the machine that evaluates Matrix events.  Many contexts evaluate at    *)
(* once; each evaluation of a PDU goes through the phases of               *)
(* vm::execute(), is given the sequence number under which its event will  *)
(* be indexed, and is held twice, by waiting on sequence::dock, until its  *)
(* turn in the sequence has come.                                          *)
(*                                                                         *)
(* A step is what an evaluation does between two points where its context  *)
(* can be switched.  A message sent by a client evaluates, from the POST   *)
(* hook of modules/client/rooms/send.cc, a second event that records the   *)
(* client's transaction id: an evaluation on top of another on one stack.  *)
(***************************************************************************)
EXTENDS Integers, List

CONSTANTS Eval,      \* objects of vm::eval
          Event,     \* the ids of the events offered to the machine
          Sent,      \* those a client of this server sends with a txnid
          None,      \* no evaluation, no event
          MaxSeq     \* bound on the sequence numbers given out

ASSUME VmAssumption == /\ Sent \subseteq Event
                       /\ Event \cap (Event \X (1..MaxSeq)) = {}
                       /\ None \notin Eval \cup Event \cup (Event \X (1..MaxSeq))
                       /\ MaxSeq \in Nat

VARIABLES phase,        \* eval::phase
          event,        \* eval::event_id; it counts once eval::event_ is set
          seq,          \* eval::sequence
          parent,       \* eval::parent, when that is in its POST phase
          txn,          \* eval::txn: the entries <<index, event>> to write
          dupq,         \* the list of vm::dock
          asleep,       \* the waiters of either dock that are not notified
          retired, committed, uncommitted,   \* vm::sequence
          db            \* the events database: entries <<index, event>>

evals == <<phase, event, seq, parent, txn>>
docks == <<dupq, asleep>>
counters == <<retired, committed, uncommitted>>
vars == <<evals, docks, counters, db>>

(* FETCH stands for the phases from ACCESS to FETCH_STATE, EVALUATE for    *)
(* those from AUTH_PRES to INDEX and NOTIFY for NOTIFY and EFFECTS; NONE   *)
(* is an evaluation that does not exist.                                   *)
Phase == {"NONE", "DUPWAIT", "DUPCHK", "FETCH", "PREINDEX", "PRECOMMIT",
          "AUTH_RELA", "COMMIT", "EVALUATE", "POST", "WRITE", "RETIRE",
          "NOTIFY"}

\* The id of the event that records the transaction of evaluation e.
Txnid(e) == <<event[e], seq[e]>>
Id == Event \cup (Event \X (1..MaxSeq))
Entry == (1..MaxSeq) \X Id

Alive(e) == phase[e] # "NONE"

\* eval::count(): evaluations whose event_ has this id.
Holding(id) == {e \in Eval : event[e] = id /\ phase[e] \notin {"NONE", "DUPWAIT"}}

\* m::exists().
Exists(id) == \E i \in 1..MaxSeq : <<i, id>> \in db

\* The evaluation is conducted below another that is in its POST phase.
ParentPost(e) == parent[e] # None
Child(e) == {k \in Eval : parent[k] = e}

\* eval::seqnext(s) == e
SeqNext(s, e) == /\ seq[e] > s
                 /\ \A f \in Eval : seq[f] > s => seq[e] <= seq[f]

SeqWaiter(e) == phase[e] \in {"PRECOMMIT", "COMMIT", "RETIRE"}

\* sequence::get(): i is the index of the last event in the database.
Highest(i) == /\ \A entry \in db : entry[1] <= i
              /\ i = 0 \/ \E entry \in db : entry[1] = i

Init == /\ phase = [e \in Eval |-> "NONE"]
        /\ event = [e \in Eval |-> None]
        /\ seq = [e \in Eval |-> 0]
        /\ parent = [e \in Eval |-> None]
        /\ txn = [e \in Eval |-> {}]
        /\ dupq = <<>> /\ asleep = {}
        /\ retired = 0 /\ committed = 0 /\ uncommitted = 0
        /\ db = {}

-----------------------------------------------------------------------------
(* The docks.                                                              *)

\* The list and the woken after vm::dock.notify() once, or twice.
Turned(q, twice) == IF twice THEN Rotate(Rotate(q)) ELSE Rotate(q)
Woken(q, twice) == Foremost(q) \cup (IF twice THEN Foremost(Rotate(q)) ELSE {})

SeqWaiters == {e \in Eval : SeqWaiter(e)}

\* A bug: the sequence is only released by an evaluation that succeeds.
LeaveUnreleased(S) ==
  /\ phase' = [e \in Eval |-> IF e \in S THEN "NONE" ELSE phase[e]]
  /\ event' = [e \in Eval |-> IF e \in S THEN None ELSE event[e]]
  /\ seq' = [e \in Eval |-> IF e \in S THEN 0 ELSE seq[e]]
  /\ parent' = [e \in Eval |-> IF e \in S THEN None ELSE parent[e]]
  /\ txn' = [e \in Eval |-> IF e \in S THEN {} ELSE txn[e]]
  /\ asleep' = asleep \ (Woken(dupq, Cardinality(S) = 2) \cup S)
  /\ dupq' = Turned(dupq, Cardinality(S) = 2)

\* The evaluations S of one stack end inside execute_pdu(): its exit notifies
\* all of sequence::dock and that of execute(), for each, one of vm::dock.
Leave(S) ==
  /\ phase' = [e \in Eval |-> IF e \in S THEN "NONE" ELSE phase[e]]
  /\ event' = [e \in Eval |-> IF e \in S THEN None ELSE event[e]]
  /\ seq' = [e \in Eval |-> IF e \in S THEN 0 ELSE seq[e]]
  /\ parent' = [e \in Eval |-> IF e \in S THEN None ELSE parent[e]]
  /\ txn' = [e \in Eval |-> IF e \in S THEN {} ELSE txn[e]]
  /\ asleep' = asleep \ (Woken(dupq, Cardinality(S) = 2) \cup SeqWaiters)
  /\ dupq' = Turned(dupq, Cardinality(S) = 2)

\* execute_pdu() returned ACCEPT: on to the notify and effect hooks.
Accept(e) == /\ phase' = [phase EXCEPT ![e] = "NOTIFY"]
             /\ asleep' = asleep \ SeqWaiters

Goto(e, p) == phase' = [phase EXCEPT ![e] = p]
Sleep(e, p) == Goto(e, p) /\ asleep' = asleep \cup {e}

-----------------------------------------------------------------------------
(* Entering: CONFORM, DUPWAIT and DUPCHK.                                  *)

\* A bug: duplicates are not held.
EnterAlways(e, id, p) ==
  /\ phase[e] = "NONE"
  /\ event' = [event EXCEPT ![e] = id]
  /\ parent' = [parent EXCEPT ![e] = p]
  /\ Goto(e, "DUPCHK")
  /\ UNCHANGED <<seq, txn, docks, counters, db>>

\* execute() up to setting eval::event_, held while another evaluation of
\* the same event goes on.
Enter(e, id, p) ==
  /\ phase[e] = "NONE"
  /\ event' = [event EXCEPT ![e] = id]
  /\ parent' = [parent EXCEPT ![e] = p]
  /\ IF Holding(id) = {}
     THEN Goto(e, "DUPCHK") /\ UNCHANGED docks
     ELSE Sleep(e, "DUPWAIT") /\ dupq' = Append(dupq, e)
  /\ UNCHANGED <<seq, txn, counters, db>>

\* The bounds: every evaluation under way can take a number, and its child,
\* and an object is left for that child.
Bounded == LET alive == Cardinality({e \in Eval : Alive(e)})
           IN  /\ uncommitted + 2 * (1 + alive) <= MaxSeq
               /\ \A e \in Eval : seq[e] + 2 * (1 + alive) <= MaxSeq
               /\ alive + 2 <= Cardinality(Eval)

Start(e) == Bounded /\ \E id \in Event : Enter(e, id, None)

\* An event does not conform, or is not a PDU: it still notifies.
Nonconforming == /\ dupq # <<>>
                 /\ dupq' = Rotate(dupq)
                 /\ asleep' = asleep \ Foremost(dupq)
                 /\ UNCHANGED <<evals, counters, db>>

DupResume(e) ==
  /\ phase[e] = "DUPWAIT" /\ e \notin asleep
  /\ IF Holding(event[e]) = {}
     THEN /\ Goto(e, "DUPCHK")
          /\ dupq' = Unlink(dupq, e)
          /\ UNCHANGED asleep
     ELSE /\ asleep' = asleep \cup {e}
          /\ UNCHANGED <<phase, dupq>>
  /\ UNCHANGED <<event, seq, parent, txn, counters, db>>

\* Interrupted while held (never a child: its event is new): the list is
\* notified by the unwinding of the wait (the front) and by that of execute()
\* (the front again, then moved back).
DupUnwind(e) ==
  /\ phase[e] = "DUPWAIT" /\ ~ParentPost(e)
  /\ phase' = [phase EXCEPT ![e] = "NONE"]
  /\ event' = [event EXCEPT ![e] = None]
  /\ LET q == Unlink(dupq, e)
     IN  /\ dupq' = Rotate(q)
         /\ asleep' = asleep \ (Foremost(q) \cup {e})
  /\ UNCHANGED <<seq, parent, txn, counters, db>>

DupCheck(e) ==
  /\ phase[e] = "DUPCHK"
  /\ IF Exists(event[e])
     THEN Leave({e})
     ELSE Goto(e, "FETCH") /\ UNCHANGED <<event, seq, parent, txn, docks>>
  /\ UNCHANGED <<counters, db>>

-----------------------------------------------------------------------------
(* The sequence.                                                           *)

\* One more than every number in use, and than any that was uncommitted.
Sequence(e) ==
  /\ phase[e] = "FETCH"
  /\ \E s \in 1..MaxSeq :
       /\ s > uncommitted /\ \A f \in Eval : s > seq[f]
       /\ s - 1 = uncommitted \/ \E f \in Eval : s - 1 = seq[f]
       /\ seq' = [seq EXCEPT ![e] = s]
  /\ Goto(e, "PREINDEX")
  /\ UNCHANGED <<event, parent, txn, docks, counters, db>>

\* PRECOMMIT: tested first, then after each notification.
Precommit(e) ==
  /\ \/ phase[e] = "PREINDEX"
     \/ phase[e] = "PRECOMMIT" /\ e \notin asleep
  /\ IF ParentPost(e) \/ SeqNext(committed, e) \/ SeqNext(uncommitted, e)
     THEN Goto(e, "AUTH_RELA") /\ UNCHANGED asleep
     ELSE Sleep(e, "PRECOMMIT")
  /\ UNCHANGED <<event, seq, parent, txn, dupq, counters, db>>

\* A bug: COMMIT is entered in the order of PRECOMMIT.
CommitTurnUncommitted(e) == ParentPost(e) \/ SeqNext(uncommitted, e)
                                         \/ SeqNext(committed, e)

\* The predicate of COMMIT.
CommitTurn(e) == ParentPost(e) \/ SeqNext(committed, e)

\* A bug: a number taken late lowers the counter.
UncommitLast(e) == uncommitted' = seq[e]

\* A bug: the counter names the next number instead of the last.
UncommitNext(e) == uncommitted' = IF seq[e] >= uncommitted THEN seq[e] + 1 ELSE uncommitted

\* sequence::uncommitted = max(sequence::get(eval), sequence::uncommitted)
Uncommit(e) == uncommitted' = IF seq[e] > uncommitted THEN seq[e] ELSE uncommitted

\* AUTH_RELA passed, and COMMIT is tested at once.
Relative(e) ==
  /\ phase[e] = "AUTH_RELA"
  /\ Uncommit(e)
  /\ IF CommitTurn(e)
     THEN Goto(e, "EVALUATE") /\ UNCHANGED asleep
     ELSE Sleep(e, "COMMIT")
  /\ UNCHANGED <<event, seq, parent, txn, dupq, retired, committed, db>>

CommitResume(e) ==
  /\ phase[e] = "COMMIT" /\ e \notin asleep
  /\ IF CommitTurn(e)
     THEN Goto(e, "EVALUATE") /\ UNCHANGED asleep
     ELSE asleep' = asleep \cup {e} /\ UNCHANGED phase
  /\ UNCHANGED <<event, seq, parent, txn, dupq, counters, db>>

\* A bug: a transaction that exists is cleared, shared or not.
IndexClears(e) ==
  /\ phase[e] = "EVALUATE"
  /\ LET base == IF ParentPost(e) THEN parent[e] ELSE e
     IN  txn' = [txn EXCEPT ![base] = {<<seq[e], event[e]>>}]
  /\ Goto(e, "POST")
  /\ UNCHANGED <<event, seq, parent, docks, counters, db>>

\* write_append(): into the parent's transaction if there is one.
Index(e) ==
  /\ phase[e] = "EVALUATE"
  /\ LET entry == <<seq[e], event[e]>>
     IN  IF ParentPost(e)
         THEN txn' = [txn EXCEPT ![parent[e]] = @ \cup {entry}]
         ELSE txn' = [txn EXCEPT ![e] = {entry}]
  /\ Goto(e, "POST")
  /\ UNCHANGED <<event, seq, parent, docks, counters, db>>

\* The POST hook has something to send, and has not sent it yet.
Owes(e) == /\ event[e] \in Sent
           /\ Child(e) = {}
           /\ \A entry \in txn[e] : entry[2] # Txnid(e)

\* save_transaction_id()
Post(e) == /\ phase[e] = "POST" /\ Owes(e)
           /\ \E k \in Eval : Enter(k, Txnid(e), e)

\* The hook returned: a child is done with execute_pdu(), its entry waits in
\* the parent's transaction; otherwise the number is committed.
Posted(e) ==
  /\ phase[e] = "POST" /\ ~Owes(e) /\ Child(e) = {}
  /\ IF ParentPost(e)
     THEN Accept(e) /\ UNCHANGED committed
     ELSE committed' = seq[e] /\ Goto(e, "WRITE") /\ UNCHANGED asleep
  /\ UNCHANGED <<event, seq, parent, txn, dupq, retired, uncommitted, db>>

-----------------------------------------------------------------------------
(* Writing and retiring.                                                   *)

\* std::clamp(sequence, retired + 1, highest), with the next higher number.
Release(e) ==
  LET highest == IF \E f \in Eval : SeqNext(seq[e], f)
                 THEN CHOOSE s \in 1..MaxSeq :
                        \E f \in Eval : SeqNext(seq[e], f) /\ seq[f] = s
                 ELSE seq[e]
  IN  IF seq[e] < retired + 1 THEN retired + 1
      ELSE IF seq[e] > highest THEN highest ELSE seq[e]

\* A bug: nothing holds an evaluation that is ahead of another.
TryRetireAhead(e) == retired' = Release(e) /\ Accept(e)

\* retire()
TryRetire(e) == IF SeqNext(retired, e)
                THEN retired' = Release(e) /\ Accept(e)
                ELSE Sleep(e, "RETIRE") /\ UNCHANGED retired

\* write_commit().  Several evaluations can be in it: which of them gets the
\* database's write_mutex is not the order of the sequence.
Write(e) ==
  /\ phase[e] = "WRITE"
  /\ db' = db \cup txn[e]
  /\ TryRetire(e)
  /\ UNCHANGED <<event, seq, parent, txn, dupq, committed, uncommitted>>

Retire(e) ==
  /\ phase[e] = "RETIRE" /\ e \notin asleep
  /\ TryRetire(e)
  /\ UNCHANGED <<event, seq, parent, txn, dupq, committed, uncommitted, db>>

\* The transaction is written and the interrupt that came meanwhile thrown,
\* by the end of the `uninterruptible` in db::commit() (src/ircd/db.cc:4710-4716).
WriteInterrupted(e) ==
  /\ phase[e] = "WRITE"
  /\ db' = db \cup txn[e]
  /\ Leave({e})
  /\ UNCHANGED counters

\* A phase throws, or the context is interrupted where it is suspended.  What
\* a child throws passes through the hook and ends its parent too.
Fault(e) ==
  /\ phase[e] \in {"FETCH", "PREINDEX", "PRECOMMIT", "AUTH_RELA", "COMMIT",
                   "EVALUATE", "POST", "WRITE", "RETIRE"}
  /\ Child(e) = {}
  /\ Leave({e} \cup ({parent[e]} \ {None}))
  /\ UNCHANGED <<counters, db>>

\* The hooks returned, their exceptions and interrupts held back by the site:
\* execute_du() and execute() exit.
Finish(e) ==
  /\ phase[e] = "NOTIFY"
  /\ phase' = [phase EXCEPT ![e] = "NONE"]
  /\ event' = [event EXCEPT ![e] = None]
  /\ seq' = [seq EXCEPT ![e] = 0]
  /\ parent' = [parent EXCEPT ![e] = None]
  /\ txn' = [txn EXCEPT ![e] = {}]
  /\ dupq' = Rotate(dupq)
  /\ asleep' = asleep \ Foremost(dupq)
  /\ UNCHANGED <<counters, db>>

\* A bug: the counters restart from the number of events.
RestartCounting ==
  LET n == Cardinality(db)
  IN  retired' = n /\ committed' = n /\ uncommitted' = n

\* vm::init::init(): the counters are taken from the database.
Restart == \E n \in 0..MaxSeq :
             Highest(n) /\ retired' = n /\ committed' = n /\ uncommitted' = n

\* The process dies at any point, and is started again.
Crash ==
  /\ \E e \in Eval : Alive(e)
  /\ phase' = [e \in Eval |-> "NONE"]
  /\ event' = [e \in Eval |-> None]
  /\ seq' = [e \in Eval |-> 0]
  /\ parent' = [e \in Eval |-> None]
  /\ txn' = [e \in Eval |-> {}]
  /\ dupq' = <<>> /\ asleep' = {}
  /\ Restart
  /\ UNCHANGED db

-----------------------------------------------------------------------------
\* What the machine itself does with evaluation e.
Step(e) == \/ DupResume(e) \/ DupCheck(e) \/ Sequence(e) \/ Precommit(e)
           \/ Relative(e) \/ CommitResume(e) \/ Index(e) \/ Post(e)
           \/ Posted(e) \/ Write(e) \/ Retire(e) \/ Finish(e)

\* What comes from outside.
Other(e) == Start(e) \/ DupUnwind(e) \/ WriteInterrupted(e) \/ Fault(e)

Next == (\E e \in Eval : Step(e) \/ Other(e)) \/ Nonconforming \/ Crash

Spec == Init /\ [][Next]_vars

(* Fairness.  The handlers of the ios queue run in order: a context that   *)
(* can go on does, and database reads and writes and hooks return.         *)
FairSpec == Spec /\ \A e \in Eval : WF_vars(Step(e))

-----------------------------------------------------------------------------
(* Properties.                                                             *)

TypeOK ==
  /\ phase \in [Eval -> Phase]
  /\ event \in [Eval -> Id \cup {None}]
  /\ seq \in [Eval -> 0..MaxSeq]
  /\ parent \in [Eval -> Eval \cup {None}]
  /\ txn \in [Eval -> SUBSET Entry]
  /\ dupq \in Seq(Eval)
  /\ asleep \in SUBSET Eval
  /\ retired \in 0..MaxSeq /\ committed \in 0..MaxSeq /\ uncommitted \in 0..MaxSeq
  /\ db \in SUBSET Entry

\* An index is never given to two events, in the database or on the way to
\* it, also over a restart: numbers are only taken back from evaluations that
\* composed nothing.
IndexUnique == LET entries == db \cup UNION {txn[e] : e \in Eval}
               IN  \A a, b \in entries : a[1] = b[1] => a = b

\* "Prevent the same event from being accepted twice": DUPWAIT and DUPCHK
\* together, whatever the evaluations of one event do, leave one entry.
AcceptedOnce == /\ \A a, b \in db : a[2] = b[2] => a = b
                /\ \A id \in Id : \A e, f \in Holding(id) : e = f

\* Whoever has been given his turn keeps it until he commits: nobody commits,
\* or is given a lower number, between the test of COMMIT and the assignment
\* of sequence::committed, over all the yields of the phases between.
TurnKept == \A e \in Eval :
              phase[e] \in {"EVALUATE", "POST"} /\ ~ParentPost(e) => SeqNext(committed, e)

\* assert(sequence::retired < sequence::get(eval)), of every evaluation that
\* is not done: retirement passes nobody by, whatever the order of the writes.
NotOvertaken == \A e \in Eval :
                  seq[e] # 0 /\ phase[e] # "NOTIFY" => retired < seq[e]

\* A message and the record of its transaction id are in the database both or
\* neither, whichever of the two evaluations fails and wherever a crash hits.
TxnidWithMessage ==
  /\ \A i \in 1..MaxSeq, s \in 1..MaxSeq, id \in Event :
       <<i, <<id, s>>>> \in db => <<s, id>> \in db
  /\ \A i \in 1..MaxSeq, id \in Sent :
       <<i, id>> \in db => Exists(<<id, i>>)

\* "already written; always monotonic": what is retired is in the database,
\* so that the counter does not go back when a crash makes it be read again.
RetiredForward == [][retired' >= retired]_vars

\* "usually monotonic": only a restart takes back what was pending write.
CommittedForward == [][committed' < committed => (\A e \in Eval : ~Alive(e))']_vars

\* Every evaluation ends, whatever fails around it, once no more are offered
\* (a held duplicate can be passed by newcomers as long as they come).
Calm == <>[][\A e \in Eval : ~Start(e)]_vars
Ends == Calm => \A e \in Eval : Alive(e) ~> ~Alive(e)

\* "Reevaluation of auth against the present state of the room": what was
\* committed before an evaluation is in the database it consults.
PresentIsWritten ==
  \A e, f \in Eval : phase[e] = "EVALUATE" /\ ~ParentPost(e) /\ phase[f] = "WRITE"
                       => seq[f] > seq[e]

\* "The event was executed; now we broadcast the good news": at the notify
\* hook the event is in the database.
NotifiedIsWritten == \A e \in Eval : phase[e] = "NOTIFY" => <<seq[e], event[e]>> \in db

\* vm::init::~init(): assert(retired == sequence::retired) when nothing is
\* executing any more.
HaltedAtRetired == (\A e \in Eval : ~Alive(e)) => Highest(retired)

=============================================================================
