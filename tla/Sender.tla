------------------------------- MODULE Sender -------------------------------
(***************************************************************************)
(* The federation sender (src/modules/federation/sender.cc): the events    *)
(* that were evaluated here go to the servers of their rooms.  Two sender  *)
(* contexts take the events off one queue and push each to the nodes it is *)
(* for; a node has one transaction at a time, made of all that was queued  *)
(* for it, and what comes meanwhile waits for its end, which a third       *)
(* context receives.                                                       *)
(*                                                                         *)
(* Making a transaction looks its server up (m::fed::server()), which      *)
(* yields unless the name carries a port: the others go on meanwhile, with *)
(* node::curtxn not set yet.                                               *)
(***************************************************************************)
EXTENDS Naturals, FiniteSets, SequencesExt

CONSTANTS Events,     \* how many events are broadcast
          Node,       \* remote servers
          Ported,     \* those whose name carries a port
          Worker,     \* the contexts of send_worker()
          Receiver,   \* the context of recv_worker()
          MaxFailures \* bound on the failures

ASSUME SenderAssumption == /\ Events \in Nat /\ Ported \subseteq Node
                           /\ Receiver \notin Worker
                           /\ "nobody" \notin Node
                           /\ MaxFailures \in Nat

VARIABLES offered,   \* how many events were evaluated so far
          notified,  \* notified_queue
          event,     \* the event send_to_room() of a worker is about
          origins,   \* the servers it has still to visit
          q,         \* node::q
          curtxn,    \* the nodes whose node::curtxn is set
          txns,      \* the transactions under way
          to, units, \* the node a context makes a transaction for, of what
          failures,  \* failures so far
          failed,    \* history: the nodes whose last transaction failed
          pushed,    \* history: all that was pushed to a node
          sent       \* history: the units of the transactions made for it

queues == <<offered, notified, event, origins>>
senderVars == <<queues, q, curtxn, txns, to, units, failures, failed, pushed, sent>>

Context == Worker \cup {Receiver}
Nobody == "nobody"

\* The events, in the order in which they are notified.
Event == 1..Events

SenderInit == /\ offered = 0 /\ notified = <<>>
              /\ event = [w \in Worker |-> 0]
              /\ origins = [w \in Worker |-> {}]
              /\ q = [n \in Node |-> <<>>]
              /\ curtxn = {} /\ txns = <<>>
              /\ to = [c \in Context |-> Nobody]
              /\ units = [c \in Context |-> <<>>]
              /\ failures = 0 /\ failed = {}
              /\ pushed = [n \in Node |-> <<>>]
              /\ sent = [n \in Node |-> <<>>]

-----------------------------------------------------------------------------
Failure == failures < MaxFailures /\ failures' = failures + 1

\* A bug: the queue keeps what went into the transaction.
LaunchKept(n, us, list, cur, pending) ==
  /\ txns' = Append(list, [node |-> n, units |-> us, state |-> "sent"])
  /\ curtxn' = cur \cup {n}
  /\ q' = [q EXCEPT ![n] = pending]
  /\ sent' = [sent EXCEPT ![n] = @ \o us]
  /\ failed' = failed \ {n}

\* node::flush() from the request's construction on: it empties the queue.
Launch(n, us, list, cur, pending) ==
  /\ txns' = Append(list, [node |-> n, units |-> us, state |-> "sent"])
  /\ curtxn' = cur \cup {n}
  /\ q' = [q EXCEPT ![n] = <<>>]
  /\ sent' = [sent EXCEPT ![n] = @ \o us]
  /\ failed' = failed \ {n}

\* The request cannot be made: flush() keeps the queue and returns.
Remain(n, list, cur, pending) ==
  /\ txns' = list /\ curtxn' = cur
  /\ q' = [q EXCEPT ![n] = pending]
  /\ failed' = failed \cup {n}
  /\ UNCHANGED sent

\* A bug: a node may have several transactions.
BusyNever(n, cur) == FALSE

\* A transaction of the node is under way.
Busy(n, cur) == n \in cur

MustFlush(n, cur, pending) == pending # <<>> /\ ~Busy(n, cur)

\* node::flush() by context c, with `pending` in the node's queue.
Flush(c, n, list, cur, pending) ==
  IF ~MustFlush(n, cur, pending)
  THEN /\ txns' = list /\ curtxn' = cur
       /\ q' = [q EXCEPT ![n] = pending]
       /\ UNCHANGED <<to, units, sent, failures, failed>>
  ELSE IF n \in Ported
  THEN /\ \/ Launch(n, pending, list, cur, pending) /\ UNCHANGED failures
          \/ Remain(n, list, cur, pending) /\ Failure
       /\ UNCHANGED <<to, units>>
  ELSE /\ to' = [to EXCEPT ![c] = n]
       /\ units' = [units EXCEPT ![c] = pending]
       /\ txns' = list /\ curtxn' = cur
       /\ q' = [q EXCEPT ![n] = pending]
       /\ UNCHANGED <<sent, failures, failed>>

\* The lookup has ended, and the request is made, or is not.
FlushResume(c) ==
  /\ to[c] # Nobody
  /\ to' = [to EXCEPT ![c] = Nobody]
  /\ units' = [units EXCEPT ![c] = <<>>]
  /\ \/ Launch(to[c], units[c], txns, curtxn, q[to[c]]) /\ UNCHANGED failures
     \/ Remain(to[c], txns, curtxn, q[to[c]]) /\ Failure
  /\ UNCHANGED <<queues, pushed>>

-----------------------------------------------------------------------------
(* The senders.                                                            *)

\* handle_notify()
Notify == /\ offered < Events
          /\ offered' = offered + 1
          /\ notified' = Append(notified, offered')
          /\ UNCHANGED <<event, origins, q, curtxn, txns, to, units, failures,
                         failed, pushed, sent>>

\* send_worker() takes an event; it is for the servers that will be found in
\* its room, are not errant, and come before an exception ends the iteration.
Pop(w) == /\ to[w] = Nobody /\ origins[w] = {} /\ notified # <<>>
          /\ notified' = Tail(notified)
          /\ \E S \in SUBSET Node \ {{}} :
               /\ origins' = [origins EXCEPT ![w] = S]
               /\ event' = [event EXCEPT ![w] = Head(notified)]
          /\ UNCHANGED <<offered, q, curtxn, txns, to, units, failures, failed,
                         pushed, sent>>

\* send_to_room() at its next server: node::push() and flush().
Visit(w, n) ==
  /\ to[w] = Nobody /\ n \in origins[w]
  /\ origins' = [origins EXCEPT ![w] = @ \ {n}]
  /\ event' = [event EXCEPT ![w] = IF origins'[w] = {} THEN 0 ELSE @]
  /\ pushed' = [pushed EXCEPT ![n] = Append(@, event[w])]
  /\ Flush(w, n, txns, curtxn, Append(q[n], event[w]))
  /\ UNCHANGED <<offered, notified>>

-----------------------------------------------------------------------------
(* The receiver.                                                           *)

\* The server answers.
Reply(i) == /\ txns[i].state = "sent"
            /\ txns' = [txns EXCEPT ![i].state = "ok"]
            /\ UNCHANGED <<queues, q, curtxn, to, units, failures, failed, pushed,
                           sent>>

\* The request fails, or recv_timeout() cancels it.
Fail(i) == /\ txns[i].state = "sent" /\ Failure
           /\ txns' = [txns EXCEPT ![i].state = "error"]
           /\ UNCHANGED <<queues, q, curtxn, to, units, failed, pushed, sent>>

\* A bug: the node waits for its next event although its queue is not empty.
RecvUnflushed(i) ==
  LET n == txns[i].node
  IN  /\ to[Receiver] = Nobody /\ txns[i].state # "sent"
      /\ txns' = RemoveAt(txns, i) /\ curtxn' = curtxn \ {n}
      /\ failed' = IF txns[i].state = "ok" THEN failed ELSE failed \cup {n}
      /\ UNCHANGED <<queues, q, to, units, failures, pushed, sent>>

\* A bug: the transaction that failed stays the node's.
RecvKept(i) ==
  LET n == txns[i].node
  IN  /\ to[Receiver] = Nobody /\ txns[i].state # "sent"
      /\ IF txns[i].state = "ok"
         THEN Flush(Receiver, n, RemoveAt(txns, i), curtxn \ {n}, q[n])
         ELSE /\ txns' = RemoveAt(txns, i)
              /\ UNCHANGED <<q, curtxn, failed, to, units, failures, sent>>
      /\ UNCHANGED <<queues, pushed>>

\* recv() with one of the transactions that ended.  After a failure what is
\* queued stays until the next event comes.
Recv(i) ==
  LET n == txns[i].node
  IN  /\ to[Receiver] = Nobody /\ txns[i].state # "sent"
      /\ IF txns[i].state = "ok"
         THEN Flush(Receiver, n, RemoveAt(txns, i), curtxn \ {n}, q[n])
         ELSE /\ Remain(n, RemoveAt(txns, i), curtxn \ {n}, q[n])
              /\ UNCHANGED <<to, units, failures>>
      /\ UNCHANGED <<queues, pushed>>

-----------------------------------------------------------------------------
WorkerStep(w) == Pop(w) \/ \E n \in Node : Visit(w, n)
SenderNext == \/ Notify
              \/ \E w \in Worker : WorkerStep(w)
              \/ \E c \in Context : FlushResume(c)
              \/ \E i \in DOMAIN txns : Reply(i) \/ Fail(i) \/ Recv(i)

SenderSpec == SenderInit /\ [][SenderNext]_senderVars

\* What goes on by itself: the contexts run, lookups end, and a transaction is
\* answered or canceled after its 45 seconds.  All of it is bounded by the
\* events, so that it is enough that it never stops.
SenderProgress == \/ \E w \in Worker : WorkerStep(w)
                  \/ \E c \in Context : FlushResume(c)
                  \/ \E i \in DOMAIN txns : Reply(i) \/ Recv(i)

SenderFairSpec == SenderSpec /\ WF_senderVars(SenderProgress)

-----------------------------------------------------------------------------
(* Properties.                                                             *)

\* The type of the state; no transaction is empty.
SenderTypeOK ==
  /\ offered \in 0..Events /\ notified \in Seq(Event)
  /\ event \in [Worker -> 0..Events]
  /\ origins \in [Worker -> SUBSET Node]
  /\ q \in [Node -> Seq(Event)]
  /\ curtxn \subseteq Node
  /\ txns \in Seq([node : Node, units : Seq(Event) \ {<<>>},
                   state : {"sent", "ok", "error"}])
  /\ to \in [Context -> Node \cup {Nobody}]
  /\ units \in [Context -> Seq(Event)]
  /\ failures \in 0..MaxFailures /\ failed \subseteq Node
  /\ pushed \in [Node -> Seq(Event)] /\ sent \in [Node -> Seq(Event)]

\* The transactions of node n under way.
Of(n) == {i \in DOMAIN txns : txns[i].node = n}

\* A node that waits for its transaction has one, whose end will reset curtxn;
\* one whose requests are made at once has no other beside it.
InFlight == \A n \in Node :
              /\ n \in curtxn => Of(n) # {}
              /\ n \in Ported => \A i, j \in Of(n) : i = j /\ n \in curtxn

\* What is queued for a node is attended to: by the end of a transaction, by a
\* context that is making one, or it is left there by a failure.
Attended == \A n \in Node : q[n] # <<>> =>
              n \in curtxn \cup failed \/ \E c \in Context : to[c] = n

\* A server whose requests are made at once is sent every event pushed to it,
\* in that order and once, by however many contexts.
InOrder == \A n \in Ported : pushed[n] = sent[n] \o q[n]

\* Each queue is emptied again and again, except after a failure.
Drained == \A n \in Node : []<>(q[n] = <<>> \/ n \in failed)

\* Every server an event is pushed to is sent the event, or will be: "broadcast
\* to federation servers" (src/include/ircd/m/vm/opts.h).
Broadcast ==
  \A n \in Node : \A e \in ToSet(pushed[n]) :
    \/ e \in ToSet(sent[n]) \cup ToSet(q[n])
    \/ \E c \in Context : to[c] = n /\ e \in ToSet(units[c])
=============================================================================
