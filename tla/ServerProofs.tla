---------------------------- MODULE ServerProofs ----------------------------
(***************************************************************************)
(* Requests to other servers, for any numbers of requests, links, events,  *)
(* servers and contexts: first the federation sender, which makes them,    *)
(* then ircd::server, which sends them through its peers, links and tags.  *)
(***************************************************************************)
EXTENDS Sender, Server, ListProofs, FiniteSetTheorems

-----------------------------------------------------------------------------
(* The federation sender: types, the transactions under way, the queues    *)
(* that are attended to, and the order in which a server is sent its       *)
(* events.                                                                 *)

Txn == [node : Node, units : Seq(Event) \ {<<>>}, state : {"sent", "ok", "error"}]

\* InFlight of the transactions `list`, while `cur` have curtxn set.
Flying(list, cur) ==
  \A n \in Node :
    /\ n \in cur => \E i \in DOMAIN list : list[i].node = n
    /\ n \in Ported => \A i, j \in DOMAIN list :
                         list[i].node = n /\ list[j].node = n => i = j /\ n \in cur

\* Attended of one node.
Heeded(n) == q[n] # <<>> => n \in curtxn \cup failed \/ \E c \in Context : to[c] = n

\* A context that waits for a lookup makes a transaction of something, and for
\* a server that has to be looked up.
Making == \A c \in Context : to[c] # Nobody => to[c] \notin Ported /\ units[c] # <<>>

\* A worker that has servers to visit has an event for them.
Errand == \A w \in Worker : origins[w] # {} => event[w] \in Event

SenderInv == SenderTypeOK /\ Making /\ Errand /\ InFlight /\ Attended /\ InOrder

-----------------------------------------------------------------------------
(* The list of transactions.                                               *)

LEMMA FlyingIsInFlight ==
  ASSUME SenderTypeOK
  PROVE  InFlight <=> Flying(txns, curtxn)
BY DEF InFlight, Flying, Of

\* A transaction is added for a node that had none, or is looked up.
LEMMA FlyingAppend ==
  ASSUME NEW list \in Seq(Txn), NEW cur \in SUBSET Node, NEW t \in Txn,
         Flying(list, cur), t.node \notin cur \/ t.node \notin Ported
  PROVE  /\ Append(list, t) \in Seq(Txn)
         /\ Flying(Append(list, t), cur \cup {t.node})
<1> DEFINE r == Append(list, t)
<1>1. /\ Len(list) \in Nat /\ DOMAIN list = 1..Len(list)
      /\ r \in Seq(Txn) /\ DOMAIN r = 1..(Len(list) + 1)
      /\ \A i \in 1..Len(list) : r[i] = list[i]
      /\ r[Len(list) + 1] = t
  BY AppendProperties, LenProperties
<1> HIDE DEF r
<1>2. t.node \in Node
  BY DEF Txn
<1>3. ASSUME NEW n \in Node, n \in cur \cup {t.node}
      PROVE  \E i \in DOMAIN r : r[i].node = n
  <2>1. CASE n = t.node
    BY <2>1, <1>1
  <2>2. CASE n \in cur
    <3>1. PICK i \in DOMAIN list : list[i].node = n
      BY <2>2 DEF Flying
    <3> QED BY <3>1, <1>1
  <2> QED BY <1>3, <2>1, <2>2
<1>4. ASSUME NEW n \in Node, n \in Ported, NEW i \in DOMAIN r, NEW j \in DOMAIN r,
             r[i].node = n, r[j].node = n
      PROVE  i = j /\ n \in cur \cup {t.node}
  <2>1. CASE n = t.node
    <3>1. \A k \in DOMAIN list : list[k].node # n
      BY <2>1, <1>4 DEF Flying
    <3> QED BY <3>1, <2>1, <1>1, <1>4
  <2>2. CASE n # t.node
    <3>1. i \in DOMAIN list /\ j \in DOMAIN list
      BY <2>2, <1>1, <1>4
    <3> QED BY <3>1, <1>1, <1>4 DEF Flying
  <2> QED BY <2>1, <2>2
<1>5. Flying(r, cur \cup {t.node})
  BY <1>3, <1>4 DEF Flying
<1> QED BY <1>1, <1>5 DEF r

\* A transaction that is erased takes its node out of those that wait.
LEMMA FlyingRemove ==
  ASSUME NEW list \in Seq(Txn), NEW cur \in SUBSET Node, NEW i \in DOMAIN list,
         Flying(list, cur)
  PROVE  /\ RemoveAt(list, i) \in Seq(Txn)
         /\ list[i].node \in Node
         /\ Flying(RemoveAt(list, i), cur \ {list[i].node})
<1> DEFINE r == RemoveAt(list, i)
<1>1. Len(list) \in Nat /\ DOMAIN list = 1..Len(list)
  BY LenProperties
<1>2. /\ r \in Seq(Txn) /\ Len(r) = Len(list) - 1
      /\ \A k \in 1..(Len(list) - 1) : r[k] = IF k < i THEN list[k] ELSE list[k + 1]
  BY <1>1, RemoveAtIndices
<1> HIDE DEF r
<1>3. DOMAIN r = 1..(Len(list) - 1)
  BY <1>1, <1>2, LenProperties
<1>4. list[i].node \in Node
  <2>1. list[i] \in Txn
    BY <1>1, ElementOfSeq
  <2> QED BY <2>1 DEF Txn
<1>5. ASSUME NEW n \in Node, n \in cur \ {list[i].node}
      PROVE  \E k \in DOMAIN r : r[k].node = n
  <2>1. PICK k \in DOMAIN list : list[k].node = n
    BY <1>5 DEF Flying
  <2>2. k # i
    BY <2>1, <1>5
  <2>3. CASE k < i
    <3>1. k \in DOMAIN r /\ r[k] = list[k]
      BY <2>3, <1>1, <1>2, <1>3
    <3> QED BY <3>1, <2>1
  <2>4. CASE k > i
    <3>1. k - 1 \in DOMAIN r /\ ~(k - 1 < i) /\ (k - 1) + 1 = k
      BY <2>4, <1>1, <1>3
    <3>2. r[k - 1] = list[k]
      BY <3>1, <1>2, <1>3
    <3> QED BY <3>1, <3>2, <2>1
  <2> QED BY <1>1, <2>2, <2>3, <2>4
<1>6. ASSUME NEW n \in Node, n \in Ported, NEW k \in DOMAIN r, NEW l \in DOMAIN r,
             r[k].node = n, r[l].node = n
      PROVE  k = l /\ n \in cur \ {list[i].node}
  <2> DEFINE old(x) == IF x < i THEN x ELSE x + 1
  <2>1. \A x \in DOMAIN r : /\ old(x) \in DOMAIN list /\ old(x) # i
                            /\ r[x] = list[old(x)]
    BY <1>1, <1>2, <1>3
  <2>2. \A x, y \in DOMAIN r : old(x) = old(y) => x = y
    BY <1>1, <1>3
  <2> HIDE DEF old
  <2>3. old(k) = old(l) /\ n \in cur
    BY <2>1, <1>6 DEF Flying
  <2>4. n # list[i].node
    <3> SUFFICES ASSUME n = list[i].node PROVE FALSE
      OBVIOUS
    <3> QED BY <2>1, <1>6 DEF Flying
  <2> QED BY <2>2, <2>3, <2>4
<1>7. Flying(r, cur \ {list[i].node})
  BY <1>5, <1>6 DEF Flying
<1> QED BY <1>2, <1>4, <1>7 DEF r

\* An answer or a failure leaves each transaction with its node.
LEMMA FlyingStays ==
  ASSUME NEW list \in Seq(Txn), NEW cur \in SUBSET Node, NEW i \in DOMAIN list,
         NEW how \in {"sent", "ok", "error"}, Flying(list, cur)
  PROVE  /\ [list EXCEPT ![i].state = how] \in Seq(Txn)
         /\ Flying([list EXCEPT ![i].state = how], cur)
<1> DEFINE r == [list EXCEPT ![i].state = how]
<1>1. Len(list) \in Nat /\ DOMAIN list = 1..Len(list)
  BY LenProperties
<1>2. \A k \in 1..Len(list) : list[k] \in Txn
  BY ElementOfSeq
<1>3. DOMAIN r = DOMAIN list /\ \A k \in DOMAIN list : r[k].node = list[k].node /\ r[k] \in Txn
  BY <1>1, <1>2 DEF Txn
<1>4. r \in Seq(Txn)
  <2>1. r = [k \in 1..Len(list) |-> r[k]]
    BY <1>1
  <2> HIDE DEF r
  <2> QED BY <1>1, <1>3, <2>1, IsASeq
<1> HIDE DEF r
<1>5. Flying(r, cur)
  BY <1>3 DEF Flying
<1> QED BY <1>4, <1>5 DEF r

-----------------------------------------------------------------------------
(* The operators that end a flush, and the flush.                          *)

\* The types of what they read.
Queues == /\ q \in [Node -> Seq(Event)] /\ sent \in [Node -> Seq(Event)]
          /\ to \in [Context -> Node \cup {Nobody}]
          /\ units \in [Context -> Seq(Event)]
          /\ failures \in 0..MaxFailures /\ failed \subseteq Node

\* A launched transaction: nothing is queued, and what was is sent.
LEMMA LaunchKeeps ==
  ASSUME Queues, NEW n \in Node, NEW us \in Seq(Event) \ {<<>>},
         NEW list \in Seq(Txn), NEW cur \in SUBSET Node, NEW pending,
         n \notin cur \/ n \notin Ported, Flying(list, cur),
         Launch(n, us, list, cur, pending)
  PROVE  /\ txns' \in Seq(Txn) /\ curtxn' \subseteq Node /\ Flying(txns', curtxn')
         /\ q' \in [Node -> Seq(Event)] /\ sent' \in [Node -> Seq(Event)]
         /\ failed' \subseteq Node
         /\ q'[n] = <<>> /\ n \in curtxn'
         /\ sent'[n] \o q'[n] = sent[n] \o us
         /\ \A m \in Node \ {n} :
              /\ q'[m] = q[m] /\ sent'[m] = sent[m]
              /\ m \in curtxn' <=> m \in cur
              /\ m \in failed' <=> m \in failed
<1> DEFINE t == [node |-> n, units |-> us, state |-> "sent"]
<1>1. t \in Txn /\ t.node = n
  BY DEF Txn
<1>2. txns' = Append(list, t) /\ curtxn' = cur \cup {t.node}
  BY DEF Launch
<1> HIDE DEF t
<1>3. txns' \in Seq(Txn) /\ curtxn' \subseteq Node /\ Flying(txns', curtxn')
  BY <1>1, <1>2, FlyingAppend
<1>4. sent[n] \o us \in Seq(Event) /\ (sent[n] \o us) \o <<>> = sent[n] \o us
  BY ConcatProperties, ConcatEmptySeq DEF Queues
<1>5. /\ q' = [q EXCEPT ![n] = <<>>]
      /\ sent' = [sent EXCEPT ![n] = sent[n] \o us]
      /\ failed' = failed \ {n}
  BY DEF Launch
<1>6. /\ q' \in [Node -> Seq(Event)] /\ sent' \in [Node -> Seq(Event)]
      /\ q'[n] = <<>> /\ sent'[n] = sent[n] \o us
      /\ \A m \in Node \ {n} : q'[m] = q[m] /\ sent'[m] = sent[m]
  BY <1>4, <1>5, EmptySeq DEF Queues
<1> QED BY <1>1, <1>2, <1>3, <1>4, <1>5, <1>6 DEF Queues

\* A request that cannot be made: the queue stays, marked as failed.
LEMMA RemainKeeps ==
  ASSUME Queues, NEW n \in Node, NEW list \in Seq(Txn), NEW cur \in SUBSET Node,
         NEW pending \in Seq(Event), Flying(list, cur),
         Remain(n, list, cur, pending)
  PROVE  /\ txns' \in Seq(Txn) /\ curtxn' \subseteq Node /\ Flying(txns', curtxn')
         /\ q' \in [Node -> Seq(Event)] /\ sent' = sent
         /\ failed' \subseteq Node
         /\ q'[n] = pending /\ n \in failed'
         /\ \A m \in Node \ {n} : /\ q'[m] = q[m]
                                  /\ m \in curtxn' <=> m \in cur
                                  /\ m \in failed' <=> m \in failed
BY DEF Remain, Queues

\* The nodes whose queue is not attended to once n's has become `pending`.
Lonely(n, cur, m) == /\ m # n /\ q[m] # <<>> /\ m \notin cur \cup failed
                     /\ \A c \in Context : to[c] # m

\* A flush, however it ends.
LEMMA FlushKeeps ==
  ASSUME Queues, NEW c \in Context, NEW n \in Node, NEW list \in Seq(Txn),
         NEW cur \in SUBSET Node, NEW pending \in Seq(Event),
         to[c] = Nobody, Making, Flying(list, cur),
         \A m \in Node : ~Lonely(n, cur, m),
         SenderAssumption, Flush(c, n, list, cur, pending)
  PROVE  /\ txns' \in Seq(Txn) /\ curtxn' \subseteq Node /\ Flying(txns', curtxn')
         /\ q' \in [Node -> Seq(Event)] /\ sent' \in [Node -> Seq(Event)]
         /\ to' \in [Context -> Node \cup {Nobody}]
         /\ units' \in [Context -> Seq(Event)]
         /\ failures' \in 0..MaxFailures /\ failed' \subseteq Node
         /\ Making' /\ Attended'
         /\ \A m \in Ported : sent'[m] \o q'[m] = sent[m] \o (IF m = n THEN pending ELSE q[m])
<1>0. \A m \in Ported : m \in Node
  BY DEF SenderAssumption
<1>1. CASE ~MustFlush(n, cur, pending)
  <2>1. /\ txns' = list /\ curtxn' = cur /\ q' = [q EXCEPT ![n] = pending]
        /\ UNCHANGED <<to, units, sent, failures, failed>>
    BY <1>1 DEF Flush
  <2>2. Attended'
    <3> SUFFICES ASSUME NEW m \in Node, (q[m] # <<>>)'
                 PROVE  (m \in curtxn \cup failed \/ \E d \in Context : to[d] = m)'
      BY DEF Attended
    <3>1. CASE m = n
      BY <3>1, <2>1, <1>1 DEF MustFlush, Busy, Queues
    <3>2. CASE m # n
      BY <3>2, <2>1 DEF Lonely, Queues
    <3> QED BY <3>1, <3>2
  <2>3. Making'
    BY <2>1 DEF Making
  <2> QED BY <2>1, <2>2, <2>3, <1>0 DEF Queues
<1>2. CASE MustFlush(n, cur, pending) /\ n \in Ported
  <2>1. \/ Launch(n, pending, list, cur, pending) /\ UNCHANGED failures
        \/ Remain(n, list, cur, pending) /\ Failure
    BY <1>2 DEF Flush
  <2>2. UNCHANGED <<to, units>>
    BY <1>2 DEF Flush
  <2>3. Making'
    BY <2>2 DEF Making
  <2>4. pending # <<>> /\ n \notin cur
    BY <1>2 DEF MustFlush, Busy
  <2>5. CASE Launch(n, pending, list, cur, pending) /\ UNCHANGED failures
    <3>1. /\ txns' \in Seq(Txn) /\ curtxn' \subseteq Node /\ Flying(txns', curtxn')
          /\ q' \in [Node -> Seq(Event)] /\ sent' \in [Node -> Seq(Event)]
          /\ failed' \subseteq Node
          /\ q'[n] = <<>> /\ n \in curtxn'
          /\ sent'[n] \o q'[n] = sent[n] \o pending
          /\ \A m \in Node \ {n} :
               /\ q'[m] = q[m] /\ sent'[m] = sent[m]
               /\ m \in curtxn' <=> m \in cur
               /\ m \in failed' <=> m \in failed
      BY <2>4, <2>5, LaunchKeeps
    <3>2. Attended'
      BY <3>1, <2>2 DEF Attended, Lonely
    <3> QED BY <3>1, <3>2, <2>2, <2>3, <2>5, <1>0 DEF Queues
  <2>6. CASE Remain(n, list, cur, pending) /\ Failure
    <3>1. /\ txns' \in Seq(Txn) /\ curtxn' \subseteq Node /\ Flying(txns', curtxn')
          /\ q' \in [Node -> Seq(Event)] /\ sent' = sent
          /\ failed' \subseteq Node
          /\ q'[n] = pending /\ n \in failed'
          /\ \A m \in Node \ {n} : /\ q'[m] = q[m]
                                   /\ m \in curtxn' <=> m \in cur
                                   /\ m \in failed' <=> m \in failed
      BY <2>6, RemainKeeps
    <3>2. Attended'
      BY <3>1, <2>2 DEF Attended, Lonely
    <3>3. failures' \in 0..MaxFailures
      BY <2>6 DEF Failure, Queues, SenderAssumption
    <3> QED BY <3>1, <3>2, <3>3, <2>2, <2>3, <1>0 DEF Queues
  <2> QED BY <2>1, <2>5, <2>6
<1>3. CASE MustFlush(n, cur, pending) /\ n \notin Ported
  <2>1. /\ to' = [to EXCEPT ![c] = n]
        /\ units' = [units EXCEPT ![c] = pending]
        /\ txns' = list /\ curtxn' = cur
        /\ q' = [q EXCEPT ![n] = pending]
        /\ UNCHANGED <<sent, failures, failed>>
    BY <1>3 DEF Flush
  <2>2. Making'
    BY <2>1, <1>3 DEF Making, MustFlush, Queues
  <2>3. Attended'
    <3> SUFFICES ASSUME NEW m \in Node, (q[m] # <<>>)'
                 PROVE  (m \in curtxn \cup failed \/ \E d \in Context : to[d] = m)'
      BY DEF Attended
    <3>1. CASE m = n
      BY <3>1, <2>1 DEF Queues
    <3>2. CASE m # n
      <4>1. q[m] # <<>>
        BY <3>2, <2>1 DEF Queues
      <4>2. m \in cur \cup failed \/ \E d \in Context : to[d] = m
        BY <3>2, <4>1 DEF Lonely
      <4>3. \A d \in Context : to[d] = m => to'[d] = m
        BY <2>1, SenderAssumption DEF Queues, Nobody, SenderAssumption
      <4> QED BY <4>2, <4>3, <2>1
    <3> QED BY <3>1, <3>2
  <2> QED BY <2>1, <2>2, <2>3, <1>0 DEF Queues
<1> QED BY <1>1, <1>2, <1>3

-----------------------------------------------------------------------------
(* The invariant.                                                          *)

LEMMA Initially ==
  ASSUME SenderAssumption, SenderInit
  PROVE  SenderInv
<1> USE DEF SenderInit
<1>1. SenderTypeOK
  BY DEF SenderTypeOK, SenderAssumption, Event
<1>2. Making /\ Errand /\ Attended
  BY DEF Making, Errand, Attended, SenderAssumption
<1>3. InFlight
  BY DEF InFlight, Of
<1>4. InOrder
  <2>1. <<>> \o <<>> = <<>>
    BY ConcatEmptySeq, EmptySeq
  <2> QED BY <2>1 DEF InOrder, SenderAssumption
<1> QED BY <1>1, <1>2, <1>3, <1>4 DEF SenderInv

\* What the lemmas above ask of the state.
LEMMA SenderReads ==
  ASSUME SenderInv
  PROVE  Queues /\ txns \in Seq(Txn) /\ curtxn \in SUBSET Node /\ Flying(txns, curtxn)
BY FlyingIsInFlight DEF SenderInv, SenderTypeOK, Queues, Txn

LEMMA VisitKeeps ==
  ASSUME SenderAssumption, SenderInv, NEW w \in Worker, NEW n \in Node, Visit(w, n)
  PROVE  SenderInv'
<1> DEFINE pending == Append(q[n], event[w])
<1>0. /\ to[w] = Nobody /\ n \in origins[w] /\ w \in Context
      /\ Flush(w, n, txns, curtxn, pending)
      /\ UNCHANGED <<offered, notified>>
  BY DEF Visit, Context
<1>1. event[w] \in Event
  BY <1>0 DEF SenderInv, Errand
<1>2. pending \in Seq(Event)
  BY <1>1, AppendProperties DEF SenderInv, SenderTypeOK
<1>3. \A m \in Node : ~Lonely(n, curtxn, m)
  BY DEF SenderInv, Attended, Lonely
<1> HIDE DEF pending
<1>4. /\ txns' \in Seq(Txn) /\ curtxn' \subseteq Node /\ Flying(txns', curtxn')
      /\ q' \in [Node -> Seq(Event)] /\ sent' \in [Node -> Seq(Event)]
      /\ to' \in [Context -> Node \cup {Nobody}]
      /\ units' \in [Context -> Seq(Event)]
      /\ failures' \in 0..MaxFailures /\ failed' \subseteq Node
      /\ Making' /\ Attended'
      /\ \A m \in Ported : sent'[m] \o q'[m] = sent[m] \o (IF m = n THEN pending ELSE q[m])
  BY <1>0, <1>2, <1>3, SenderReads, FlushKeeps DEF SenderInv
<1>5. /\ origins' = [origins EXCEPT ![w] = origins[w] \ {n}]
      /\ event' = [event EXCEPT ![w] = IF origins'[w] = {} THEN 0 ELSE event[w]]
      /\ pushed' = [pushed EXCEPT ![n] = Append(pushed[n], event[w])]
  BY DEF Visit
<1>6. /\ origins' \in [Worker -> SUBSET Node] /\ event' \in [Worker -> 0..Events]
      /\ Errand'
  BY <1>5, SenderAssumption DEF SenderInv, SenderTypeOK, Errand, SenderAssumption, Event
<1>7. pushed' \in [Node -> Seq(Event)]
  BY <1>1, <1>5, AppendProperties DEF SenderInv, SenderTypeOK
<1>8. SenderTypeOK'
  BY <1>0, <1>4, <1>6, <1>7 DEF SenderInv, SenderTypeOK, Txn
<1>9. InFlight'
  BY <1>4 DEF InFlight, Of, Flying
<1>10. InOrder'
  <2> SUFFICES ASSUME NEW m \in Ported PROVE pushed'[m] = sent'[m] \o q'[m]
    BY DEF InOrder
  <2>0. m \in Node /\ pushed[m] = sent[m] \o q[m]
    BY DEF SenderInv, InOrder, SenderAssumption
  <2>1. CASE m = n
    <3>0. sent[m] \in Seq(Event) /\ q[m] \in Seq(Event)
      BY <2>0 DEF SenderInv, SenderTypeOK
    <3>1. Append(sent[m] \o q[m], event[w]) = sent[m] \o pending
      <4>1. pending = Append(q[m], event[w])
        BY <2>1 DEF pending
      <4>2. Append(sent[m] \o q[m], event[w]) = sent[m] \o Append(q[m], event[w])
        <5> DEFINE s == sent[m]  t == q[m]  e == event[w]
        <5>1. s \in Seq(Event) /\ t \in Seq(Event) /\ e \in Event
          BY <1>1, <3>0
        <5> HIDE DEF s, t, e
        <5>2. Append(s \o t, e) = s \o Append(t, e)
          <6>1. /\ s \o t \in Seq(Event) /\ Append(t, e) \in Seq(Event)
                /\ Append(t, e) = t \o <<e>> /\ Append(s \o t, e) = (s \o t) \o <<e>>
                /\ <<e>> \in Seq(Event)
            BY <5>1, ConcatProperties, AppendProperties, AppendIsConcat
          <6> QED BY <5>1, <6>1, ConcatAssociative
        <5> QED BY <5>2 DEF s, t, e
      <4> QED BY <4>1, <4>2
    <3>2. pushed'[m] = Append(pushed[m], event[w])
      BY <1>5, <2>0, <2>1 DEF SenderInv, SenderTypeOK
    <3> QED BY <3>1, <3>2, <2>0, <2>1, <1>4
  <2>2. CASE m # n
    BY <2>2, <2>0, <1>4, <1>5 DEF SenderInv, SenderTypeOK
  <2> QED BY <2>1, <2>2
<1> QED BY <1>4, <1>6, <1>8, <1>9, <1>10 DEF SenderInv

LEMMA RecvKeeps ==
  ASSUME SenderAssumption, SenderInv, NEW i \in DOMAIN txns, Recv(i)
  PROVE  SenderInv'
<1> DEFINE n == txns[i].node
           list == RemoveAt(txns, i)
           cur == curtxn \ {n}
<1>0. /\ to[Receiver] = Nobody /\ Receiver \in Context
      /\ UNCHANGED <<queues, pushed>>
  BY DEF Recv, Context
<1>1. n \in Node /\ list \in Seq(Txn) /\ Flying(list, cur)
  BY SenderReads, FlyingRemove
<1>2. cur \in SUBSET Node
  BY SenderReads
<1>3. q[n] \in Seq(Event)
  BY <1>1 DEF SenderInv, SenderTypeOK
<1>4. \A m \in Node : ~Lonely(n, cur, m)
  BY DEF SenderInv, Attended, Lonely
<1>5. \/ txns[i].state = "ok" /\ Flush(Receiver, n, list, cur, q[n])
      \/ Remain(n, list, cur, q[n]) /\ UNCHANGED <<to, units, failures>>
  BY DEF Recv
<1> HIDE DEF n, list, cur
<1>6. /\ txns' \in Seq(Txn) /\ curtxn' \subseteq Node /\ Flying(txns', curtxn')
      /\ q' \in [Node -> Seq(Event)] /\ sent' \in [Node -> Seq(Event)]
      /\ to' \in [Context -> Node \cup {Nobody}]
      /\ units' \in [Context -> Seq(Event)]
      /\ failures' \in 0..MaxFailures /\ failed' \subseteq Node
      /\ Making' /\ Attended'
      /\ \A m \in Ported : sent'[m] \o q'[m] = sent[m] \o (IF m = n THEN q[n] ELSE q[m])
  <2>1. CASE Flush(Receiver, n, list, cur, q[n])
    BY <2>1, <1>0, <1>1, <1>2, <1>3, <1>4, SenderReads, FlushKeeps DEF SenderInv
  <2>2. CASE Remain(n, list, cur, q[n]) /\ UNCHANGED <<to, units, failures>>
    <3>1. /\ txns' \in Seq(Txn) /\ curtxn' \subseteq Node /\ Flying(txns', curtxn')
          /\ q' \in [Node -> Seq(Event)] /\ sent' = sent
          /\ failed' \subseteq Node
          /\ q'[n] = q[n] /\ n \in failed'
          /\ \A m \in Node \ {n} : /\ q'[m] = q[m]
                                   /\ m \in curtxn' <=> m \in cur
                                   /\ m \in failed' <=> m \in failed
      BY <2>2, <1>1, <1>2, <1>3, SenderReads, RemainKeeps
    <3>2. Attended'
      BY <3>1, <2>2, <1>4 DEF Attended, Lonely
    <3>3. Making'
      BY <2>2 DEF SenderInv, Making
    <3>4. \A m \in Ported : m \in Node
      BY DEF SenderAssumption
    <3> QED BY <3>1, <3>2, <3>3, <3>4, <2>2, SenderReads DEF Queues
  <2> QED BY <1>5, <2>1, <2>2
<1>7. SenderTypeOK'
  BY <1>0, <1>6 DEF SenderInv, SenderTypeOK, Txn, queues
<1>8. InFlight'
  BY <1>6 DEF InFlight, Of, Flying
<1>9. InOrder' /\ Errand'
  BY <1>0, <1>6 DEF SenderInv, InOrder, Errand, queues
<1> QED BY <1>6, <1>7, <1>8, <1>9 DEF SenderInv

LEMMA ResumeKeeps ==
  ASSUME SenderAssumption, SenderInv, NEW c \in Context, FlushResume(c)
  PROVE  SenderInv'
<1> DEFINE n == to[c]
           us == units[c]
<1>0. /\ to' = [to EXCEPT ![c] = Nobody] /\ units' = [units EXCEPT ![c] = <<>>]
      /\ UNCHANGED <<queues, pushed>>
      /\ \/ Launch(n, us, txns, curtxn, q[n]) /\ UNCHANGED failures
         \/ Remain(n, txns, curtxn, q[n]) /\ Failure
  BY DEF FlushResume
<1>1. n \in Node /\ n \notin Ported /\ us \in Seq(Event) \ {<<>>}
  BY DEF FlushResume, SenderInv, SenderTypeOK, Making
<1>2. q[n] \in Seq(Event)
  BY <1>1 DEF SenderInv, SenderTypeOK
<1>3. \A m \in Node : m # n => ~Lonely(n, curtxn, m)
  BY DEF SenderInv, Attended, Lonely
<1>4. \A m \in Node \ {n} : \A d \in Context : to[d] = m => to'[d] = m
  BY <1>0 DEF SenderInv, SenderTypeOK
<1>5. \A m \in Ported : m \in Node \ {n}
  BY <1>1 DEF SenderAssumption
<1>6. Making'
  BY <1>0 DEF SenderInv, SenderTypeOK, Making
<1>7. to' \in [Context -> Node \cup {Nobody}] /\ units' \in [Context -> Seq(Event)]
  BY <1>0, EmptySeq DEF SenderInv, SenderTypeOK
<1> HIDE DEF n, us
<1>8. /\ txns' \in Seq(Txn) /\ curtxn' \subseteq Node /\ Flying(txns', curtxn')
      /\ q' \in [Node -> Seq(Event)] /\ sent' \in [Node -> Seq(Event)]
      /\ failures' \in 0..MaxFailures /\ failed' \subseteq Node
      /\ q'[n] = <<>> \/ n \in failed' \cup curtxn'
      /\ \A m \in Node \ {n} : /\ q'[m] = q[m] /\ sent'[m] = sent[m]
                               /\ m \in curtxn' <=> m \in curtxn
                               /\ m \in failed' <=> m \in failed
  <2>1. CASE Launch(n, us, txns, curtxn, q[n]) /\ UNCHANGED failures
    <3>1. /\ txns' \in Seq(Txn) /\ curtxn' \subseteq Node /\ Flying(txns', curtxn')
          /\ q' \in [Node -> Seq(Event)] /\ sent' \in [Node -> Seq(Event)]
          /\ failed' \subseteq Node
          /\ q'[n] = <<>> /\ n \in curtxn'
          /\ sent'[n] \o q'[n] = sent[n] \o us
          /\ \A m \in Node \ {n} :
               /\ q'[m] = q[m] /\ sent'[m] = sent[m]
               /\ m \in curtxn' <=> m \in curtxn
               /\ m \in failed' <=> m \in failed
      BY <2>1, <1>1, SenderReads, LaunchKeeps
    <3> QED BY <3>1, <2>1, SenderReads DEF Queues
  <2>2. CASE Remain(n, txns, curtxn, q[n]) /\ Failure
    <3>1. /\ txns' \in Seq(Txn) /\ curtxn' \subseteq Node /\ Flying(txns', curtxn')
          /\ q' \in [Node -> Seq(Event)] /\ sent' = sent
          /\ failed' \subseteq Node
          /\ q'[n] = q[n] /\ n \in failed'
          /\ \A m \in Node \ {n} : /\ q'[m] = q[m]
                                   /\ m \in curtxn' <=> m \in curtxn
                                   /\ m \in failed' <=> m \in failed
      BY <2>2, <1>1, <1>2, SenderReads, RemainKeeps
    <3>2. failures' \in 0..MaxFailures
      BY <2>2, SenderReads DEF Failure, Queues, SenderAssumption
    <3> QED BY <3>1, <3>2, SenderReads DEF Queues
  <2> QED BY <1>0, <2>1, <2>2
<1>9. Attended'
  BY <1>3, <1>4, <1>8 DEF Attended, Lonely
<1>10. SenderTypeOK'
  BY <1>0, <1>7, <1>8 DEF SenderInv, SenderTypeOK, Txn, queues
<1>11. InFlight'
  BY <1>8 DEF InFlight, Of, Flying
<1>12. InOrder' /\ Errand'
  BY <1>0, <1>5, <1>8 DEF SenderInv, InOrder, Errand, queues
<1> QED BY <1>6, <1>9, <1>10, <1>11, <1>12 DEF SenderInv

LEMMA SameFlight ==
  ASSUME InFlight, UNCHANGED <<txns, curtxn>>
  PROVE  InFlight'
BY DEF InFlight, Of

LEMMA NextKeeps ==
  ASSUME SenderAssumption, SenderInv, [SenderNext]_senderVars
  PROVE  SenderInv'
<1>1. CASE Notify
  <2>1. /\ offered < Events /\ offered' = offered + 1
        /\ notified' = Append(notified, offered')
        /\ UNCHANGED <<event, origins, q, curtxn, txns, to, units, failures, failed,
                       pushed, sent>>
    BY <1>1 DEF Notify
  <2>2. offered' \in Event /\ offered' \in 0..Events
    BY <2>1, SenderAssumption DEF SenderInv, SenderTypeOK, Event, SenderAssumption
  <2>3. notified' \in Seq(Event)
    BY <2>1, <2>2, AppendProperties DEF SenderInv, SenderTypeOK
  <2>4. SenderTypeOK'
    BY <2>1, <2>2, <2>3 DEF SenderInv, SenderTypeOK
  <2>5. Making' /\ Errand'
    BY <2>1 DEF SenderInv, Making, Errand
  <2>6. InFlight' /\ InOrder'
    BY <2>1, SameFlight DEF SenderInv, InOrder
  <2>7. Attended'
    BY <2>1 DEF SenderInv, Attended
  <2> QED BY <2>4, <2>5, <2>6, <2>7 DEF SenderInv
<1>2. ASSUME NEW w \in Worker, Pop(w) PROVE SenderInv'
  <2>1. /\ notified # <<>> /\ notified' = Tail(notified)
        /\ UNCHANGED <<offered, q, curtxn, txns, to, units, failures, failed, pushed,
                       sent>>
    BY <1>2 DEF Pop
  <2>2. PICK S \in SUBSET Node \ {{}} :
          /\ origins' = [origins EXCEPT ![w] = S]
          /\ event' = [event EXCEPT ![w] = Head(notified)]
    BY <1>2 DEF Pop
  <2>3. Head(notified) \in Event /\ notified' \in Seq(Event)
    BY <2>1, HeadTailProperties DEF SenderInv, SenderTypeOK
  <2>4. Head(notified) \in 0..Events
    BY <2>3, SenderAssumption DEF Event, SenderAssumption
  <2>5. Errand'
    BY <2>2, <2>3 DEF SenderInv, SenderTypeOK, Errand
  <2>6. event' \in [Worker -> 0..Events] /\ origins' \in [Worker -> SUBSET Node]
    BY <2>2, <2>4 DEF SenderInv, SenderTypeOK
  <2>7. SenderTypeOK'
    BY <2>1, <2>3, <2>6 DEF SenderInv, SenderTypeOK
  <2>8. Making' /\ Attended'
    BY <2>1 DEF SenderInv, Making, Attended
  <2>9. InFlight' /\ InOrder'
    BY <2>1, SameFlight DEF SenderInv, InOrder
  <2> QED BY <2>5, <2>7, <2>8, <2>9 DEF SenderInv
<1>3. ASSUME NEW i \in DOMAIN txns, NEW how \in {"ok", "error"},
             txns' = [txns EXCEPT ![i].state = how], failures' \in 0..MaxFailures,
             UNCHANGED <<queues, q, curtxn, to, units, failed, pushed, sent>>
      PROVE  SenderInv'
  <2>1. txns' \in Seq(Txn) /\ Flying(txns', curtxn)
    BY <1>3, SenderReads, FlyingStays
  <2>2. SenderTypeOK'
    BY <1>3, <2>1 DEF SenderInv, SenderTypeOK, Txn, queues
  <2>3. InFlight'
    BY <1>3, <2>1 DEF InFlight, Of, Flying
  <2> QED BY <1>3, <2>2, <2>3 DEF SenderInv, Making, Errand, Attended, InOrder, queues
<1>4. ASSUME NEW i \in DOMAIN txns, Reply(i) PROVE SenderInv'
  <2>1. failures' \in 0..MaxFailures
    BY <1>4 DEF Reply, SenderInv, SenderTypeOK
  <2> QED BY <1>3, <1>4, <2>1 DEF Reply
<1>5. ASSUME NEW i \in DOMAIN txns, Fail(i) PROVE SenderInv'
  <2>1. failures' \in 0..MaxFailures
    <3>1. Failure
      BY <1>5 DEF Fail
    <3> QED BY <3>1 DEF Failure, SenderInv, SenderTypeOK, SenderAssumption
  <2>2. /\ txns' = [txns EXCEPT ![i].state = "error"]
        /\ UNCHANGED <<queues, q, curtxn, to, units, failed, pushed, sent>>
    BY <1>5 DEF Fail
  <2> QED BY <1>3, <2>1, <2>2
<1>6. CASE UNCHANGED senderVars
  BY <1>6 DEF senderVars, queues, SenderInv, SenderTypeOK, Making, Errand, InFlight, Of, Attended, InOrder
<1> QED BY <1>1, <1>2, <1>4, <1>5, <1>6, VisitKeeps, ResumeKeeps, RecvKeeps
        DEF SenderNext, WorkerStep

-----------------------------------------------------------------------------
(* The theorems.                                                           *)

\* The invariant holds in every reachable state, for any number of servers,
\* events, senders and failures.
THEOREM SenderInvariance == SenderSpec => []SenderInv
<1>1. SenderInit => SenderInv
  BY SenderAssumption, Initially
<1>2. SenderInv /\ [SenderNext]_senderVars => SenderInv'
  BY SenderAssumption, NextKeeps
<1> QED BY <1>1, <1>2, PTL DEF SenderSpec

\* node::flush() never sends a transaction of nothing, and the queues hold events.
THEOREM SenderTypes == SenderSpec => []SenderTypeOK
<1>1. SenderInv => SenderTypeOK
  BY DEF SenderInv
<1> QED BY <1>1, SenderInvariance, PTL

\* A node whose curtxn is set has a transaction, whose end recv() will handle.
THEOREM TransactionsInFlight == SenderSpec => []InFlight
<1>1. SenderInv => InFlight
  BY DEF SenderInv
<1> QED BY <1>1, SenderInvariance, PTL

\* Nothing stays in node::q without a transaction, a flush or a failure.
THEOREM QueuesAttended == SenderSpec => []Attended
<1>1. SenderInv => Attended
  BY DEF SenderInv
<1> QED BY <1>1, SenderInvariance, PTL

\* A node that is not looked up is sent all that node::push() queued, in order.
THEOREM SentInOrder == SenderSpec => []InOrder
<1>1. SenderInv => InOrder
  BY DEF SenderInv
<1> QED BY <1>1, SenderInvariance, PTL

-----------------------------------------------------------------------------
(* A peer, its links and their tags.  The calls that a handler has still   *)
(* to make.                                                                *)

RequestOps == {"submit", "place"}
LinkOps == {"cleanup", "disperse", "abort", "notify", "close", "reset", "write",
            "read", "linkdone"}

CallSet == [op : RequestOps, of : Request] \cup [op : LinkOps, of : Link]
             \cup [op : {"closepeer", "finished"}, of : {"peer"}]

\* The calls that finish a close.
How == {"notify", "abort"}

\* Those that a handler ends with.
Alone == {"write", "read", "linkdone", "reset", "closepeer"}

\* Which calls are below which.  What is submitted is so at once; only
\* peer::close() has more links to close than the first, and with op_fini
\* nothing is placed; a link that is dispersed is told next, and no link is
\* closed below that.
Stacked ==
  /\ \A i \in DOMAIN work :
       /\ work[i].op \in Alone => Len(work) = 1
       /\ work[i].op = "submit" => i = 1
       /\ work[i].op \in {"cleanup", "place"} => ~fini /\ run = "RUN"
       /\ work[i].op = "close" => i = 1 \/ fini
       /\ work[i].op = "disperse" => /\ i + 1 \in DOMAIN work
                                     /\ work[i + 1].op \in How
                                     /\ work[i + 1].of = work[i].of
  /\ \A i, j \in DOMAIN work : work[i].of = work[j].of =>
       /\ work[i].op = "close" /\ work[j].op = "close" => i = j
       /\ work[i].op \in How /\ work[j].op \in How => i = j
       /\ work[i].op \in How /\ work[j].op = "close" => j < i
       /\ work[i].op \in RequestOps /\ work[j].op \in RequestOps => i = j

\* What the calls take for granted of their link.
AimedAt(x) ==
  /\ x.op = "close" => x.of \in Linked
  /\ x.op \in How => x.of \in opFini /\ socket[x.of] \notin {"closing", "stuck"}
  /\ x.op = "abort" => x.of \notin opInit
  /\ x.op \in {"write", "read", "linkdone"} =>
       x.of \in Linked /\ x.of \notin opFini /\ socket[x.of] = "open"
  /\ x.op = "reset" => x.of \in Linked /\ x.of \notin opInit
Aimed == \A x \in ToSet(work) : AimedAt(x)

-----------------------------------------------------------------------------
(* Links.                                                                  *)

\* The flags are those of links that exist, and so are the tags and sockets.
Owned == /\ Distinct(links)
         /\ opInit \cup opFini \cup opWrite \cup opRead \subseteq Linked
         /\ \A l \in Link : socket[l] # "none" \/ queue[l] # <<>> => l \in Linked

\* Each handler that is pending finds its socket in a state to be called in,
\* and each link that closes is told.
Told == \A l \in Link :
          /\ l \in opInit => socket[l] \in {"connecting", "closing", "stuck"}
          /\ l \in opWrite \cup opRead => socket[l] # "none"
          /\ socket[l] \in {"closing", "stuck"} => l \in opFini
          /\ l \in opFini => \/ socket[l] \in {"closing", "stuck"}
                             \/ socket[l] = "closed" /\ l \in opWrite \cup opRead
                             \/ \E x \in ToSet(work) : x.op \in How /\ x.of = l

\* A link that closes has been dispersed, or is being.
Dispersed == \A l \in opFini : queue[l] # <<>> => Call("disperse", l) \in ToSet(work)

-----------------------------------------------------------------------------
(* Tags.                                                                   *)

InQueue(r) == \E l \in Link : r \in ToSet(queue[l])
InWork(r) == \E x \in ToSet(work) : x.op \in RequestOps /\ x.of = r

\* A tag is in one place of one queue, or its request is about to be put there.
Unique == /\ \A l \in Link : Distinct(queue[l])
          /\ \A k, l \in Link : \A r \in Request :
               r \in ToSet(queue[k]) /\ r \in ToSet(queue[l]) => k = l
          /\ \A r \in Request : InWork(r) =>
               /\ ~InQueue(r) /\ ~Committed(r) /\ future[r] \in {"none", "pending"}

\* Who holds a tag.
Held == \A r \in Request :
          /\ holder[r] = "user" <=> future[r] = "pending"
          /\ holder[r] = "dummy" => Committed(r)
          /\ holder[r] = "none" /\ InQueue(r) => ~Committed(r)
          /\ future[r] = "none" => ~Committed(r) /\ ~InQueue(r)
          /\ future[r] = "pending" => InWork(r) \/ InQueue(r)

\* ~init() has emptied the queues.
Emptied == run \notin {"RUN", "QUIT"} => \A l \in Link : queue[l] = <<>>

-----------------------------------------------------------------------------
(* Pipes.                                                                  *)

Ordered == \A l \in Link :
  /\ TagCommitted(l) \in 0..Len(queue[l]) /\ TagCommitted(l) <= CommitMax
  /\ \A i \in DOMAIN queue[l] : Committed(queue[l][i]) <=> i <= TagCommitted(l)

\* The answers of a link are, in order, those of its committed tags.
Matched == \A l \in Link : l \notin opFini /\ run \in {"RUN", "QUIT"} =>
  /\ Len(inbox[l]) + Len(wire[l]) = TagCommitted(l)
  /\ \A i \in DOMAIN inbox[l] : inbox[l][i][1] = queue[l][i]
  /\ \A i \in DOMAIN wire[l] : wire[l][i] = queue[l][Len(inbox[l]) + i]

\* What is on its way belongs to an open connection.
Severed == \A l \in Link : socket[l] # "open" => wire[l] = <<>> /\ inbox[l] = <<>>

\* The remote answers each request once, and only what was revealed.
Asked == /\ \A l \in Link : Distinct(wire[l])
         /\ \A k, l \in Link : \A r \in Request :
              r \in ToSet(wire[k]) /\ r \in ToSet(wire[l]) => k = l
         /\ \A l \in Link : \A r \in ToSet(wire[l]) : Committed(r) /\ r \notin answered
         /\ \A r \in answered : Committed(r)
         /\ \A l \in Link : \A i \in DOMAIN inbox[l] : inbox[l][i][1] \in answered

IInv == /\ TypeOK /\ work \in Seq(CallSet)
        /\ Stacked /\ Aimed /\ Owned /\ Told /\ Dispersed
        /\ Unique /\ Held /\ Emptied
        /\ Ordered /\ Matched /\ Severed /\ Asked

-----------------------------------------------------------------------------
(* Lists and prefixes.                                                     *)

\* The first of a list that is in T.
LEMMA FirstProperties ==
  ASSUME NEW S, NEW tags \in Seq(S), NEW T, T \cap ToSet(tags) # {}
  PROVE  \E k \in DOMAIN tags : /\ First(tags, T) = tags[k] /\ tags[k] \in T
                                /\ \A j \in DOMAIN tags : tags[j] \in T => k <= j
<1> DEFINE P(i) == tags[i] \in T /\ \A j \in DOMAIN tags : tags[j] \in T => i <= j
           K == {i \in DOMAIN tags : tags[i] \in T}
<1>1. DOMAIN tags \subseteq Nat
  BY LenProperties
<1>2. K \subseteq Nat /\ K # {}
  BY <1>1 DEF ToSet
<1>3. \E k \in K : \A j \in K : ~ (<<j, k>> \in OpToRel(<, Nat))
  BY <1>2, NatLessThanWellFounded, WFMin
<1>4. PICK k \in K : \A j \in K : k <= j
  <2>1. PICK k \in K : \A j \in K : ~ (<<j, k>> \in OpToRel(<, Nat))
    BY <1>3
  <2>2. ASSUME NEW j \in K PROVE k <= j
    <3>1. j \in Nat /\ k \in Nat
      BY <1>2
    <3>2. ~ (j < k)
      BY <2>1, <3>1 DEF OpToRel
    <3> QED BY <3>1, <3>2
  <2> QED BY <2>2
<1>5. k \in DOMAIN tags /\ P(k)
  BY <1>4
<1>6. First(tags, T) = tags[CHOOSE i \in DOMAIN tags : P(i)]
  BY DEF First
<1> DEFINE c == CHOOSE i \in DOMAIN tags : P(i)
<1>7. c \in DOMAIN tags /\ P(c)
  BY <1>5
<1> HIDE DEF c
<1> QED BY <1>6, <1>7 DEF c

\* How many tags are committed, if those are the first n.
LEMMA CommittedFirst ==
  ASSUME NEW tags \in Seq(Request), NEW n \in 0..Len(tags), NEW C,
         \A i \in DOMAIN tags : tags[i] \in C <=> i <= n
  PROVE  Cardinality({i \in DOMAIN tags : tags[i] \in C}) = n
<1>1. Len(tags) \in Nat /\ DOMAIN tags = 1..Len(tags)
  BY LenProperties
<1>2. {i \in DOMAIN tags : tags[i] \in C} = 1..n
  BY <1>1
<1>3. Cardinality(1..n) = n
  BY <1>1, FS_Interval
<1> QED BY <1>2, <1>3

-----------------------------------------------------------------------------
(* The work of a handler.                                                  *)

\* The calls of the tail, moved by n - 1 places, come below the new ones.
LEMMA ThenProperties ==
  ASSUME work \in Seq(CallSet), work # <<>>, NEW c \in Seq(CallSet), Then(c)
  PROVE  /\ work' \in Seq(CallSet)
         /\ Len(work) \in Nat /\ Len(work) >= 1 /\ DOMAIN work = 1..Len(work)
         /\ Len(c) \in Nat /\ DOMAIN c = 1..Len(c)
         /\ Len(work') = Len(c) + Len(work) - 1
         /\ DOMAIN work' = 1..(Len(c) + Len(work) - 1)
         /\ \A i \in 1..Len(c) : work'[i] = c[i]
         /\ \A j \in 2..Len(work) : work'[j + Len(c) - 1] = work[j]
<1>1. /\ Len(work) \in Nat /\ Len(work) >= 1 /\ DOMAIN work = 1..Len(work)
      /\ Len(c) \in Nat /\ DOMAIN c = 1..Len(c)
  BY LenProperties, EmptySeq
<1> DEFINE t == Tail(work)
<1>2. /\ t \in Seq(CallSet) /\ Len(t) = Len(work) - 1
      /\ \A i \in 1..(Len(work) - 1) : t[i] = work[i + 1]
  BY HeadTailProperties
<1>3. work' = c \o t
  BY DEF Then
<1> HIDE DEF t
<1>4. /\ c \o t \in Seq(CallSet) /\ Len(c \o t) = Len(c) + Len(t)
      /\ \A i \in 1..(Len(c) + Len(t)) :
           (c \o t)[i] = IF i <= Len(c) THEN c[i] ELSE t[i - Len(c)]
  BY <1>2, ConcatProperties
<1>5. /\ work' \in Seq(CallSet) /\ Len(work') = Len(c) + Len(work) - 1
      /\ \A i \in 1..(Len(c) + Len(work) - 1) :
           work'[i] = IF i <= Len(c) THEN c[i] ELSE t[i - Len(c)]
  BY <1>1, <1>2, <1>3, <1>4
<1>6. DOMAIN work' = 1..(Len(c) + Len(work) - 1)
  BY <1>5, LenProperties
<1>7. ASSUME NEW i \in 1..Len(c) PROVE work'[i] = c[i]
  <2>1. i \in 1..(Len(c) + Len(work) - 1) /\ i <= Len(c)
    BY <1>1
  <2> QED BY <2>1, <1>5
<1>8. ASSUME NEW j \in 2..Len(work) PROVE work'[j + Len(c) - 1] = work[j]
  <2>1. /\ j + Len(c) - 1 \in 1..(Len(c) + Len(work) - 1)
        /\ ~ (j + Len(c) - 1 <= Len(c))
        /\ (j + Len(c) - 1) - Len(c) = j - 1
        /\ j - 1 \in 1..(Len(work) - 1) /\ (j - 1) + 1 = j
    BY <1>1
  <2>2. work'[j + Len(c) - 1] = t[j - 1]
    BY <2>1, <1>5
  <2> QED BY <2>1, <2>2, <1>2
<1> QED BY <1>1, <1>5, <1>6, <1>7, <1>8

\* The call returns.
LEMMA ThenNothing ==
  ASSUME work \in Seq(CallSet), work # <<>>, Then(<<>>)
  PROVE  /\ work' \in Seq(CallSet) /\ Len(work) \in Nat /\ Len(work) >= 1
         /\ DOMAIN work = 1..Len(work)
         /\ Len(work') = Len(work) - 1 /\ DOMAIN work' = 1..(Len(work) - 1)
         /\ \A i \in DOMAIN work' : i + 1 \in DOMAIN work /\ work'[i] = work[i + 1]
         /\ \A j \in DOMAIN work : j # 1 => j - 1 \in DOMAIN work' /\ work'[j - 1] = work[j]
<1>1. <<>> \in Seq(CallSet) /\ Len(<<>>) = 0
  OBVIOUS
<1> DEFINE c == <<>>
<1> HIDE DEF c
<1>2. /\ work' \in Seq(CallSet)
      /\ Len(work) \in Nat /\ Len(work) >= 1 /\ DOMAIN work = 1..Len(work)
      /\ Len(work') = Len(c) + Len(work) - 1
      /\ DOMAIN work' = 1..(Len(c) + Len(work) - 1)
      /\ \A j \in 2..Len(work) : work'[j + Len(c) - 1] = work[j]
  BY <1>1, ThenProperties DEF c
<1>3. Len(c) = 0
  BY <1>1 DEF c
<1>4. /\ Len(work') = Len(work) - 1 /\ DOMAIN work' = 1..(Len(work) - 1)
  BY <1>2, <1>3
<1>5. ASSUME NEW j \in DOMAIN work, j # 1
      PROVE  j - 1 \in DOMAIN work' /\ work'[j - 1] = work[j]
  <2>1. j \in 2..Len(work) /\ j + 0 - 1 = j - 1 /\ j - 1 \in 1..(Len(work) - 1)
    BY <1>2, <1>5
  <2> QED BY <2>1, <1>2, <1>3, <1>4
<1>6. ASSUME NEW i \in DOMAIN work'
      PROVE  i + 1 \in DOMAIN work /\ work'[i] = work[i + 1]
  <2>1. i + 1 \in DOMAIN work /\ i + 1 # 1 /\ (i + 1) - 1 = i
    BY <1>2, <1>4
  <2> QED BY <2>1, <1>5
<1> QED BY <1>2, <1>4, <1>5, <1>6

\* It ends with another call.
LEMMA ThenOne ==
  ASSUME work \in Seq(CallSet), work # <<>>, NEW x \in CallSet, Then(<<x>>)
  PROVE  /\ work' \in Seq(CallSet) /\ Len(work) \in Nat /\ Len(work) >= 1
         /\ DOMAIN work = 1..Len(work)
         /\ Len(work') = Len(work) /\ DOMAIN work' = DOMAIN work
         /\ 1 \in DOMAIN work /\ work'[1] = x
         /\ \A i \in DOMAIN work : i # 1 => work'[i] = work[i]
<1> DEFINE c == <<x>>
<1>1. c \in Seq(CallSet) /\ Len(c) = 1 /\ c[1] = x /\ Then(c)
  OBVIOUS
<1> HIDE DEF c
<1>2. /\ work' \in Seq(CallSet)
      /\ Len(work) \in Nat /\ Len(work) >= 1 /\ DOMAIN work = 1..Len(work)
      /\ Len(work') = Len(c) + Len(work) - 1
      /\ DOMAIN work' = 1..(Len(c) + Len(work) - 1)
      /\ \A i \in 1..Len(c) : work'[i] = c[i]
      /\ \A j \in 2..Len(work) : work'[j + Len(c) - 1] = work[j]
  BY <1>1, ThenProperties
<1>3. Len(work') = Len(work) /\ DOMAIN work' = DOMAIN work /\ 1 \in DOMAIN work
  BY <1>1, <1>2
<1>4. work'[1] = x
  BY <1>1, <1>2
<1>5. ASSUME NEW i \in DOMAIN work, i # 1 PROVE work'[i] = work[i]
  <2>1. i \in 2..Len(work) /\ i + 1 - 1 = i
    BY <1>2, <1>5
  <2> QED BY <2>1, <1>1, <1>2
<1> QED BY <1>2, <1>3, <1>4, <1>5

\* It calls one, and another when that has returned.
LEMMA ThenTwo ==
  ASSUME work \in Seq(CallSet), work # <<>>, NEW x \in CallSet, NEW y \in CallSet,
         Then(<<x, y>>)
  PROVE  /\ work' \in Seq(CallSet) /\ Len(work) \in Nat /\ Len(work) >= 1
         /\ DOMAIN work = 1..Len(work)
         /\ Len(work') = Len(work) + 1 /\ DOMAIN work' = 1..(Len(work) + 1)
         /\ 1 \in DOMAIN work' /\ work'[1] = x
         /\ 2 \in DOMAIN work' /\ work'[2] = y
         /\ \A i \in DOMAIN work' : i = 1 \/ i = 2 \/
              (i - 1 \in DOMAIN work /\ i - 1 # 1 /\ work'[i] = work[i - 1])
         /\ \A j \in DOMAIN work : j # 1 => j + 1 \in DOMAIN work' /\ work'[j + 1] = work[j]
<1> DEFINE c == <<x, y>>
<1>1. c \in Seq(CallSet) /\ Len(c) = 2 /\ c[1] = x /\ c[2] = y /\ Then(c)
  OBVIOUS
<1> HIDE DEF c
<1>2. /\ work' \in Seq(CallSet)
      /\ Len(work) \in Nat /\ Len(work) >= 1 /\ DOMAIN work = 1..Len(work)
      /\ Len(work') = Len(c) + Len(work) - 1
      /\ DOMAIN work' = 1..(Len(c) + Len(work) - 1)
      /\ \A i \in 1..Len(c) : work'[i] = c[i]
      /\ \A j \in 2..Len(work) : work'[j + Len(c) - 1] = work[j]
  BY <1>1, ThenProperties
<1>3. /\ Len(work') = Len(work) + 1 /\ DOMAIN work' = 1..(Len(work) + 1)
      /\ 1 \in DOMAIN work' /\ 2 \in DOMAIN work'
  BY <1>1, <1>2
<1>4. work'[1] = x /\ work'[2] = y
  BY <1>1, <1>2
<1>5. ASSUME NEW j \in DOMAIN work, j # 1
      PROVE  j + 1 \in DOMAIN work' /\ work'[j + 1] = work[j]
  <2>1. j \in 2..Len(work) /\ j + 2 - 1 = j + 1 /\ j + 1 \in DOMAIN work'
    BY <1>2, <1>3, <1>5
  <2> QED BY <2>1, <1>1, <1>2
<1>6. ASSUME NEW i \in DOMAIN work', i # 1, i # 2
      PROVE  i - 1 \in DOMAIN work /\ i - 1 # 1 /\ work'[i] = work[i - 1]
  <2>1. i - 1 \in DOMAIN work /\ i - 1 # 1 /\ (i - 1) + 1 = i
    BY <1>2, <1>3, <1>6
  <2> QED BY <2>1, <1>5
<1> QED BY <1>2, <1>3, <1>4, <1>5, <1>6

\* The calls below the one at the head.
Rest == ToSet(Tail(work))

LEMMA RestIs ==
  ASSUME work \in Seq(CallSet), work # <<>>
  PROVE  Rest = {work[j] : j \in DOMAIN work \ {1}}
<1> DEFINE t == Tail(work)
<1>1. /\ Len(work) \in Nat /\ Len(work) >= 1 /\ DOMAIN work = 1..Len(work)
      /\ t \in Seq(CallSet) /\ Len(t) = Len(work) - 1
      /\ \A i \in 1..(Len(work) - 1) : t[i] = work[i + 1]
  BY LenProperties, EmptySeq, HeadTailProperties
<1>2. Rest = {t[i] : i \in DOMAIN t}
  BY DEF Rest, ToSet
<1> HIDE DEF t
<1>3. DOMAIN t = 1..(Len(work) - 1)
  BY <1>1, LenProperties
<1>4. ASSUME NEW i \in DOMAIN t PROVE i + 1 \in DOMAIN work \ {1} /\ t[i] = work[i + 1]
  BY <1>1, <1>3
<1>5. ASSUME NEW j \in DOMAIN work \ {1} PROVE j - 1 \in DOMAIN t /\ t[j - 1] = work[j]
  <2>1. j - 1 \in 1..(Len(work) - 1) /\ (j - 1) + 1 = j
    BY <1>1
  <2> QED BY <1>1, <1>3, <2>1
<1> QED BY <1>2, <1>4, <1>5

\* The calls that are left, as a set.
LEMMA ThenCalls ==
  ASSUME work \in Seq(CallSet), work # <<>>
  PROVE  /\ ToSet(work) = {work[1]} \cup Rest /\ Rest \subseteq CallSet
         /\ Then(<<>>) => ToSet(work') = Rest
         /\ \A x \in CallSet : Then(<<x>>) => ToSet(work') = {x} \cup Rest
         /\ \A x, y \in CallSet : Then(<<x, y>>) => ToSet(work') = {x, y} \cup Rest
<1>1. Rest = {work[j] : j \in DOMAIN work \ {1}}
  BY RestIs
<1>2. DOMAIN work = 1..Len(work) /\ Len(work) \in Nat /\ Len(work) # 0
  BY LenProperties, EmptySeq
<1>3. ToSet(work) = {work[1]} \cup Rest /\ Rest \subseteq CallSet
  BY <1>1, <1>2 DEF ToSet
<1>4. ASSUME Then(<<>>) PROVE ToSet(work') = Rest
  <2>1. /\ \A i \in DOMAIN work' : i + 1 \in DOMAIN work /\ work'[i] = work[i + 1]
        /\ \A j \in DOMAIN work : j # 1 => j - 1 \in DOMAIN work' /\ work'[j - 1] = work[j]
        /\ DOMAIN work' = 1..(Len(work) - 1)
    BY <1>4, ThenNothing
  <2>2. \A i \in DOMAIN work' : i + 1 \in DOMAIN work \ {1} /\ work'[i] = work[i + 1]
    BY <1>2, <2>1
  <2> QED BY <1>1, <2>1, <2>2 DEF ToSet
<1>5. ASSUME NEW x \in CallSet, Then(<<x>>) PROVE ToSet(work') = {x} \cup Rest
  <2>1. /\ DOMAIN work' = DOMAIN work /\ 1 \in DOMAIN work /\ work'[1] = x
        /\ \A i \in DOMAIN work : i # 1 => work'[i] = work[i]
    BY <1>5, ThenOne
  <2> QED BY <1>1, <2>1 DEF ToSet
<1>6. ASSUME NEW x \in CallSet, NEW y \in CallSet, Then(<<x, y>>)
      PROVE  ToSet(work') = {x, y} \cup Rest
  <2>1. /\ 1 \in DOMAIN work' /\ work'[1] = x
        /\ 2 \in DOMAIN work' /\ work'[2] = y
        /\ \A i \in DOMAIN work' : i = 1 \/ i = 2 \/
             (i - 1 \in DOMAIN work /\ i - 1 # 1 /\ work'[i] = work[i - 1])
        /\ \A j \in DOMAIN work : j # 1 => j + 1 \in DOMAIN work' /\ work'[j + 1] = work[j]
    BY <1>6, ThenTwo
  <2>2. ASSUME NEW i \in DOMAIN work' PROVE work'[i] \in {x, y} \cup Rest
    BY <1>1, <2>1
  <2>3. ASSUME NEW z \in Rest PROVE \E i \in DOMAIN work' : work'[i] = z
    BY <1>1, <2>1
  <2> QED BY <2>1, <2>2, <2>3 DEF ToSet
<1> QED BY <1>3, <1>4, <1>5, <1>6

\* What is below a call, told from the call.
LEMMA HeadFacts ==
  ASSUME work \in Seq(CallSet), work # <<>>, Stacked
  PROVE  /\ work[1].op \in Alone => Rest = {}
         /\ \A x \in Rest : /\ x.op \notin Alone /\ x.op # "submit"
                            /\ x.op = "close" => fini
                            /\ x.op \in {"cleanup", "place"} => ~fini /\ run = "RUN"
         /\ \A x \in Rest : x.of = work[1].of =>
              /\ work[1].op = "close" => x.op # "close"
              /\ work[1].op \in How => x.op \notin How \cup {"close", "disperse"}
              /\ work[1].op \in RequestOps => x.op \notin RequestOps
         /\ work[1].op = "disperse" => \E x \in Rest : x.op \in How /\ x.of = work[1].of
<1>1. Rest = {work[j] : j \in DOMAIN work \ {1}}
  BY RestIs
<1>2. DOMAIN work = 1..Len(work) /\ Len(work) \in Nat /\ Len(work) # 0 /\ 1 \in DOMAIN work
  BY LenProperties, EmptySeq
<1>3. work[1].op \in Alone => Rest = {}
  BY <1>1, <1>2 DEF Stacked
<1>4. ASSUME NEW j \in DOMAIN work \ {1}
      PROVE  /\ work[j].op \notin Alone /\ work[j].op # "submit"
             /\ work[j].op = "close" => fini
             /\ work[j].op \in {"cleanup", "place"} => ~fini /\ run = "RUN"
  <2>1. Len(work) # 1
    BY <1>2
  <2> QED BY <2>1 DEF Stacked
<1>5. ASSUME NEW j \in DOMAIN work \ {1}, work[j].of = work[1].of
      PROVE  /\ work[1].op = "close" => work[j].op # "close"
             /\ work[1].op \in How => work[j].op \notin How \cup {"close", "disperse"}
             /\ work[1].op \in RequestOps => work[j].op \notin RequestOps
  <2>1. work[1].op = "close" => work[j].op # "close"
    BY <1>2, <1>5 DEF Stacked
  <2>2. work[1].op \in RequestOps => work[j].op \notin RequestOps
    BY <1>2, <1>5 DEF Stacked
  <2>3. ASSUME work[1].op \in How PROVE work[j].op \notin How
    BY <1>2, <1>5, <2>3 DEF Stacked
  <2>4. ASSUME work[1].op \in How, work[j].op = "close" PROVE FALSE
    <3>1. j < 1
      BY <1>2, <1>5, <2>4 DEF Stacked
    <3> QED BY <1>2, <3>1
  <2>5. ASSUME work[1].op \in How, work[j].op = "disperse" PROVE FALSE
    <3>1. j + 1 \in DOMAIN work /\ work[j + 1].op \in How /\ work[j + 1].of = work[j].of
      BY <2>5 DEF Stacked
    <3>2. j + 1 = 1
      BY <1>2, <1>5, <2>5, <3>1 DEF Stacked
    <3> QED BY <1>2, <3>2
  <2> QED BY <2>1, <2>2, <2>3, <2>4, <2>5
<1>6. ASSUME work[1].op = "disperse"
      PROVE  \E x \in Rest : x.op \in How /\ x.of = work[1].of
  <2>1. 1 + 1 \in DOMAIN work /\ work[1 + 1].op \in How /\ work[1 + 1].of = work[1].of
    BY <1>2, <1>6 DEF Stacked
  <2> QED BY <1>1, <2>1
<1> QED BY <1>1, <1>3, <1>4, <1>5, <1>6

-----------------------------------------------------------------------------
(* Stacked, over each way a call goes on.                                  *)

LEMMA HeadCall ==
  ASSUME work \in Seq(CallSet), ~Idle
  PROVE  work # <<>> /\ 1 \in DOMAIN work /\ Head(work) = work[1] /\ work[1] \in CallSet
<1>1. Len(work) \in Nat /\ DOMAIN work = 1..Len(work) /\ work # <<>> /\ Len(work) # 0
  BY LenProperties, EmptySeq DEF Idle
<1>2. 1 \in DOMAIN work
  BY <1>1
<1> QED BY <1>1, <1>2

LEMMA CallTypes ==
  /\ \A r \in Request, op \in RequestOps : Call(op, r) \in CallSet
  /\ \A l \in Link, op \in LinkOps : Call(op, l) \in CallSet
  /\ \A op \in {"closepeer", "finished"} : Call(op, "peer") \in CallSet
  /\ \A op, x : Call(op, x).op = op /\ Call(op, x).of = x
  /\ \A x \in CallSet : /\ x.op \in RequestOps => x.of \in Request
                        /\ x.op \in LinkOps => x.of \in Link
                        /\ x = Call(x.op, x.of)
BY DEF CallSet, Call, RequestOps, LinkOps

\* A handler begins with one call, or goes on with the only one it had.
LEMMA StackedOne ==
  ASSUME NEW x \in CallSet, work' = <<x>>, x.op \notin {"disperse", "cleanup", "place"}
  PROVE  Stacked'
<1>1. Len(work') = 1 /\ DOMAIN work' = 1..1 /\ work'[1] = x
  OBVIOUS
<1> QED BY <1>1 DEF Stacked, How

LEMMA StackedNone ==
  ASSUME work' = <<>> PROVE Stacked' /\ Aimed'
<1>1. DOMAIN work' = {}
  OBVIOUS
<1> QED BY <1>1 DEF Stacked, Aimed, ToSet

LEMMA StackedPop ==
  ASSUME work \in Seq(CallSet), work # <<>>, Stacked, Then(<<>>),
         fini => fini', ~fini /\ run = "RUN" => ~fini' /\ run' = "RUN"
  PROVE  Stacked'
<1>1. /\ Len(work) \in Nat /\ Len(work) >= 1 /\ DOMAIN work = 1..Len(work)
      /\ Len(work') = Len(work) - 1 /\ DOMAIN work' = 1..(Len(work) - 1)
      /\ \A i \in DOMAIN work' : i + 1 \in DOMAIN work /\ work'[i] = work[i + 1]
  BY ThenNothing
<1>2. ASSUME NEW i \in DOMAIN work'
      PROVE  /\ work'[i].op \in Alone => Len(work') = 1
             /\ work'[i].op = "submit" => i = 1
             /\ work'[i].op \in {"cleanup", "place"} => ~fini' /\ run' = "RUN"
             /\ work'[i].op = "close" => i = 1 \/ fini'
             /\ work'[i].op = "disperse" => /\ i + 1 \in DOMAIN work'
                                            /\ work'[i + 1].op \in How
                                            /\ work'[i + 1].of = work'[i].of
  <2>1. i \in Nat /\ i >= 1 /\ i + 1 \in DOMAIN work /\ i + 1 # 1 /\ work'[i] = work[i + 1]
    BY <1>1
  <2>2. work'[i].op \notin Alone /\ work'[i].op # "submit"
    BY <1>1, <2>1 DEF Stacked
  <2>3. work'[i].op \in {"cleanup", "place"} => ~fini' /\ run' = "RUN"
    BY <2>1 DEF Stacked
  <2>4. work'[i].op = "close" => fini'
    BY <2>1 DEF Stacked
  <2>5. ASSUME work'[i].op = "disperse"
        PROVE  i + 1 \in DOMAIN work' /\ work'[i + 1].op \in How /\ work'[i + 1].of = work'[i].of
    <3>1. (i + 1) + 1 \in DOMAIN work /\ work[(i + 1) + 1].op \in How
          /\ work[(i + 1) + 1].of = work[i + 1].of
      BY <2>1, <2>5 DEF Stacked
    <3>2. i + 1 \in DOMAIN work'
      BY <1>1, <2>1, <3>1
    <3>3. work'[i + 1] = work[(i + 1) + 1]
      BY <1>1, <3>2
    <3> QED BY <2>1, <2>5, <3>1, <3>2, <3>3
  <2> QED BY <2>2, <2>3, <2>4, <2>5
<1>3. ASSUME NEW i \in DOMAIN work', NEW j \in DOMAIN work', work'[i].of = work'[j].of
      PROVE  /\ work'[i].op = "close" /\ work'[j].op = "close" => i = j
             /\ work'[i].op \in How /\ work'[j].op \in How => i = j
             /\ work'[i].op \in How /\ work'[j].op = "close" => j < i
             /\ work'[i].op \in RequestOps /\ work'[j].op \in RequestOps => i = j
  <2>1. /\ i \in Nat /\ i + 1 \in DOMAIN work /\ work'[i] = work[i + 1]
        /\ j \in Nat /\ j + 1 \in DOMAIN work /\ work'[j] = work[j + 1]
    BY <1>1
  <2>2. /\ work'[i].op = "close" /\ work'[j].op = "close" => i + 1 = j + 1
        /\ work'[i].op \in How /\ work'[j].op \in How => i + 1 = j + 1
        /\ work'[i].op \in How /\ work'[j].op = "close" => j + 1 < i + 1
        /\ work'[i].op \in RequestOps /\ work'[j].op \in RequestOps => i + 1 = j + 1
    BY <1>3, <2>1 DEF Stacked
  <2> QED BY <2>1, <2>2
<1> QED BY <1>2, <1>3 DEF Stacked

\* A call is replaced by x.
LEMMA StackedReplace ==
  ASSUME work \in Seq(CallSet), work # <<>>, Stacked, NEW x \in CallSet, Then(<<x>>),
         UNCHANGED <<fini, run>>,
         x.op \in {"cleanup", "close", "abort"},
         x.op = "cleanup" => ~fini /\ run = "RUN",
         x.op = "close" => \A i \in DOMAIN work : i # 1 => work[i].op # "close",
         x.op = "abort" => work[1].op \in How /\ work[1].of = x.of
  PROVE  Stacked'
<1>1. /\ Len(work) \in Nat /\ Len(work) >= 1 /\ DOMAIN work = 1..Len(work)
      /\ DOMAIN work' = DOMAIN work /\ Len(work') = Len(work) /\ 1 \in DOMAIN work /\ work'[1] = x
      /\ \A i \in DOMAIN work : i # 1 => work'[i] = work[i]
  BY ThenOne
<1>2. ASSUME NEW i \in DOMAIN work'
      PROVE  /\ work'[i].op \in Alone => Len(work') = 1
             /\ work'[i].op = "submit" => i = 1
             /\ work'[i].op \in {"cleanup", "place"} => ~fini' /\ run' = "RUN"
             /\ work'[i].op = "close" => i = 1 \/ fini'
             /\ work'[i].op = "disperse" => /\ i + 1 \in DOMAIN work'
                                            /\ work'[i + 1].op \in How
                                            /\ work'[i + 1].of = work'[i].of
  <2>1. CASE i = 1
    BY <1>1, <2>1 DEF Alone
  <2>2. CASE i # 1
    <3>1. work'[i] = work[i] /\ i \in DOMAIN work
      BY <1>1, <2>2
    <3>2. i + 1 \in DOMAIN work => work'[i + 1] = work[i + 1]
      BY <1>1, <2>2
    <3> QED BY <1>1, <3>1, <3>2 DEF Stacked
  <2> QED BY <2>1, <2>2
<1>3. ASSUME NEW i \in DOMAIN work', NEW j \in DOMAIN work', work'[i].of = work'[j].of
      PROVE  /\ work'[i].op = "close" /\ work'[j].op = "close" => i = j
             /\ work'[i].op \in How /\ work'[j].op \in How => i = j
             /\ work'[i].op \in How /\ work'[j].op = "close" => j < i
             /\ work'[i].op \in RequestOps /\ work'[j].op \in RequestOps => i = j
  <2>1. CASE i # 1 /\ j # 1
    BY <1>1, <1>3, <2>1 DEF Stacked
  <2>2. CASE i = 1 /\ j = 1
    BY <1>1, <2>2 DEF How
  <2>3. CASE i = 1 /\ j # 1
    BY <1>1, <1>3, <2>3 DEF Stacked, How, RequestOps
  <2>4. CASE i # 1 /\ j = 1
    BY <1>1, <1>3, <2>4 DEF Stacked, How, RequestOps
  <2> QED BY <2>1, <2>2, <2>3, <2>4
<1> QED BY <1>2, <1>3 DEF Stacked

\* A link is closed: dispersed, then told.
LEMMA StackedClose ==
  ASSUME work \in Seq(CallSet), work # <<>>, Stacked, NEW l \in Link, NEW how \in How,
         Then(<<Call("disperse", l), Call(how, l)>>), UNCHANGED <<fini, run>>,
         \A i \in DOMAIN work : i # 1 /\ work[i].of = l => work[i].op \notin How \cup {"close"}
  PROVE  Stacked'
<1> DEFINE x == Call("disperse", l)
           y == Call(how, l)
<1>1. /\ x \in CallSet /\ x.op = "disperse" /\ x.of = l
      /\ y \in CallSet /\ y.op \in How /\ y.of = l
  BY CallTypes DEF How, LinkOps
<1> HIDE DEF x, y
<1>2. /\ Len(work) \in Nat /\ Len(work) >= 1 /\ DOMAIN work = 1..Len(work)
      /\ Len(work') = Len(work) + 1 /\ DOMAIN work' = 1..(Len(work) + 1)
      /\ 1 \in DOMAIN work' /\ work'[1] = x
      /\ 2 \in DOMAIN work' /\ work'[2] = y
      /\ \A i \in DOMAIN work' : i = 1 \/ i = 2 \/
           (i - 1 \in DOMAIN work /\ i - 1 # 1 /\ work'[i] = work[i - 1])
      /\ \A j \in DOMAIN work : j # 1 => j + 1 \in DOMAIN work' /\ work'[j + 1] = work[j]
  BY <1>1, ThenTwo DEF x, y
<1>3. ASSUME NEW i \in DOMAIN work'
      PROVE  /\ work'[i].op \in Alone => Len(work') = 1
             /\ work'[i].op = "submit" => i = 1
             /\ work'[i].op \in {"cleanup", "place"} => ~fini' /\ run' = "RUN"
             /\ work'[i].op = "close" => i = 1 \/ fini'
             /\ work'[i].op = "disperse" => /\ i + 1 \in DOMAIN work'
                                            /\ work'[i + 1].op \in How
                                            /\ work'[i + 1].of = work'[i].of
  <2>1. CASE i = 1
    BY <1>1, <1>2, <2>1 DEF Alone
  <2>2. CASE i = 2
    BY <1>1, <1>2, <2>2 DEF Alone, How
  <2>3. CASE i # 1 /\ i # 2
    <3>1. /\ i - 1 \in DOMAIN work /\ i - 1 # 1 /\ work'[i] = work[i - 1]
          /\ (i - 1) + 1 = i /\ i \in Nat
      BY <1>2, <2>3
    <3>2. work'[i].op \notin Alone /\ work'[i].op # "submit"
      BY <1>2, <3>1 DEF Stacked
    <3>3. /\ work'[i].op \in {"cleanup", "place"} => ~fini' /\ run' = "RUN"
          /\ work'[i].op = "close" => fini'
      BY <3>1 DEF Stacked
    <3>4. ASSUME work'[i].op = "disperse"
          PROVE  i + 1 \in DOMAIN work' /\ work'[i + 1].op \in How /\ work'[i + 1].of = work'[i].of
      <4>1. i \in DOMAIN work /\ work[i].op \in How /\ work[i].of = work'[i].of
        BY <3>1, <3>4 DEF Stacked
      <4>2. i + 1 \in DOMAIN work' /\ work'[i + 1] = work[i]
        BY <1>2, <2>3, <4>1
      <4> QED BY <4>1, <4>2
    <3> QED BY <3>2, <3>3, <3>4
  <2> QED BY <2>1, <2>2, <2>3
<1>4. ASSUME NEW i \in DOMAIN work', NEW j \in DOMAIN work', work'[i].of = work'[j].of
      PROVE  /\ work'[i].op = "close" /\ work'[j].op = "close" => i = j
             /\ work'[i].op \in How /\ work'[j].op \in How => i = j
             /\ work'[i].op \in How /\ work'[j].op = "close" => j < i
             /\ work'[i].op \in RequestOps /\ work'[j].op \in RequestOps => i = j
  <2>1. ASSUME NEW k \in DOMAIN work', k # 1, k # 2, work'[k].of = l
        PROVE  work'[k].op \notin How \cup {"close"}
    BY <1>2, <2>1
  <2>2. CASE i = 1 \/ j = 1
    BY <1>1, <1>2, <2>2 DEF How, RequestOps
  <2>3. CASE i = 2 \/ j = 2
    BY <1>1, <1>2, <1>4, <2>1, <2>3 DEF How, RequestOps
  <2>4. CASE i # 1 /\ i # 2 /\ j # 1 /\ j # 2
    <3>1. /\ i - 1 \in DOMAIN work /\ work'[i] = work[i - 1] /\ i \in Nat
          /\ j - 1 \in DOMAIN work /\ work'[j] = work[j - 1] /\ j \in Nat
      BY <1>2, <2>4
    <3>2. /\ work'[i].op = "close" /\ work'[j].op = "close" => i - 1 = j - 1
          /\ work'[i].op \in How /\ work'[j].op \in How => i - 1 = j - 1
          /\ work'[i].op \in How /\ work'[j].op = "close" => j - 1 < i - 1
          /\ work'[i].op \in RequestOps /\ work'[j].op \in RequestOps => i - 1 = j - 1
      BY <1>4, <3>1 DEF Stacked
    <3> QED BY <3>1, <3>2
  <2> QED BY <2>2, <2>3, <2>4
<1> QED BY <1>3, <1>4 DEF Stacked

\* A request of a link that closes is submitted again.
LEMMA StackedDisperse ==
  ASSUME work \in Seq(CallSet), work # <<>>, Stacked, NEW l \in Link, NEW r \in Request,
         work[1] = Call("disperse", l),
         Then(<<Call("submit", r), Call("disperse", l)>>), UNCHANGED <<fini, run>>,
         \A i \in DOMAIN work : work[i].op \in RequestOps => work[i].of # r
  PROVE  Stacked'
<1> DEFINE x == Call("submit", r)
           y == Call("disperse", l)
<1>1. /\ x \in CallSet /\ x.op = "submit" /\ x.of = r
      /\ y \in CallSet /\ y.op = "disperse" /\ y.of = l
      /\ work[1] = y
  BY CallTypes DEF RequestOps, LinkOps
<1> HIDE DEF x, y
<1>2. /\ Len(work) \in Nat /\ Len(work) >= 1 /\ DOMAIN work = 1..Len(work)
      /\ Len(work') = Len(work) + 1 /\ DOMAIN work' = 1..(Len(work) + 1)
      /\ 1 \in DOMAIN work' /\ work'[1] = x
      /\ 2 \in DOMAIN work' /\ work'[2] = y
      /\ \A i \in DOMAIN work' : i = 1 \/ i = 2 \/
           (i - 1 \in DOMAIN work /\ i - 1 # 1 /\ work'[i] = work[i - 1])
      /\ \A j \in DOMAIN work : j # 1 => j + 1 \in DOMAIN work' /\ work'[j + 1] = work[j]
  BY <1>1, ThenTwo DEF x, y
<1>3. ASSUME NEW i \in DOMAIN work'
      PROVE  /\ work'[i].op \in Alone => Len(work') = 1
             /\ work'[i].op = "submit" => i = 1
             /\ work'[i].op \in {"cleanup", "place"} => ~fini' /\ run' = "RUN"
             /\ work'[i].op = "close" => i = 1 \/ fini'
             /\ work'[i].op = "disperse" => /\ i + 1 \in DOMAIN work'
                                            /\ work'[i + 1].op \in How
                                            /\ work'[i + 1].of = work'[i].of
  <2>1. CASE i = 1
    BY <1>1, <1>2, <2>1 DEF Alone
  <2>2. CASE i = 2
    <3>1. 1 \in DOMAIN work /\ 2 \in DOMAIN work /\ work[2].op \in How /\ work[2].of = l
      BY <1>1, <1>2 DEF Stacked
    <3>2. 3 \in DOMAIN work' /\ work'[3] = work[2]
      BY <1>2, <3>1
    <3> QED BY <1>1, <1>2, <2>2, <3>1, <3>2 DEF Alone
  <2>3. CASE i # 1 /\ i # 2
    <3>1. /\ i - 1 \in DOMAIN work /\ i - 1 # 1 /\ work'[i] = work[i - 1]
          /\ (i - 1) + 1 = i /\ i \in Nat
      BY <1>2, <2>3
    <3>2. work'[i].op \notin Alone /\ work'[i].op # "submit"
      BY <1>2, <3>1 DEF Stacked
    <3>3. /\ work'[i].op \in {"cleanup", "place"} => ~fini' /\ run' = "RUN"
          /\ work'[i].op = "close" => fini'
      BY <3>1 DEF Stacked
    <3>4. ASSUME work'[i].op = "disperse"
          PROVE  i + 1 \in DOMAIN work' /\ work'[i + 1].op \in How /\ work'[i + 1].of = work'[i].of
      <4>1. i \in DOMAIN work /\ work[i].op \in How /\ work[i].of = work'[i].of
        BY <3>1, <3>4 DEF Stacked
      <4>2. i + 1 \in DOMAIN work' /\ work'[i + 1] = work[i]
        BY <1>2, <2>3, <4>1
      <4> QED BY <4>1, <4>2
    <3> QED BY <3>2, <3>3, <3>4
  <2> QED BY <2>1, <2>2, <2>3
<1>4. ASSUME NEW i \in DOMAIN work', NEW j \in DOMAIN work', work'[i].of = work'[j].of
      PROVE  /\ work'[i].op = "close" /\ work'[j].op = "close" => i = j
             /\ work'[i].op \in How /\ work'[j].op \in How => i = j
             /\ work'[i].op \in How /\ work'[j].op = "close" => j < i
             /\ work'[i].op \in RequestOps /\ work'[j].op \in RequestOps => i = j
  <2>1. ASSUME NEW k \in DOMAIN work', k # 1, work'[k].op \in RequestOps
        PROVE  work'[k].of # r
    BY <1>1, <1>2, <2>1 DEF RequestOps
  <2>2. CASE i = 1 \/ j = 1
    BY <1>1, <1>2, <1>4, <2>1, <2>2 DEF How
  <2>3. CASE i = 2 \/ j = 2
    BY <1>1, <1>2, <2>3 DEF How, RequestOps
  <2>4. CASE i # 1 /\ i # 2 /\ j # 1 /\ j # 2
    <3>1. /\ i - 1 \in DOMAIN work /\ work'[i] = work[i - 1] /\ i \in Nat
          /\ j - 1 \in DOMAIN work /\ work'[j] = work[j - 1] /\ j \in Nat
      BY <1>2, <2>4
    <3>2. /\ work'[i].op = "close" /\ work'[j].op = "close" => i - 1 = j - 1
          /\ work'[i].op \in How /\ work'[j].op \in How => i - 1 = j - 1
          /\ work'[i].op \in How /\ work'[j].op = "close" => j - 1 < i - 1
          /\ work'[i].op \in RequestOps /\ work'[j].op \in RequestOps => i - 1 = j - 1
      BY <1>4, <3>1 DEF Stacked
    <3> QED BY <3>1, <3>2
  <2> QED BY <2>2, <2>3, <2>4
<1> QED BY <1>3, <1>4 DEF Stacked

\* A request is submitted: the links are cleaned up, then it is placed.
LEMMA StackedSubmit ==
  ASSUME work \in Seq(CallSet), work # <<>>, Stacked, NEW r \in Request,
         work[1] = Call("submit", r), links \in Seq(Link),
         Then([i \in DOMAIN links |-> Call("cleanup", links[i])] \o <<Call("place", r)>>),
         UNCHANGED <<fini, run>>, ~fini, run = "RUN"
  PROVE  /\ Stacked' /\ work' \in Seq(CallSet)
         /\ \A x \in ToSet(work') : \/ x.op = "cleanup" \/ x = Call("place", r)
                                    \/ x \in Rest
         /\ Rest \subseteq ToSet(work') /\ Call("place", r) \in ToSet(work')
<1> DEFINE a == [i \in DOMAIN links |-> Call("cleanup", links[i])]
           y == Call("place", r)
           b == <<y>>
           c == a \o b
           n == Len(c)
<1>1. /\ y \in CallSet /\ y.op = "place" /\ y.of = r
      /\ work[1].op = "submit" /\ work[1].of = r
      /\ \A i \in DOMAIN links : Call("cleanup", links[i]) \in CallSet
                                 /\ Call("cleanup", links[i]).op = "cleanup"
  <2>1. \A i \in DOMAIN links : links[i] \in Link
    OBVIOUS
  <2> QED BY <2>1, CallTypes DEF RequestOps, LinkOps
<1>2. /\ Len(links) \in Nat /\ DOMAIN links = 1..Len(links)
      /\ a \in Seq(CallSet) /\ Len(a) = Len(links)
      /\ \A i \in 1..Len(a) : a[i].op = "cleanup"
  <2>1. Len(links) \in Nat /\ DOMAIN links = 1..Len(links)
    BY LenProperties
  <2>2. a \in [1..Len(links) -> CallSet]
    BY <1>1, <2>1
  <2>3. a \in Seq(CallSet) /\ Len(a) = Len(links)
    BY <2>1, <2>2
  <2> QED BY <1>1, <2>1, <2>3
<1>3. b \in Seq(CallSet) /\ Len(b) = 1 /\ b[1] = y
  BY <1>1
<1> HIDE DEF a, b, y
<1>4. /\ c \in Seq(CallSet) /\ n \in Nat /\ n >= 1 /\ c[n] = y
      /\ \A i \in 1..n : c[i].op = "cleanup" \/ c[i] = y
      /\ \A i \in 1..n : i # n => c[i].op = "cleanup"
  <2>0. /\ a \o b \in Seq(CallSet) /\ Len(a \o b) = Len(a) + Len(b)
        /\ \A i \in 1..(Len(a) + Len(b)) :
             (a \o b)[i] = IF i <= Len(a) THEN a[i] ELSE b[i - Len(a)]
    BY <1>2, <1>3, ConcatProperties
  <2>1. /\ c \in Seq(CallSet) /\ n = Len(a) + 1
        /\ \A i \in 1..(Len(a) + 1) : c[i] = IF i <= Len(a) THEN a[i] ELSE b[i - Len(a)]
    BY <1>3, <2>0
  <2>2. Len(a) \in Nat
    BY <1>2
  <2>3. c[n] = y
    <3>1. n \in 1..(Len(a) + 1) /\ ~(n <= Len(a)) /\ n - Len(a) = 1
      BY <2>1, <2>2
    <3> QED BY <1>3, <2>1, <3>1
  <2>4. ASSUME NEW i \in 1..n, i # n PROVE c[i].op = "cleanup"
    <3>1. i \in 1..Len(a) /\ i <= Len(a) /\ i \in 1..(Len(a) + 1)
      BY <2>1, <2>2, <2>4
    <3> QED BY <1>2, <2>1, <3>1
  <2> QED BY <2>1, <2>2, <2>3, <2>4
<1> HIDE DEF c
<1>5. Then(c)
  BY DEF c, a, b, y
<1>6. /\ work' \in Seq(CallSet)
      /\ Len(work) \in Nat /\ Len(work) >= 1 /\ DOMAIN work = 1..Len(work)
      /\ Len(work') = n + Len(work) - 1 /\ DOMAIN work' = 1..(n + Len(work) - 1)
      /\ \A i \in 1..n : work'[i] = c[i]
      /\ \A j \in 2..Len(work) : work'[j + n - 1] = work[j]
  BY <1>4, <1>5, ThenProperties
<1>7. ASSUME NEW i \in DOMAIN work', i > n
      PROVE  /\ i - n + 1 \in DOMAIN work /\ i - n + 1 # 1 /\ work'[i] = work[i - n + 1]
             /\ i \in Nat
  <2>1. i - n + 1 \in 2..Len(work) /\ (i - n + 1) + n - 1 = i
    BY <1>4, <1>6, <1>7
  <2>2. work'[(i - n + 1) + n - 1] = work[i - n + 1]
    BY <2>1, <1>6
  <2>3. i - n + 1 \in DOMAIN work /\ i - n + 1 # 1 /\ i \in Nat
    BY <2>1, <1>4, <1>6
  <2> QED BY <2>1, <2>2, <2>3
<1>8. ASSUME NEW i \in DOMAIN work', ~ (i > n)
      PROVE  i \in 1..n /\ work'[i] = c[i]
  BY <1>4, <1>6, <1>8
<1>9. ASSUME NEW j \in DOMAIN work, j # 1
      PROVE  j + n - 1 \in DOMAIN work' /\ j + n - 1 > n /\ work'[j + n - 1] = work[j]
  <2>1. j \in 2..Len(work) /\ j + n - 1 \in DOMAIN work' /\ j + n - 1 > n
    BY <1>4, <1>6, <1>9
  <2> QED BY <1>6, <2>1
<1>10. ASSUME NEW i \in DOMAIN work'
      PROVE  /\ work'[i].op \in Alone => Len(work') = 1
             /\ work'[i].op = "submit" => i = 1
             /\ work'[i].op \in {"cleanup", "place"} => ~fini' /\ run' = "RUN"
             /\ work'[i].op # "close"
             /\ work'[i].op = "disperse" => /\ i + 1 \in DOMAIN work'
                                            /\ work'[i + 1].op \in How
                                            /\ work'[i + 1].of = work'[i].of
  <2>1. CASE ~ (i > n)
    <3>1. work'[i].op \in {"cleanup", "place"}
      BY <1>1, <1>4, <1>8, <2>1
    <3> QED BY <3>1 DEF Alone
  <2>2. CASE i > n
    <3>1. /\ i - n + 1 \in DOMAIN work /\ i - n + 1 # 1 /\ work'[i] = work[i - n + 1]
      BY <1>7, <2>2
    <3>2. work'[i].op \notin Alone /\ work'[i].op # "submit" /\ work'[i].op # "close"
      BY <1>6, <3>1 DEF Stacked
    <3>3. ASSUME work'[i].op = "disperse"
          PROVE  i + 1 \in DOMAIN work' /\ work'[i + 1].op \in How /\ work'[i + 1].of = work'[i].of
      <4>1. /\ (i - n + 1) + 1 \in DOMAIN work /\ work[(i - n + 1) + 1].op \in How
            /\ work[(i - n + 1) + 1].of = work'[i].of
        BY <3>1, <3>3 DEF Stacked
      <4>2. (i - n + 1) + 1 # 1 /\ ((i - n + 1) + 1) + n - 1 = i + 1
        <5>1. i \in Nat /\ n \in Nat /\ i > n
          BY <1>4, <1>7, <2>2
        <5> HIDE DEF n
        <5> QED BY ONLY <5>1
      <4>3. i + 1 \in DOMAIN work' /\ work'[i + 1] = work[(i - n + 1) + 1]
        BY <1>9, <4>1, <4>2
      <4> QED BY <4>1, <4>3
    <3> QED BY <3>2, <3>3
  <2> QED BY <2>1, <2>2
<1>11. ASSUME NEW i \in DOMAIN work', NEW j \in DOMAIN work', work'[i].of = work'[j].of
      PROVE  /\ work'[i].op \in How /\ work'[j].op \in How => i = j
             /\ work'[i].op \in RequestOps /\ work'[j].op \in RequestOps => i = j
  <2>1. ASSUME NEW k \in DOMAIN work', ~ (k > n)
        PROVE  /\ work'[k].op \notin How
               /\ work'[k].op \in RequestOps => k = n /\ work'[k].of = r
    BY <1>1, <1>4, <1>8, <2>1 DEF How, RequestOps
  <2>2. ASSUME NEW k \in DOMAIN work', k > n, work'[k].op \in RequestOps
        PROVE  work'[k].of # r
    <3>1. k - n + 1 \in DOMAIN work /\ k - n + 1 # 1 /\ work'[k] = work[k - n + 1]
      BY <1>7, <2>2
    <3>2. 1 \in DOMAIN work /\ work[1].op \in RequestOps
      BY <1>1, <1>6 DEF RequestOps
    <3> QED BY <1>1, <2>2, <3>1, <3>2 DEF Stacked
  <2>3. CASE i > n /\ j > n
    <3>1. /\ i - n + 1 \in DOMAIN work /\ work'[i] = work[i - n + 1] /\ i \in Nat
          /\ j - n + 1 \in DOMAIN work /\ work'[j] = work[j - n + 1] /\ j \in Nat
      BY <1>7, <2>3
    <3>2. /\ work'[i].op \in How /\ work'[j].op \in How => i - n + 1 = j - n + 1
          /\ work'[i].op \in RequestOps /\ work'[j].op \in RequestOps => i - n + 1 = j - n + 1
      BY <1>11, <3>1 DEF Stacked
    <3>3. i - n + 1 = j - n + 1 => i = j
      BY <3>1, <1>4
    <3> QED BY <3>2, <3>3
  <2>4. CASE ~ (i > n) \/ ~ (j > n)
    BY <1>11, <2>1, <2>2, <2>4
  <2> QED BY <2>3, <2>4
<1>12. Stacked'
  BY <1>10, <1>11 DEF Stacked
<1>13. n \in DOMAIN work' /\ work'[n] = y
  <2>1. n \in 1..n /\ n \in 1..(n + Len(work) - 1)
    BY <1>4, <1>6
  <2> QED BY <1>4, <1>6, <2>1
<1>14. ASSUME NEW i \in DOMAIN work'
       PROVE  \/ work'[i].op = "cleanup" \/ work'[i] = y
              \/ \E j \in DOMAIN work : j # 1 /\ work'[i] = work[j]
  BY <1>4, <1>7, <1>8
<1>15. Rest = {work[j] : j \in DOMAIN work \ {1}}
  BY RestIs
<1>16. ASSUME NEW x \in ToSet(work')
       PROVE  x.op = "cleanup" \/ x = y \/ x \in Rest
  <2>1. PICK i \in DOMAIN work' : x = work'[i]
    BY DEF ToSet
  <2> QED BY <1>14, <1>15, <2>1
<1>17. ASSUME NEW x \in Rest PROVE x \in ToSet(work')
  <2>1. PICK j \in DOMAIN work : j # 1 /\ x = work[j]
    BY <1>15
  <2> QED BY <1>9, <2>1 DEF ToSet
<1>18. y \in ToSet(work')
  BY <1>13 DEF ToSet
<1> QED BY <1>6, <1>12, <1>16, <1>17, <1>18 DEF y

\* A peer is closed: all of its links are.
LEMMA StackedPeer ==
  ASSUME links \in Seq(Link), Distinct(links), fini',
         work' = [i \in DOMAIN links |-> Call("close", links[i])]
                   \o <<Call("finished", "peer")>>
  PROVE  /\ Stacked' /\ work' \in Seq(CallSet)
         /\ \A x \in ToSet(work') : \/ x.op = "finished"
                                    \/ x.op = "close" /\ x.of \in Linked
<1> DEFINE a == [i \in DOMAIN links |-> Call("close", links[i])]
           y == Call("finished", "peer")
           b == <<y>>
           m == Len(links)
<1>0. m \in Nat /\ DOMAIN links = 1..m
  BY LenProperties
<1>1. /\ y \in CallSet /\ y.op = "finished" /\ y.of = "peer"
      /\ \A i \in DOMAIN links : /\ Call("close", links[i]) \in CallSet
                                 /\ Call("close", links[i]).op = "close"
                                 /\ Call("close", links[i]).of = links[i]
  <2>1. \A i \in DOMAIN links : links[i] \in Link
    OBVIOUS
  <2> QED BY <2>1, CallTypes DEF RequestOps, LinkOps
<1>2. /\ a \in Seq(CallSet) /\ Len(a) = m
      /\ \A i \in 1..m : a[i].op = "close" /\ a[i].of = links[i]
  <2>1. a \in [1..m -> CallSet]
    BY <1>0, <1>1
  <2>2. a \in Seq(CallSet) /\ Len(a) = m
    BY <1>0, <2>1
  <2> QED BY <1>0, <1>1, <2>2
<1>3. b \in Seq(CallSet) /\ Len(b) = 1 /\ b[1] = y
  BY <1>1
<1>4. work' = a \o b
  OBVIOUS
<1> HIDE DEF a, b, y, m
<1>5. /\ work' \in Seq(CallSet) /\ Len(work') = m + 1 /\ DOMAIN work' = 1..(m + 1)
      /\ \A i \in 1..(m + 1) : work'[i] = IF i <= m THEN a[i] ELSE b[i - m]
  <2>0. /\ a \o b \in Seq(CallSet) /\ Len(a \o b) = Len(a) + Len(b)
        /\ \A i \in 1..(Len(a) + Len(b)) :
             (a \o b)[i] = IF i <= Len(a) THEN a[i] ELSE b[i - Len(a)]
    BY <1>2, <1>3, ConcatProperties
  <2>1. /\ a \o b \in Seq(CallSet) /\ Len(a \o b) = m + 1
        /\ \A i \in 1..(m + 1) : (a \o b)[i] = IF i <= m THEN a[i] ELSE b[i - m]
    BY <1>2, <1>3, <2>0
  <2> QED BY <1>4, <2>1, LenProperties
<1>6. ASSUME NEW i \in DOMAIN work'
      PROVE  \/ i \in 1..m /\ work'[i].op = "close" /\ work'[i].of = links[i]
             \/ work'[i].op = "finished"
  <2>1. CASE i <= m
    <3>1. i \in 1..m /\ work'[i] = a[i]
      BY <1>0, <1>5, <2>1
    <3> QED BY <1>2, <3>1
  <2>2. CASE ~(i <= m)
    <3>1. i = m + 1 /\ i - m = 1 /\ work'[i] = b[i - m]
      BY <1>0, <1>5, <2>2
    <3> QED BY <1>1, <1>3, <3>1
  <2> QED BY <2>1, <2>2
<1>7. Stacked'
  <2>1. \A i \in DOMAIN work' : work'[i].op \in {"close", "finished"}
    BY <1>6
  <2>2. ASSUME NEW i \in DOMAIN work', NEW j \in DOMAIN work', work'[i].of = work'[j].of,
               work'[i].op = "close", work'[j].op = "close"
        PROVE  i = j
    <3>1. i \in DOMAIN links /\ j \in DOMAIN links /\ links[i] = links[j]
      BY <1>0, <1>6, <2>2
    <3> QED BY <3>1 DEF Distinct
  <2> QED BY <2>1, <2>2 DEF Stacked, Alone, How, RequestOps
<1> QED BY <1>0, <1>5, <1>6, <1>7 DEF ToSet, Linked, m

-----------------------------------------------------------------------------
(* The pipes, over each change of a queue.                                 *)

LEMMA UnlinkIndices ==
  ASSUME NEW S, NEW tags \in Seq(S), NEW c \in ToSet(tags)
  PROVE  \E k \in 1..Len(tags) :
           /\ tags[k] = c
           /\ Unlink(tags, c) \in Seq(S) /\ Len(Unlink(tags, c)) = Len(tags) - 1
           /\ \A i \in 1..(Len(tags) - 1) : Unlink(tags, c)[i] = IF i < k THEN tags[i] ELSE tags[i + 1]
<1> DEFINE k == CHOOSE n \in DOMAIN tags : tags[n] = c
<1>1. k \in 1..Len(tags) /\ tags[k] = c
  BY LenProperties DEF ToSet
<1>2. Unlink(tags, c) = RemoveAt(tags, k)
  BY DEF Unlink
<1> HIDE DEF k
<1> QED BY <1>1, <1>2, RemoveAtIndices

\* What is committed.
Revealed == {r \in Request : Committed(r)}

\* The answers in a link's box and those its remote has still to give are, in
\* order, for the first n tags of its queue.
Answers(box, w, tags, n) ==
  /\ Len(box) + Len(w) = n
  /\ \A i \in DOMAIN box : box[i][1] = tags[i]
  /\ \A i \in DOMAIN w : w[i] = tags[Len(box) + i]

\* Ordered and Matched, of one link.
Piped(tags, box, w, C, live) ==
  \E n \in 0..Len(tags) : /\ n <= CommitMax
                          /\ \A i \in DOMAIN tags : tags[i] \in C <=> i <= n
                          /\ live => Answers(box, w, tags, n)

Live(l) == l \notin opFini /\ run \in {"RUN", "QUIT"}
PipedAt(l) == Piped(queue[l], inbox[l], wire[l], Revealed, Live(l))

Status == {"ok", "unavailable"}

\* How many tags of a list are in C, if those are the first n.
LEMMA PipedCount ==
  ASSUME NEW l \in Link, queue[l] \in Seq(Request), NEW n \in 0..Len(queue[l]),
         \A i \in DOMAIN queue[l] : queue[l][i] \in Revealed <=> i <= n
  PROVE  TagCommitted(l) = n
<1>1. Cardinality({i \in DOMAIN queue[l] : queue[l][i] \in Revealed}) = n
  BY CommittedFirst
<1>2. \A i \in DOMAIN queue[l] : queue[l][i] \in Revealed <=> Committed(queue[l][i])
  BY DEF Revealed
<1>3. {i \in DOMAIN queue[l] : queue[l][i] \in Revealed} = {i \in DOMAIN queue[l] : Committed(queue[l][i])}
  BY <1>2
<1> QED BY <1>1, <1>3 DEF TagCommitted

LEMMA PipedIs ==
  ASSUME queue \in [Link -> Seq(Request)]
  PROVE  Ordered /\ Matched <=> \A l \in Link : PipedAt(l)
<1>0. ASSUME NEW l \in Link
      PROVE  /\ queue[l] \in Seq(Request)
             /\ Len(queue[l]) \in Nat /\ DOMAIN queue[l] = 1..Len(queue[l])
             /\ \A i \in DOMAIN queue[l] : queue[l][i] \in Revealed <=> Committed(queue[l][i])
  BY LenProperties DEF Revealed
<1>1. ASSUME Ordered, Matched, NEW l \in Link PROVE PipedAt(l)
  <2>1. /\ TagCommitted(l) \in 0..Len(queue[l]) /\ TagCommitted(l) <= CommitMax
        /\ \A i \in DOMAIN queue[l] : queue[l][i] \in Revealed <=> i <= TagCommitted(l)
    BY <1>0, <1>1 DEF Ordered
  <2>2. Live(l) => Answers(inbox[l], wire[l], queue[l], TagCommitted(l))
    BY <1>1 DEF Matched, Live, Answers
  <2> QED BY <2>1, <2>2 DEF PipedAt, Piped
<1>2. ASSUME \A l \in Link : PipedAt(l) PROVE Ordered /\ Matched
  <2>1. ASSUME NEW l \in Link
        PROVE  /\ TagCommitted(l) \in 0..Len(queue[l]) /\ TagCommitted(l) <= CommitMax
               /\ \A i \in DOMAIN queue[l] : queue[l][i] \in Revealed <=> i <= TagCommitted(l)
               /\ Live(l) => Answers(inbox[l], wire[l], queue[l], TagCommitted(l))
    <3>1. PICK n \in 0..Len(queue[l]) :
            /\ n <= CommitMax
            /\ \A i \in DOMAIN queue[l] : queue[l][i] \in Revealed <=> i <= n
            /\ Live(l) => Answers(inbox[l], wire[l], queue[l], n)
      BY <1>2 DEF PipedAt, Piped
    <3>2. TagCommitted(l) = n
      BY <1>0, <3>1, PipedCount
    <3> QED BY <3>1, <3>2
  <2>2. Ordered
    BY <1>0, <2>1 DEF Ordered
  <2>3. Matched
    BY <2>1 DEF Matched, Live, Answers
  <2> QED BY <2>2, <2>3
<1> QED BY <1>1, <1>2

\* The answers are of the first n tags only.
LEMMA AnswersOfFirst ==
  ASSUME NEW tags \in Seq(Request), NEW u \in Seq(Request),
         NEW box \in Seq(Request \X Status), NEW w \in Seq(Request), NEW n \in Nat,
         Answers(box, w, tags, n), \A i \in 1..n : u[i] = tags[i]
  PROVE  Answers(box, w, u, n)
<1>1. /\ Len(box) \in Nat /\ DOMAIN box = 1..Len(box)
      /\ Len(w) \in Nat /\ DOMAIN w = 1..Len(w)
      /\ Len(box) + Len(w) = n
  BY LenProperties DEF Answers
<1>2. ASSUME NEW i \in DOMAIN box PROVE box[i][1] = u[i]
  <2>1. i \in 1..n
    BY <1>1
  <2> QED BY <2>1 DEF Answers
<1>3. ASSUME NEW i \in DOMAIN w PROVE w[i] = u[Len(box) + i]
  <2>1. Len(box) + i \in 1..n
    BY <1>1
  <2> QED BY <2>1 DEF Answers
<1> QED BY <1>1, <1>2, <1>3 DEF Answers

\* Other tags are committed; or the link is closed.
LEMMA PipedSame ==
  ASSUME NEW tags \in Seq(Request), NEW box, NEW w, NEW C, NEW D,
         NEW live \in BOOLEAN, NEW alive \in BOOLEAN,
         Piped(tags, box, w, C, live), alive => live,
         \A r \in ToSet(tags) : r \in C <=> r \in D
  PROVE  Piped(tags, box, w, D, alive)
<1>1. PICK n \in 0..Len(tags) : /\ n <= CommitMax
                                /\ \A i \in DOMAIN tags : tags[i] \in C <=> i <= n
                                /\ live => Answers(box, w, tags, n)
  BY DEF Piped
<1>2. \A i \in DOMAIN tags : tags[i] \in D <=> i <= n
  BY <1>1 DEF ToSet
<1> QED BY <1>1, <1>2 DEF Piped

LEMMA PipedEmpty ==
  ASSUME NEW C, NEW box, NEW w, NEW live \in BOOLEAN, live => box = <<>> /\ w = <<>>
  PROVE  Piped(<<>>, box, w, C, live)
<1>1. Len(<<>>) = 0 /\ DOMAIN <<>> = {} /\ 0 \in 0..Len(<<>>) /\ 0 <= CommitMax
  BY ServerAssumption
<1>2. live => Answers(box, w, <<>>, 0)
  BY <1>1 DEF Answers
<1> QED BY <1>1, <1>2 DEF Piped

\* A tag that is not committed leaves its queue.
LEMMA PipedUnlink ==
  ASSUME NEW tags \in Seq(Request), NEW box \in Seq(Request \X Status),
         NEW w \in Seq(Request), NEW C, NEW live \in BOOLEAN,
         Piped(tags, box, w, C, live), NEW r \in ToSet(tags), r \notin C
  PROVE  Piped(Unlink(tags, r), box, w, C, live)
<1>0. Len(tags) \in Nat /\ DOMAIN tags = 1..Len(tags)
  BY LenProperties
<1>1. PICK n \in 0..Len(tags) : /\ n <= CommitMax
                                /\ \A i \in DOMAIN tags : tags[i] \in C <=> i <= n
                                /\ live => Answers(box, w, tags, n)
  BY DEF Piped
<1> DEFINE u == Unlink(tags, r)
<1>2. PICK k \in 1..Len(tags) :
        /\ tags[k] = r /\ u \in Seq(Request) /\ Len(u) = Len(tags) - 1
        /\ \A i \in 1..(Len(tags) - 1) : u[i] = IF i < k THEN tags[i] ELSE tags[i + 1]
  BY UnlinkIndices
<1> HIDE DEF u
<1>3. DOMAIN u = 1..(Len(tags) - 1)
  BY <1>2, LenProperties
<1>4. n < k /\ n \in 0..Len(u)
  BY <1>0, <1>1, <1>2
<1>5. ASSUME NEW i \in DOMAIN u PROVE u[i] \in C <=> i <= n
  <2>1. CASE i < k
    <3>1. i \in 1..Len(tags) /\ u[i] = tags[i]
      BY <1>0, <1>2, <1>3, <2>1
    <3> QED BY <1>0, <1>1, <3>1
  <2>2. CASE ~(i < k)
    <3>1. i + 1 \in 1..Len(tags) /\ u[i] = tags[i + 1] /\ ~(i + 1 <= n) /\ ~(i <= n)
      BY <1>0, <1>2, <1>3, <1>4, <2>2
    <3> QED BY <1>0, <1>1, <3>1
  <2> QED BY <2>1, <2>2
<1>6. ASSUME NEW i \in 1..n PROVE u[i] = tags[i]
  <2>1. i < k /\ i \in 1..(Len(tags) - 1)
    BY <1>0, <1>4
  <2> QED BY <1>2, <2>1
<1>7. ASSUME live PROVE Answers(box, w, u, n)
  <2>1. n \in Nat /\ Answers(box, w, tags, n)
    BY <1>0, <1>1, <1>7
  <2> QED BY <1>2, <1>6, <2>1, AnswersOfFirst
<1> QED BY <1>1, <1>4, <1>5, <1>7 DEF Piped, u

\* A tag that is not committed is put at the end.
LEMMA PipedAppend ==
  ASSUME NEW tags \in Seq(Request), NEW box \in Seq(Request \X Status),
         NEW w \in Seq(Request), NEW C, NEW live \in BOOLEAN,
         Piped(tags, box, w, C, live), NEW r \in Request, r \notin C
  PROVE  Piped(Append(tags, r), box, w, C, live)
<1>0. Len(tags) \in Nat /\ DOMAIN tags = 1..Len(tags)
  BY LenProperties
<1>1. PICK n \in 0..Len(tags) : /\ n <= CommitMax
                                /\ \A i \in DOMAIN tags : tags[i] \in C <=> i <= n
                                /\ live => Answers(box, w, tags, n)
  BY DEF Piped
<1> DEFINE u == Append(tags, r)
<1>2. /\ u \in Seq(Request) /\ Len(u) = Len(tags) + 1
      /\ \A i \in 1..Len(tags) : u[i] = tags[i]
      /\ u[Len(tags) + 1] = r
  BY AppendProperties
<1> HIDE DEF u
<1>3. DOMAIN u = 1..(Len(tags) + 1)
  BY <1>2, LenProperties
<1>4. n \in 0..Len(u) /\ n <= Len(tags)
  BY <1>0, <1>1, <1>2
<1>5. ASSUME NEW i \in DOMAIN u PROVE u[i] \in C <=> i <= n
  <2>1. CASE i \in 1..Len(tags)
    BY <1>0, <1>1, <1>2, <2>1
  <2>2. CASE i \notin 1..Len(tags)
    <3>1. i = Len(tags) + 1 /\ ~(i <= n)
      BY <1>0, <1>3, <1>4, <2>2
    <3> QED BY <1>2, <3>1
  <2> QED BY <2>1, <2>2
<1>6. \A i \in 1..n : u[i] = tags[i]
  BY <1>0, <1>2, <1>4
<1>7. ASSUME live PROVE Answers(box, w, u, n)
  <2>1. n \in Nat /\ Answers(box, w, tags, n)
    BY <1>0, <1>1, <1>7
  <2> QED BY <1>2, <1>6, <2>1, AnswersOfFirst
<1> QED BY <1>1, <1>4, <1>5, <1>7 DEF Piped, u

\* The first tag is done, with the first of the answers.
LEMMA PipedTail ==
  ASSUME NEW tags \in Seq(Request), NEW box \in Seq(Request \X Status),
         NEW w \in Seq(Request), NEW C, NEW live \in BOOLEAN,
         Piped(tags, box, w, C, live), box # <<>>, tags # <<>>, tags[1] \in C
  PROVE  Piped(Tail(tags), Tail(box), w, C, live)
<1>0. /\ Len(tags) \in Nat /\ DOMAIN tags = 1..Len(tags) /\ Len(tags) >= 1
      /\ Len(box) \in Nat /\ DOMAIN box = 1..Len(box) /\ Len(box) >= 1
      /\ Len(w) \in Nat /\ DOMAIN w = 1..Len(w)
  BY LenProperties, EmptySeq
<1>1. PICK n \in 0..Len(tags) : /\ n <= CommitMax
                                /\ \A i \in DOMAIN tags : tags[i] \in C <=> i <= n
                                /\ live => Answers(box, w, tags, n)
  BY DEF Piped
<1> DEFINE u == Tail(tags)
           b == Tail(box)
<1>2. /\ u \in Seq(Request) /\ Len(u) = Len(tags) - 1
      /\ \A i \in 1..(Len(tags) - 1) : u[i] = tags[i + 1]
      /\ b \in Seq(Request \X Status) /\ Len(b) = Len(box) - 1
      /\ \A i \in 1..(Len(box) - 1) : b[i] = box[i + 1]
  BY <1>0, HeadTailProperties
<1> HIDE DEF u, b
<1>3. DOMAIN u = 1..(Len(tags) - 1) /\ DOMAIN b = 1..(Len(box) - 1)
  BY <1>2, LenProperties
<1>4. n >= 1 /\ n - 1 \in 0..Len(u) /\ n - 1 <= CommitMax
  <2>1. 1 \in DOMAIN tags
    BY <1>0
  <2>2. 1 <= n
    BY <1>1, <2>1
  <2> QED BY <1>0, <1>1, <1>2, <2>2, ServerAssumption
<1>5. ASSUME NEW i \in DOMAIN u PROVE u[i] \in C <=> i <= n - 1
  <2>1. i + 1 \in 1..Len(tags) /\ u[i] = tags[i + 1] /\ (i + 1 <= n <=> i <= n - 1)
    BY <1>0, <1>1, <1>2, <1>3
  <2> QED BY <1>0, <1>1, <2>1
<1>6. ASSUME live PROVE Answers(b, w, u, n - 1)
  <2>1. /\ Len(box) + Len(w) = n
        /\ \A i \in DOMAIN box : box[i][1] = tags[i]
        /\ \A i \in DOMAIN w : w[i] = tags[Len(box) + i]
    BY <1>1, <1>6 DEF Answers
  <2>2. Len(b) + Len(w) = n - 1 /\ Len(box) + Len(w) <= Len(tags)
    BY <1>0, <1>2, <2>1
  <2>3. ASSUME NEW i \in DOMAIN b PROVE b[i][1] = u[i]
    <3>1. i + 1 \in DOMAIN box /\ b[i] = box[i + 1] /\ i \in 1..(Len(tags) - 1)
      BY <1>0, <1>2, <1>3, <2>2
    <3> QED BY <1>2, <2>1, <3>1
  <2>4. ASSUME NEW i \in DOMAIN w PROVE w[i] = u[Len(b) + i]
    <3>1. Len(b) + i \in 1..(Len(tags) - 1) /\ (Len(b) + i) + 1 = Len(box) + i
      BY <1>0, <1>2, <2>2
    <3> QED BY <1>2, <2>1, <3>1
  <2> QED BY <2>2, <2>3, <2>4 DEF Answers
<1> QED BY <1>4, <1>5, <1>6 DEF Piped, u, b

\* The first that is not committed is.
LEMMA PipedCommit ==
  ASSUME NEW tags \in Seq(Request), NEW box \in Seq(Request \X Status),
         NEW w \in Seq(Request), NEW C, NEW live \in BOOLEAN,
         Piped(tags, box, w, C, live), Distinct(tags),
         NEW k \in DOMAIN tags, tags[k] \notin C, \A j \in DOMAIN tags : tags[j] \notin C => k <= j,
         k <= CommitMax
  PROVE  Piped(tags, box, Append(w, tags[k]), C \cup {tags[k]}, live)
<1>0. /\ Len(tags) \in Nat /\ DOMAIN tags = 1..Len(tags) /\ k \in Nat
      /\ Len(box) \in Nat /\ DOMAIN box = 1..Len(box)
      /\ Len(w) \in Nat /\ DOMAIN w = 1..Len(w)
  BY LenProperties
<1>1. PICK n \in 0..Len(tags) : /\ n <= CommitMax
                                /\ \A i \in DOMAIN tags : tags[i] \in C <=> i <= n
                                /\ live => Answers(box, w, tags, n)
  BY DEF Piped
<1>2. k = n + 1
  <2>1. k > n
    BY <1>0, <1>1
  <2>2. n + 1 \in DOMAIN tags /\ ~(n + 1 <= n)
    BY <1>0, <1>1, <2>1
  <2>3. tags[n + 1] \notin C
    BY <1>1, <2>2
  <2>4. k <= n + 1
    BY <2>2, <2>3
  <2> QED BY <1>0, <1>1, <2>1, <2>4
<1> DEFINE v == Append(w, tags[k])
           D == C \cup {tags[k]}
<1>3. /\ v \in Seq(Request) /\ Len(v) = Len(w) + 1
      /\ \A i \in 1..Len(w) : v[i] = w[i]
      /\ v[Len(w) + 1] = tags[k]
  BY AppendProperties
<1> HIDE DEF v
<1>4. DOMAIN v = 1..(Len(w) + 1)
  BY <1>3, LenProperties
<1>5. ASSUME NEW i \in DOMAIN tags PROVE tags[i] \in D <=> i <= k
  <2>1. tags[i] = tags[k] <=> i = k
    BY DEF Distinct
  <2>2. tags[i] \in D <=> i <= n \/ i = k
    BY <1>1, <2>1
  <2> QED BY <1>0, <1>1, <1>2, <2>2
<1>6. ASSUME live PROVE Answers(box, v, tags, k)
  <2>1. /\ Len(box) + Len(w) = n
        /\ \A i \in DOMAIN box : box[i][1] = tags[i]
        /\ \A i \in DOMAIN w : w[i] = tags[Len(box) + i]
    BY <1>1, <1>6 DEF Answers
  <2>2. ASSUME NEW i \in DOMAIN v PROVE v[i] = tags[Len(box) + i]
    <3>1. CASE i \in 1..Len(w)
      BY <1>0, <1>3, <2>1, <3>1
    <3>2. CASE i \notin 1..Len(w)
      <4>1. i = Len(w) + 1 /\ Len(box) + i = k
        BY <1>0, <1>2, <1>4, <2>1, <3>2
      <4> QED BY <1>3, <4>1
    <3> QED BY <3>1, <3>2
  <2>3. Len(box) + Len(v) = k
    <3>1. /\ Len(box) \in Nat /\ Len(w) \in Nat /\ Len(v) = Len(w) + 1
          /\ Len(box) + Len(w) = n /\ k = n + 1
      BY <1>0, <1>2, <1>3, <2>1
    <3> QED BY <3>1
  <2>4. \A i \in DOMAIN v : v[i] = tags[Len(box) + i]
    BY <2>2
  <2> QED BY ONLY <2>1, <2>3, <2>4 DEF Answers
<1>7. k \in 0..Len(tags)
  BY <1>0
<1> QED BY <1>5, <1>6, <1>7 DEF Piped, v, D

\* The remote answers the first of what it has.
LEMMA PipedAnswer ==
  ASSUME NEW tags \in Seq(Request), NEW box \in Seq(Request \X Status),
         NEW w \in Seq(Request), NEW C, NEW live \in BOOLEAN,
         Piped(tags, box, w, C, live), w # <<>>, NEW status \in Status
  PROVE  Piped(tags, Append(box, <<Head(w), status>>), Tail(w), C, live)
<1>0. /\ Len(tags) \in Nat /\ DOMAIN tags = 1..Len(tags)
      /\ Len(box) \in Nat /\ DOMAIN box = 1..Len(box)
      /\ Len(w) \in Nat /\ DOMAIN w = 1..Len(w) /\ Len(w) >= 1
      /\ Head(w) \in Request /\ Head(w) = w[1]
  BY LenProperties, EmptySeq, HeadTailProperties
<1>1. PICK n \in 0..Len(tags) : /\ n <= CommitMax
                                /\ \A i \in DOMAIN tags : tags[i] \in C <=> i <= n
                                /\ live => Answers(box, w, tags, n)
  BY DEF Piped
<1> DEFINE x == <<Head(w), status>>
           b == Append(box, x)
           v == Tail(w)
<1>x. x \in Request \X Status /\ x[1] = w[1]
  BY <1>0
<1> HIDE DEF x
<1>2. /\ b \in Seq(Request \X Status) /\ Len(b) = Len(box) + 1
      /\ \A i \in 1..Len(box) : b[i] = box[i]
      /\ b[Len(box) + 1] = x
  BY <1>x, AppendProperties
<1>3. /\ v \in Seq(Request) /\ Len(v) = Len(w) - 1
      /\ \A i \in 1..(Len(w) - 1) : v[i] = w[i + 1]
  BY HeadTailProperties
<1> HIDE DEF b, v
<1>4. DOMAIN b = 1..(Len(box) + 1) /\ DOMAIN v = 1..(Len(w) - 1)
  BY <1>2, <1>3, LenProperties
<1>5. ASSUME live PROVE Answers(b, v, tags, n)
  <2>1. /\ Len(box) + Len(w) = n
        /\ \A i \in DOMAIN box : box[i][1] = tags[i]
        /\ \A i \in DOMAIN w : w[i] = tags[Len(box) + i]
    BY <1>1, <1>5 DEF Answers
  <2>2. ASSUME NEW i \in DOMAIN b PROVE b[i][1] = tags[i]
    <3>1. CASE i \in 1..Len(box)
      BY <1>0, <1>2, <2>1, <3>1
    <3>2. CASE i \notin 1..Len(box)
      <4>1. i = Len(box) + 1 /\ 1 \in DOMAIN w
        BY <1>0, <1>4, <3>2
      <4>2. w[1] = tags[Len(box) + 1]
        BY <2>1, <4>1
      <4> QED BY <1>x, <1>2, <4>1, <4>2
    <3> QED BY <3>1, <3>2
  <2>3. ASSUME NEW i \in DOMAIN v PROVE v[i] = tags[Len(b) + i]
    <3>1. i + 1 \in DOMAIN w /\ v[i] = w[i + 1] /\ Len(box) + (i + 1) = Len(b) + i
      BY <1>0, <1>2, <1>3, <1>4
    <3>2. w[i + 1] = tags[Len(box) + (i + 1)]
      BY <2>1, <3>1
    <3> QED BY <3>1, <3>2
  <2>4. Len(b) + Len(v) = n
    BY <1>0, <1>2, <1>3, <2>1
  <2> QED BY <2>2, <2>3, <2>4 DEF Answers
<1> QED BY <1>1, <1>5 DEF Piped, b, v, x

-----------------------------------------------------------------------------
(* What a step leaves alone.                                               *)

\* The call that is served, and those below it.
LEMMA Working ==
  ASSUME work \in Seq(CallSet), Aimed, ~Idle, NEW op, NEW x, Head(work) = Call(op, x)
  PROVE  /\ work # <<>> /\ work[1] = Call(op, x) /\ work[1].op = op /\ work[1].of = x
         /\ ToSet(work) = {Call(op, x)} \cup Rest /\ Rest \subseteq CallSet
         /\ Call(op, x) \in ToSet(work) /\ AimedAt(Call(op, x)) /\ \A y \in Rest : AimedAt(y)
<1>1. work # <<>> /\ 1 \in DOMAIN work /\ Head(work) = work[1]
  BY HeadCall
<1>2. ToSet(work) = {work[1]} \cup Rest /\ Rest \subseteq CallSet
  BY <1>1, ThenCalls
<1> QED BY <1>1, <1>2, CallTypes DEF Aimed

LEMMA AimedFrame ==
  ASSUME Aimed, Linked \subseteq Linked', UNCHANGED <<opInit, opFini, socket>>,
         \A x \in ToSet(work') : x \in ToSet(work) \/ AimedAt(x)'
  PROVE  Aimed'
<1>1. ASSUME NEW x \in ToSet(work), AimedAt(x) PROVE AimedAt(x)'
  BY <1>1 DEF AimedAt
<1> QED BY <1>1 DEF Aimed

LEMMA LinksFrame ==
  ASSUME TypeOK, Owned, Told, Dispersed,
         UNCHANGED <<links, socket, opInit, opFini>>,
         opWrite \subseteq opWrite', opRead \subseteq opRead',
         \A l \in opWrite' : l \in opWrite \/ (l \in Linked /\ socket[l] # "none"),
         \A l \in opRead' : l \in opRead \/ (l \in Linked /\ socket[l] # "none"),
         \A x \in ToSet(work) : x.op \in How => x \in ToSet(work'),
         \A l \in Link : queue'[l] # <<>> =>
            \/ /\ queue[l] # <<>>
               /\ Call("disperse", l) \in ToSet(work) => Call("disperse", l) \in ToSet(work')
            \/ l \in Linked /\ l \notin opFini
  PROVE  Owned' /\ Told' /\ Dispersed'
<1>1. Linked' = Linked
  BY DEF Linked
<1>2. Owned'
  BY <1>1 DEF Owned
<1>3. Told'
  BY DEF Told
<1>4. Dispersed'
  BY DEF Dispersed, TypeOK
<1> QED BY <1>2, <1>3, <1>4

LEMMA TagsFrame ==
  ASSUME Unique, Held, Emptied, UNCHANGED <<future, holder, queue>>,
         \A r \in Request : Committed(r)' <=> Committed(r),
         \A x : x.op \in RequestOps => (x \in ToSet(work') <=> x \in ToSet(work)),
         run' \in {"RUN", "QUIT"} \/ run \notin {"RUN", "QUIT"}
           \/ \A l \in Link : queue[l] = <<>>
  PROVE  Unique' /\ Held' /\ Emptied'
<1>1. \A r \in Request : (InWork(r)' <=> InWork(r)) /\ (InQueue(r)' <=> InQueue(r))
  BY DEF InWork, InQueue
<1>2. Unique'
  BY <1>1 DEF Unique
<1>3. Held'
  BY <1>1 DEF Held
<1>4. Emptied'
  BY DEF Emptied
<1> QED BY <1>2, <1>3, <1>4

LEMMA PipesFrame ==
  ASSUME queue \in [Link -> Seq(Request)],
         Ordered, Matched, Severed, Asked, UNCHANGED <<queue, unwritten, wire, inbox, answered>>,
         opFini \subseteq opFini', run' \in {"RUN", "QUIT"} => run \in {"RUN", "QUIT"},
         \A l \in Link : socket[l] = "open" => socket'[l] = "open"
  PROVE  Ordered' /\ Matched' /\ Severed' /\ Asked'
<1>1. ASSUME NEW l \in Link PROVE TagCommitted(l)' = TagCommitted(l)
  BY DEF TagCommitted, Committed
<1>2. Ordered'
  BY <1>1 DEF Ordered, Committed
<1>3. Matched'
  BY <1>1 DEF Matched
<1>4. Severed'
  BY DEF Severed
<1>5. Asked'
  BY DEF Asked, Committed
<1> QED BY <1>2, <1>3, <1>4, <1>5

-----------------------------------------------------------------------------
(* The calls, one by one.                                                  *)

\* A request is turned away.
LEMMA RefuseHolds ==
  ASSUME TypeOK, work \in Seq(CallSet), Unique, Held, NEW r \in Request, InWork(r),
         Refuse(r), UNCHANGED queue, ~InWork(r)',
         \A s \in Request : s # r => (InWork(s)' <=> InWork(s))
  PROVE  /\ Unique' /\ Held' /\ unwritten' = unwritten
         /\ future' \in [Request -> {"none", "pending", "value", "error", "canceled",
                             "refused"}]
         /\ holder' \in [Request -> {"none", "user", "dummy"}]
<1>1. ~InQueue(r) /\ ~Committed(r) /\ future[r] \in {"none", "pending"}
  BY DEF Unique
<1>2. unwritten' = unwritten
  BY DEF Refuse, FailTags
<1>3. /\ future \in [Request -> {"none", "pending", "value", "error", "canceled", "refused"}]
      /\ holder \in [Request -> {"none", "user", "dummy"}]
  BY DEF TypeOK
<1>4. /\ future' \in [Request -> {"none", "pending", "value", "error", "canceled", "refused"}]
      /\ holder' \in [Request -> {"none", "user", "dummy"}]
      /\ \A s \in Request : s # r => future'[s] = future[s] /\ holder'[s] = holder[s]
      /\ future'[r] \in {"refused", "error"}
  <2>1. CASE future[r] = "none"
    BY <1>3, <2>1 DEF Refuse
  <2>2. CASE future[r] # "none"
    <3>1. /\ future' = [s \in Request |-> IF s \in {r} /\ ~Abandoned(s) THEN "error" ELSE future[s]]
          /\ holder' = [s \in Request |-> IF s \in {r} THEN "none" ELSE holder[s]]
      BY <2>2 DEF Refuse, FailTags
    <3>2. future[r] = "pending"
      BY <1>1, <2>2
    <3> QED BY <1>3, <3>1, <3>2 DEF Abandoned
  <2> QED BY <2>1, <2>2
<1>5. holder'[r] = "none"
  <2>1. CASE future[r] = "none"
    <3>1. holder[r] # "user" /\ holder[r] # "dummy" /\ holder' = holder
      BY <1>1, <2>1 DEF Held, Refuse
    <3> QED BY <1>3, <3>1
  <2>2. CASE future[r] # "none"
    BY <1>3, <2>2 DEF Refuse, FailTags
  <2> QED BY <2>1, <2>2
<1>6. \A s \in Request : (Committed(s)' <=> Committed(s)) /\ (InQueue(s)' <=> InQueue(s))
  BY <1>2 DEF Committed, InQueue
<1>7. Unique'
  BY <1>4, <1>6 DEF Unique
<1>8. ASSUME NEW s \in Request
      PROVE  /\ holder'[s] = "user" <=> future'[s] = "pending"
             /\ holder'[s] = "dummy" => Committed(s)'
             /\ holder'[s] = "none" /\ InQueue(s)' => ~Committed(s)'
             /\ future'[s] = "none" => ~Committed(s)' /\ ~InQueue(s)'
             /\ future'[s] = "pending" => InWork(s)' \/ InQueue(s)'
  <2>1. CASE s = r
    BY <1>1, <1>4, <1>5, <1>6, <2>1
  <2>2. CASE s # r
    BY <1>4, <1>6, <2>2 DEF Held
  <2> QED BY <2>1, <2>2
<1>9. Held'
  BY <1>8 DEF Held
<1> QED BY <1>2, <1>4, <1>7, <1>9

\* The calls for a request, when one is replaced by another for the same.
LEMMA SubmitHolds ==
  ASSUME IInv, ~Idle, NEW r \in Request, SubmitCall(r) PROVE IInv'
<1>0. TypeOK /\ work \in Seq(CallSet) /\ Stacked /\ Aimed /\ Unique /\ Held /\ Emptied
  BY DEF IInv
<1>1. /\ work # <<>> /\ work[1] = Call("submit", r)
      /\ work[1].op = "submit" /\ work[1].of = r
      /\ ToSet(work) = {Call("submit", r)} \cup Rest /\ Rest \subseteq CallSet
      /\ Call("submit", r) \in ToSet(work)
  BY <1>0, Working DEF SubmitCall
<1>2. /\ UNCHANGED <<conns, ops, opResolve, remote, expired, closing, run, net, faults>>
      /\ fini => fini'
      /\ ~fini /\ run = "RUN" => ~fini' /\ run' = "RUN"
      /\ fini' \in BOOLEAN /\ err' \in {"none", "fresh", "old"}
      /\ Refusing => Refuse(r) /\ Then(<<>>)
      /\ ~Refusing => /\ Then([i \in DOMAIN links |-> Call("cleanup", links[i])]
                                \o <<Call("place", r)>>)
                      /\ UNCHANGED <<requests, fini>> /\ ~fini /\ run = "RUN"
  BY <1>0 DEF SubmitCall, Refusing, TypeOK
<1>3. InWork(r)
  BY <1>1, CallTypes DEF InWork, RequestOps
<1>4. /\ Stacked' /\ work' \in Seq(CallSet)
      /\ \A x \in ToSet(work') : \/ x.op = "cleanup" \/ x = Call("place", r)
                                 \/ x \in Rest
      /\ Rest \subseteq ToSet(work')
  <2>1. CASE Refusing
    <3>1. Then(<<>>)
      BY <1>2, <2>1
    <3>2. Stacked'
      BY <1>0, <1>1, <1>2, <3>1, StackedPop
    <3>3. work' \in Seq(CallSet)
      BY <1>0, <1>1, <3>1, ThenNothing
    <3>4. ToSet(work') = Rest
      BY <1>0, <1>1, <3>1, ThenCalls
    <3> QED BY <3>2, <3>3, <3>4
  <2>2. CASE ~Refusing
    <3>1. links \in Seq(Link)
      BY <1>0 DEF TypeOK
    <3>2. UNCHANGED <<fini, run>>
      BY <1>2, <2>2 DEF peer
    <3> QED BY <1>0, <1>1, <1>2, <2>2, <3>1, <3>2, StackedSubmit
  <2> QED BY <2>1, <2>2
<1>5. \A x : x.op \in How \cup {"disperse"} /\ x \in ToSet(work) => x \in ToSet(work')
  BY <1>1, <1>4, CallTypes DEF How
<1>6. Aimed'
  <2>1. ASSUME NEW x \in ToSet(work') PROVE x \in ToSet(work) \/ AimedAt(x)'
    <3>1. CASE x.op = "cleanup" \/ x = Call("place", r)
      <4>1. x.op \in {"cleanup", "place"}
        BY <3>1, CallTypes
      <4> QED BY <4>1 DEF AimedAt, How
    <3>2. CASE x \in Rest
      BY <1>1, <3>2
    <3> QED BY <1>4, <3>1, <3>2
  <2>2. Linked \subseteq Linked' /\ UNCHANGED <<opInit, opFini, socket>>
    BY <1>2 DEF conns, ops, Linked
  <2> QED BY <1>0, <2>1, <2>2, AimedFrame
<1>7. Owned' /\ Told' /\ Dispersed'
  <2>1. \A l \in Link : Call("disperse", l) \in ToSet(work) => Call("disperse", l) \in ToSet(work')
    BY <1>5, CallTypes
  <2> QED BY <1>0, <1>2, <1>5, <2>1, LinksFrame DEF IInv, conns, ops
<1>8. \A x \in Rest : x.op \in RequestOps => x.of # r
  BY <1>0, <1>1, HeadFacts DEF RequestOps
<1>9. /\ Unique' /\ Held' /\ unwritten' = unwritten
      /\ future' \in [Request -> {"none", "pending", "value", "error", "canceled",
                             "refused"}]
      /\ holder' \in [Request -> {"none", "user", "dummy"}]
  <2>1. ASSUME NEW s \in Request, s # r PROVE InWork(s)' <=> InWork(s)
    <3>1. \A x : x.op \in RequestOps /\ x.of = s => (x \in ToSet(work') <=> x \in ToSet(work))
      BY <1>1, <1>4, <2>1, CallTypes DEF RequestOps
    <3> QED BY <3>1 DEF InWork
  <2>2. CASE Refusing
    <3>1. ToSet(work') = Rest
      BY <1>0, <1>1, <1>2, <2>2, ThenCalls
    <3>2. ~InWork(r)'
      BY <1>8, <3>1 DEF InWork
    <3>3. queue' = queue
      BY <1>2 DEF conns
    <3> QED BY <1>0, <1>2, <1>3, <2>1, <2>2, <3>2, <3>3, RefuseHolds
  <2>3. CASE ~Refusing
    <3>1. UNCHANGED <<future, holder, unwritten, queue>>
      BY <1>2, <2>3 DEF conns, requests
    <3>2. \A s \in Request : InWork(s)' => InWork(s)
      BY <1>3, <2>1
    <3>3. InWork(r)'
      <4>1. links \in Seq(Link) /\ UNCHANGED <<fini, run>>
        BY <1>0, <1>2, <2>3 DEF TypeOK, peer
      <4>2. Call("place", r) \in ToSet(work')
        BY <1>0, <1>1, <1>2, <2>3, <4>1, StackedSubmit
      <4> QED BY <4>2, CallTypes DEF InWork, RequestOps
    <3>4. \A s \in Request : /\ InWork(s)' <=> InWork(s)
                             /\ InQueue(s)' <=> InQueue(s)
                             /\ Committed(s)' <=> Committed(s)
      BY <2>1, <3>1, <3>3, <1>3 DEF InQueue, Committed
    <3>5. Unique'
      BY <1>0, <3>1, <3>4 DEF Unique
    <3>6. Held'
      BY <1>0, <3>1, <3>4 DEF Held
    <3> QED BY <1>0, <3>1, <3>5, <3>6 DEF TypeOK
  <2> QED BY <2>2, <2>3
<1>10. Emptied'
  BY <1>0, <1>2 DEF Emptied, conns
<1>11. Ordered' /\ Matched' /\ Severed' /\ Asked'
  <2>1. UNCHANGED <<queue, unwritten, wire, inbox, answered, opFini, run, socket>>
    BY <1>2, <1>9 DEF conns, net, ops
  <2> QED BY <1>0, <2>1, PipesFrame DEF IInv, TypeOK
<1>12. TypeOK'
  BY <1>0, <1>2, <1>9 DEF TypeOK, conns, ops, net
<1> QED BY <1>4, <1>6, <1>7, <1>9, <1>10, <1>11, <1>12 DEF IInv

LEMMA PipedNext ==
  ASSUME queue' \in [Link -> Seq(Request)],
         \A l \in Link : Piped(queue'[l], inbox'[l], wire'[l], Revealed', Live(l)')
  PROVE  Ordered' /\ Matched'
<1>0. ASSUME NEW l \in Link
      PROVE  /\ queue'[l] \in Seq(Request)
             /\ Len(queue'[l]) \in Nat /\ DOMAIN queue'[l] = 1..Len(queue'[l])
             /\ \A i \in DOMAIN queue'[l] : queue'[l][i] \in Revealed' <=> Committed(queue[l][i])'
  BY LenProperties DEF Revealed, Committed
<1>1. ASSUME NEW l \in Link
      PROVE  /\ TagCommitted(l)' \in 0..Len(queue'[l]) /\ TagCommitted(l)' <= CommitMax
             /\ \A i \in DOMAIN queue'[l] : queue'[l][i] \in Revealed' <=> i <= TagCommitted(l)'
             /\ Live(l)' => Answers(inbox'[l], wire'[l], queue'[l], TagCommitted(l)')
  <2>1. PICK n \in 0..Len(queue'[l]) :
          /\ n <= CommitMax
          /\ \A i \in DOMAIN queue'[l] : queue'[l][i] \in Revealed' <=> i <= n
          /\ Live(l)' => Answers(inbox'[l], wire'[l], queue'[l], n)
    BY DEF Piped
  <2>2. Cardinality({i \in DOMAIN queue'[l] : queue'[l][i] \in Revealed'}) = n
    <3> DEFINE u == queue'[l]
               D == Revealed'
    <3>1. u \in Seq(Request) /\ n \in 0..Len(u) /\ \A i \in DOMAIN u : u[i] \in D <=> i <= n
      BY <1>0, <2>1
    <3> HIDE DEF u, D
    <3>2. Cardinality({i \in DOMAIN u : u[i] \in D}) = n
      BY <3>1, CommittedFirst
    <3> QED BY <3>2 DEF u, D
  <2>3. {i \in DOMAIN queue'[l] : queue'[l][i] \in Revealed'}
          = {i \in DOMAIN queue'[l] : Committed(queue[l][i])'}
    BY <1>0
  <2>4. TagCommitted(l)' = n
    BY <2>2, <2>3 DEF TagCommitted
  <2> QED BY <2>1, <2>4
<1>2. Ordered'
  BY <1>0, <1>1 DEF Ordered
<1>3. Matched'
  BY <1>1 DEF Matched, Live, Answers
<1> QED BY <1>2, <1>3

\* What does not change of a pipe, when its link stays as live or dies.
LEMMA PipedKept ==
  ASSUME NEW l \in Link, queue[l] \in Seq(Request), PipedAt(l),
         queue'[l] = queue[l], inbox'[l] = inbox[l], wire'[l] = wire[l],
         \A r \in ToSet(queue[l]) : r \in Revealed' <=> r \in Revealed,
         Live(l)' => Live(l)
  PROVE  Piped(queue'[l], inbox'[l], wire'[l], Revealed', Live(l)')
<1> DEFINE C == Revealed
           D == Revealed'
           alive == Live(l)
           live == Live(l)'
<1>1. alive \in BOOLEAN /\ live \in BOOLEAN
  BY DEF Live
<1>2. Piped(queue[l], inbox[l], wire[l], C, alive)
  BY DEF PipedAt
<1> HIDE DEF C, D, alive, live
<1>3. Piped(queue[l], inbox[l], wire[l], D, live)
  BY <1>1, <1>2, PipedSame DEF C, D, alive, live
<1> QED BY <1>3 DEF D, live

\* A request gets its tag.
LEMMA EnqueueHolds ==
  ASSUME TypeOK, Unique, Held, Ordered, Matched, NEW r \in Request, InWork(r),
         NEW l \in Link, Enqueue(r, l), ~InWork(r)',
         \A s \in Request : s # r => (InWork(s)' <=> InWork(s)),
         UNCHANGED <<inbox, wire, opFini, run>>
  PROVE  /\ Unique' /\ Held' /\ unwritten' = unwritten /\ Ordered' /\ Matched'
         /\ future' \in [Request -> {"none", "pending", "value", "error", "canceled",
                             "refused"}]
         /\ holder' \in [Request -> {"none", "user", "dummy"}]
         /\ queue' \in [Link -> Seq(Request)]
         /\ \A k \in Link : k # l => queue'[k] = queue[k]
<1>1. ~InQueue(r) /\ ~Committed(r)
  BY DEF Unique
<1>2. /\ future \in [Request -> {"none", "pending", "value", "error", "canceled", "refused"}]
      /\ holder \in [Request -> {"none", "user", "dummy"}]
      /\ queue \in [Link -> Seq(Request)]
      /\ inbox \in [Link -> Seq(Request \X Status)] /\ wire \in [Link -> Seq(Request)]
  BY DEF TypeOK, Status
<1>3. r \notin ToSet(queue[l]) /\ Distinct(queue[l]) /\ queue[l] \in Seq(Request)
  BY <1>1, <1>2 DEF Unique, InQueue
<1>4. /\ queue'[l] = Append(queue[l], r) /\ \A k \in Link : k # l => queue'[k] = queue[k]
      /\ queue' = [queue EXCEPT ![l] = Append(queue[l], r)]
      /\ future'[r] = "pending" /\ holder'[r] = "user" /\ unwritten' = unwritten
      /\ \A s \in Request : s # r => future'[s] = future[s] /\ holder'[s] = holder[s]
      /\ future' \in [Request -> {"none", "pending", "value", "error", "canceled", "refused"}]
      /\ holder' \in [Request -> {"none", "user", "dummy"}]
  BY <1>2 DEF Enqueue
<1>5. /\ queue'[l] \in Seq(Request) /\ Distinct(queue'[l])
      /\ ToSet(queue'[l]) = ToSet(queue[l]) \cup {r}
  BY <1>3, <1>4, AppendDistinct
<1>6. queue' \in [Link -> Seq(Request)]
  BY <1>2, <1>4, <1>5
<1>7. /\ InQueue(r)' /\ ~Committed(r)'
      /\ \A s \in Request : s # r => (InQueue(s)' <=> InQueue(s)) /\ (Committed(s)' <=> Committed(s))
  BY <1>1, <1>4, <1>5 DEF InQueue, Committed
<1>8. Unique'
  <2>1. \A k \in Link : Distinct(queue'[k])
    BY <1>4, <1>5 DEF Unique
  <2>2. ASSUME NEW j \in Link, NEW k \in Link, NEW s \in Request,
               s \in ToSet(queue'[j]), s \in ToSet(queue'[k])
        PROVE  j = k
    <3>1. CASE s = r
      <4>1. \A i \in Link : i # l => r \notin ToSet(queue'[i])
        BY <1>1, <1>4 DEF InQueue
      <4> QED BY <2>2, <3>1, <4>1
    <3>2. CASE s # r
      <4>1. s \in ToSet(queue[j]) /\ s \in ToSet(queue[k])
        BY <1>4, <1>5, <2>2, <3>2
      <4> QED BY <4>1 DEF Unique
    <3> QED BY <3>1, <3>2
  <2>3. ASSUME NEW s \in Request, InWork(s)'
        PROVE  ~InQueue(s)' /\ ~Committed(s)' /\ future'[s] \in {"none", "pending"}
    <3>1. s # r /\ InWork(s)
      BY <2>3
    <3> QED BY <1>4, <1>7, <3>1 DEF Unique
  <2> QED BY <2>1, <2>2, <2>3 DEF Unique
<1>9. ASSUME NEW s \in Request
      PROVE  /\ holder'[s] = "user" <=> future'[s] = "pending"
             /\ holder'[s] = "dummy" => Committed(s)'
             /\ holder'[s] = "none" /\ InQueue(s)' => ~Committed(s)'
             /\ future'[s] = "none" => ~Committed(s)' /\ ~InQueue(s)'
             /\ future'[s] = "pending" => InWork(s)' \/ InQueue(s)'
  <2>1. CASE s = r
    BY <1>4, <1>7, <2>1
  <2>2. CASE s # r
    BY <1>4, <1>7, <2>2 DEF Held
  <2> QED BY <2>1, <2>2
<1>10. Held'
  BY <1>9 DEF Held
<1>11. Revealed' = Revealed
  BY <1>4 DEF Revealed, Committed
<1>12. \A k \in Link : PipedAt(k)
  BY <1>2, PipedIs
<1>13. ASSUME NEW k \in Link
       PROVE  Piped(queue'[k], inbox'[k], wire'[k], Revealed', Live(k)')
  <2>0. Live(k)' = Live(k) /\ Live(k) \in BOOLEAN
    BY DEF Live
  <2>1. CASE k = l
    <3>1. r \notin Revealed
      BY <1>1 DEF Revealed
    <3>2. Piped(queue[l], inbox[l], wire[l], Revealed, Live(l))
      BY <1>12 DEF PipedAt
    <3> DEFINE C == Revealed
               live == Live(l)
    <3>3. live \in BOOLEAN /\ inbox[l] \in Seq(Request \X Status) /\ wire[l] \in Seq(Request)
      BY <1>2, <2>0, <2>1
    <3> HIDE DEF C, live
    <3>4. Piped(Append(queue[l], r), inbox[l], wire[l], C, live)
      BY <1>3, <3>1, <3>2, <3>3, PipedAppend DEF C, live
    <3> QED BY <1>4, <1>11, <2>0, <2>1, <3>4 DEF C, live
  <2>2. CASE k # l
    BY <1>2, <1>4, <1>11, <1>12, <2>0, <2>2, PipedKept
  <2> QED BY <2>1, <2>2
<1>14. Ordered' /\ Matched'
  BY <1>6, <1>13, PipedNext
<1> QED BY <1>4, <1>6, <1>8, <1>10, <1>14

LEMMA PlaceHolds ==
  ASSUME IInv, ~Idle, NEW r \in Request, PlaceCall(r) PROVE IInv'
<1>0. TypeOK /\ work \in Seq(CallSet) /\ Stacked /\ Aimed /\ Owned /\ Told /\ Dispersed
      /\ Unique /\ Held /\ Emptied /\ Ordered /\ Matched /\ Severed /\ Asked
  BY DEF IInv
<1>1. /\ work # <<>> /\ work[1] = Call("place", r)
      /\ work[1].op = "place" /\ work[1].of = r
      /\ ToSet(work) = {Call("place", r)} \cup Rest /\ Rest \subseteq CallSet
      /\ Call("place", r) \in ToSet(work) /\ \A y \in Rest : AimedAt(y)
  BY <1>0, Working DEF PlaceCall
<1>2. /\ UNCHANGED <<opFini, opRead, net, faults>>
      /\ UNCHANGED <<opResolve, fini, remote, expired, err, closing, run>>
      /\ Then(<<>>) /\ ~fini /\ run = "RUN"
  <2>1. 1 \in DOMAIN work
    BY <1>0, HeadCall
  <2> QED BY <1>0, <1>1, <2>1 DEF PlaceCall, peer, Stacked
<1>3. Stacked' /\ work' \in Seq(CallSet) /\ ToSet(work') = Rest
  <2>1. Stacked'
    BY <1>0, <1>1, <1>2, StackedPop
  <2>2. work' \in Seq(CallSet) /\ ToSet(work') = Rest
    BY <1>0, <1>1, <1>2, ThenNothing, ThenCalls
  <2> QED BY <2>1, <2>2
<1>4. InWork(r)
  BY <1>1, CallTypes DEF InWork, RequestOps
<1>5. /\ \A x \in Rest : /\ x.op \in RequestOps => x.of # r
                         /\ x.op \notin Alone
      /\ ~InWork(r)'
      /\ \A s \in Request : s # r => (InWork(s)' <=> InWork(s))
  <2>1. \A x \in Rest : (x.op \in RequestOps => x.of # r) /\ x.op \notin Alone
    BY <1>0, <1>1, HeadFacts DEF RequestOps
  <2>2. ~InWork(r)'
    BY <1>3, <2>1 DEF InWork
  <2>3. ASSUME NEW s \in Request, s # r PROVE InWork(s)' <=> InWork(s)
    <3>1. \A x : x.op \in RequestOps /\ x.of = s => (x \in ToSet(work') <=> x \in ToSet(work))
      BY <1>1, <1>3, <2>3, CallTypes
    <3> QED BY <3>1 DEF InWork
  <2> QED BY <2>1, <2>2, <2>3
<1>6. \A x \in ToSet(work) : x.op \in How \cup {"disperse"} => x \in ToSet(work')
  BY <1>1, <1>3, CallTypes DEF How
<1>7. \A l \in Link : Call("disperse", l) \in ToSet(work) => Call("disperse", l) \in ToSet(work')
  BY <1>6, CallTypes
<1>8. links \in Seq(Link) /\ Linked \subseteq Link
  BY <1>0 DEF TypeOK, Linked, ToSet
<1>9. Emptied'
  BY <1>2 DEF Emptied
<1>A. ASSUME NEW l \in Best, Enqueue(r, l), Prod(l), UNCHANGED <<links, socket, opInit>>
      PROVE  IInv'
  <2>1. l \in Linked /\ l \notin opFini /\ l \in Link
    BY <1>8, <1>A DEF Best
  <2>2. /\ Unique' /\ Held' /\ unwritten' = unwritten /\ Ordered' /\ Matched'
        /\ future' \in [Request -> {"none", "pending", "value", "error", "canceled",
                               "refused"}]
        /\ holder' \in [Request -> {"none", "user", "dummy"}]
        /\ queue' \in [Link -> Seq(Request)]
        /\ \A k \in Link : k # l => queue'[k] = queue[k]
    BY <1>0, <1>2, <1>4, <1>5, <1>A, <2>1, EnqueueHolds DEF net
  <2>3. /\ opWrite \subseteq opWrite'
        /\ \A k \in opWrite' : k \in opWrite \/ (k = l /\ socket[k] = "open")
    BY <1>A DEF Prod, WaitWritable, Ready
  <2>4. Owned' /\ Told' /\ Dispersed'
    <3>1. \A k \in opWrite' : k \in opWrite \/ (k \in Linked /\ socket[k] # "none")
      BY <2>1, <2>3
    <3>2. opRead \subseteq opRead' /\ \A k \in opRead' : k \in opRead
      BY <1>2
    <3>3. ASSUME NEW k \in Link, queue'[k] # <<>>
          PROVE \/ /\ queue[k] # <<>>
                   /\ Call("disperse", k) \in ToSet(work) => Call("disperse", k) \in ToSet(work')
                \/ k \in Linked /\ k \notin opFini
      BY <1>7, <2>1, <2>2, <3>3
    <3>4. \A x \in ToSet(work) : x.op \in How => x \in ToSet(work')
      BY <1>6
    <3>5. UNCHANGED <<links, socket, opInit, opFini>>
      BY <1>2, <1>A
    <3> QED BY <1>0, <2>3, <3>1, <3>2, <3>3, <3>4, <3>5, LinksFrame
  <2>5. Aimed'
    <3>1. Linked \subseteq Linked' /\ UNCHANGED <<opInit, opFini, socket>>
      BY <1>2, <1>A DEF Linked
    <3>2. \A x \in ToSet(work') : x \in ToSet(work)
      BY <1>1, <1>3
    <3> QED BY <1>0, <3>1, <3>2, AimedFrame
  <2>6. Severed'
    BY <1>0, <1>2, <1>A DEF Severed, net
  <2>7. Asked'
    BY <1>0, <1>2, <2>2 DEF Asked, net, Committed
  <2>8. TypeOK'
    <3>1. opWrite' \subseteq Link
      BY <1>0, <2>1, <2>3 DEF TypeOK
    <3> QED BY <1>0, <1>2, <1>A, <2>2, <3>1 DEF TypeOK, net
  <2> QED BY <1>3, <1>9, <2>2, <2>4, <2>5, <2>6, <2>7, <2>8 DEF IInv
<1>B. ASSUME NEW l \in Link \ Linked, links' = Append(links, l),
             Opening(IF remote THEN {l} ELSE {}), Enqueue(r, l), UNCHANGED opWrite
      PROVE  IInv'
  <2>1. l \in Link /\ l \notin opInit \cup opFini \cup opWrite \cup opRead
        /\ socket[l] = "none" /\ queue[l] = <<>>
    BY <1>0, <1>B DEF Owned
  <2>2. /\ Unique' /\ Held' /\ unwritten' = unwritten /\ Ordered' /\ Matched'
        /\ future' \in [Request -> {"none", "pending", "value", "error", "canceled",
                               "refused"}]
        /\ holder' \in [Request -> {"none", "user", "dummy"}]
        /\ queue' \in [Link -> Seq(Request)]
        /\ \A k \in Link : k # l => queue'[k] = queue[k]
    BY <1>0, <1>2, <1>4, <1>5, <1>B, <2>1, EnqueueHolds DEF net
  <2>3. /\ links' \in Seq(Link) /\ Distinct(links') /\ Linked' = Linked \cup {l}
    <3>1. l \notin ToSet(links) /\ Distinct(links)
      BY <1>0, <1>B DEF Linked, Owned
    <3> QED BY <1>8, <1>B, <3>1, AppendDistinct DEF Linked
  <2>4. /\ socket' \in [Link -> {"none", "connecting", "open", "closing", "closed", "stuck"}]
        /\ \A k \in Link : k # l => socket'[k] = socket[k]
        /\ \/ socket'[l] = "connecting" /\ opInit' = opInit \cup {l}
           \/ socket'[l] = "none" /\ opInit' = opInit
    <3>1. socket \in [Link -> {"none", "connecting", "open", "closing", "closed", "stuck"}]
      BY <1>0 DEF TypeOK
    <3>2. CASE remote
      <4>1. Opening({l})
        BY <1>B, <3>2
      <4> QED BY <2>1, <3>1, <4>1 DEF Opening
    <3>3. CASE ~remote
      <4>1. Opening({})
        BY <1>B, <3>3
      <4> QED BY <2>1, <3>1, <4>1 DEF Opening
    <3> QED BY <3>2, <3>3
  <2>5. Owned'
    <3>1. opInit' \cup opFini' \cup opWrite' \cup opRead' \subseteq Linked'
      BY <1>0, <1>2, <1>B, <2>3, <2>4 DEF Owned
    <3>2. ASSUME NEW k \in Link, socket'[k] # "none" \/ queue'[k] # <<>> PROVE k \in Linked'
      BY <1>0, <2>2, <2>3, <2>4, <3>2 DEF Owned
    <3> QED BY <2>3, <3>1, <3>2 DEF Owned
  <2>6. Told'
    <3>1. ASSUME NEW k \in Link
          PROVE  /\ k \in opInit' => socket'[k] \in {"connecting", "closing", "stuck"}
                 /\ k \in opWrite' \cup opRead' => socket'[k] # "none"
                 /\ socket'[k] \in {"closing", "stuck"} => k \in opFini'
                 /\ k \in opFini' => \/ socket'[k] \in {"closing", "stuck"}
                                     \/ socket'[k] = "closed" /\ k \in opWrite' \cup opRead'
                                     \/ \E x \in ToSet(work') : x.op \in How /\ x.of = k
      <4>1. CASE k = l
        BY <1>2, <1>B, <2>1, <2>4, <4>1
      <4>2. CASE k # l
        BY <1>0, <1>2, <1>6, <1>B, <2>4, <4>2 DEF Told
      <4> QED BY <4>1, <4>2
    <3> QED BY <3>1 DEF Told
  <2>7. Dispersed'
    <3>1. ASSUME NEW k \in opFini', queue'[k] # <<>> PROVE Call("disperse", k) \in ToSet(work')
      <4>1. k \in opFini /\ k \in Link /\ k # l
        BY <1>0, <1>2, <2>1, <3>1 DEF TypeOK
      <4> QED BY <1>0, <1>7, <2>2, <3>1, <4>1 DEF Dispersed
    <3> QED BY <3>1 DEF Dispersed
  <2>8. Aimed'
    <3>1. ASSUME NEW x \in Rest PROVE AimedAt(x)'
      <4>1. AimedAt(x) /\ x.op \notin Alone
        BY <1>1, <1>5
      <4>2. x.op \in How => x.of \in opFini /\ x.of # l /\ x.of \in Link
        BY <1>0, <2>1, <4>1 DEF AimedAt, TypeOK
      <4> QED BY <1>2, <2>3, <2>4, <4>1, <4>2 DEF AimedAt, Alone, How
    <3> QED BY <1>3, <3>1 DEF Aimed
  <2>9. Severed'
    <3>1. ASSUME NEW k \in Link, socket'[k] # "open" PROVE wire'[k] = <<>> /\ inbox'[k] = <<>>
      <4>1. socket[k] # "open"
        BY <2>1, <2>4, <3>1
      <4> QED BY <1>0, <1>2, <4>1 DEF Severed, net
    <3> QED BY <3>1 DEF Severed
  <2>10. Asked'
    BY <1>0, <1>2, <2>2 DEF Asked, net, Committed
  <2>11. TypeOK'
    <3>1. opInit' \subseteq Link
      BY <1>0, <2>1, <2>4 DEF TypeOK
    <3> QED BY <1>0, <1>2, <1>B, <2>2, <2>3, <2>4, <3>1 DEF TypeOK, net
  <2> QED BY <1>3, <1>9, <2>2, <2>5, <2>6, <2>7, <2>8, <2>9, <2>10, <2>11 DEF IInv
<1>C. ASSUME Refuse(r), UNCHANGED <<conns, opInit, opWrite>>
      PROVE  IInv'
  <2>1. UNCHANGED <<links, queue, socket, wire, inbox, answered>>
    BY <1>2, <1>C DEF conns, net
  <2>2. /\ Unique' /\ Held' /\ unwritten' = unwritten
        /\ future' \in [Request -> {"none", "pending", "value", "error", "canceled",
                               "refused"}]
        /\ holder' \in [Request -> {"none", "user", "dummy"}]
    BY <1>0, <1>4, <1>5, <1>C, <2>1, RefuseHolds
  <2>3. Owned' /\ Told' /\ Dispersed'
    BY <1>0, <1>2, <1>6, <1>7, <1>C, <2>1, LinksFrame
  <2>4. Aimed'
    <3>1. Linked \subseteq Linked' /\ UNCHANGED <<opInit, opFini, socket>>
      BY <1>2, <1>C, <2>1 DEF Linked
    <3>2. \A x \in ToSet(work') : x \in ToSet(work)
      BY <1>1, <1>3
    <3> QED BY <1>0, <3>1, <3>2, AimedFrame
  <2>5. Ordered' /\ Matched' /\ Severed' /\ Asked'
    BY <1>0, <1>2, <2>1, <2>2, PipesFrame DEF TypeOK
  <2>6. TypeOK'
    BY <1>0, <1>2, <1>C, <2>1, <2>2 DEF TypeOK
  <2> QED BY <1>3, <1>9, <2>2, <2>3, <2>4, <2>5, <2>6 DEF IInv
<1> QED BY <1>A, <1>B, <1>C DEF PlaceCall

\* A tag that is not committed leaves its queue.
LEMMA UnlinkHolds ==
  ASSUME TypeOK, Unique, Ordered, Matched, NEW l \in Link, NEW r \in ToSet(queue[l]),
         ~Committed(r), queue' = [queue EXCEPT ![l] = Unlink(queue[l], r)],
         UNCHANGED <<unwritten, inbox, wire, opFini, run>>
  PROVE  /\ queue' \in [Link -> Seq(Request)] /\ Ordered' /\ Matched'
         /\ r \in Request
         /\ \A k \in Link : k # l => queue'[k] = queue[k]
         /\ \A k \in Link : Distinct(queue'[k])
         /\ \A j, k \in Link : \A s \in Request :
              s \in ToSet(queue'[j]) /\ s \in ToSet(queue'[k]) => j = k
         /\ ~InQueue(r)'
         /\ \A s \in Request : s # r => (InQueue(s)' <=> InQueue(s))
         /\ \A k \in Link : queue'[k] # <<>> => queue[k] # <<>>
<1>1. /\ queue \in [Link -> Seq(Request)] /\ queue[l] \in Seq(Request)
      /\ inbox \in [Link -> Seq(Request \X Status)] /\ wire \in [Link -> Seq(Request)]
      /\ r \in Request
  BY DEF TypeOK, Status, ToSet
<1>2. /\ queue'[l] = Unlink(queue[l], r) /\ \A k \in Link : k # l => queue'[k] = queue[k]
  BY <1>1
<1>3. Distinct(queue[l])
  BY DEF Unique
<1>4. /\ queue'[l] \in Seq(Request) /\ Distinct(queue'[l])
      /\ ToSet(queue'[l]) = ToSet(queue[l]) \ {r}
  BY <1>1, <1>2, <1>3, UnlinkProperties
<1>5. queue' \in [Link -> Seq(Request)]
  BY <1>1, <1>2, <1>4
<1>6. \A k \in Link : Distinct(queue'[k])
  BY <1>2, <1>4 DEF Unique
<1>7. \A k \in Link : ToSet(queue'[k]) \subseteq ToSet(queue[k])
  BY <1>2, <1>4
<1>8. \A j, k \in Link : \A s \in Request :
        s \in ToSet(queue'[j]) /\ s \in ToSet(queue'[k]) => j = k
  BY <1>7 DEF Unique
<1>9. ~InQueue(r)'
  <2>1. ASSUME NEW k \in Link, r \in ToSet(queue'[k]) PROVE FALSE
    <3>1. CASE k = l
      BY <1>4, <2>1, <3>1
    <3>2. CASE k # l
      BY <1>1, <1>2, <2>1, <3>2 DEF Unique
    <3> QED BY <3>1, <3>2
  <2> QED BY <2>1 DEF InQueue
<1>10. ASSUME NEW s \in Request, s # r PROVE InQueue(s)' <=> InQueue(s)
  <2>1. ASSUME NEW k \in Link PROVE s \in ToSet(queue'[k]) <=> s \in ToSet(queue[k])
    BY <1>2, <1>4, <1>10
  <2> QED BY <2>1 DEF InQueue
<1>11. Revealed' = Revealed
  BY DEF Revealed, Committed
<1>12. \A k \in Link : PipedAt(k)
  BY <1>1, PipedIs
<1>13. ASSUME NEW k \in Link
       PROVE  Piped(queue'[k], inbox'[k], wire'[k], Revealed', Live(k)')
  <2>0. Live(k)' = Live(k) /\ Live(k) \in BOOLEAN
    BY DEF Live
  <2>1. CASE k = l
    <3>1. r \notin Revealed
      BY DEF Revealed
    <3>2. Piped(queue[l], inbox[l], wire[l], Revealed, Live(l))
      BY <1>12 DEF PipedAt
    <3> DEFINE C == Revealed
               live == Live(l)
    <3>3. live \in BOOLEAN /\ inbox[l] \in Seq(Request \X Status) /\ wire[l] \in Seq(Request)
      BY <1>1, <2>0, <2>1
    <3> HIDE DEF C, live
    <3>4. Piped(Unlink(queue[l], r), inbox[l], wire[l], C, live)
      BY <1>1, <3>1, <3>2, <3>3, PipedUnlink DEF C, live
    <3> QED BY <1>2, <1>11, <2>0, <2>1, <3>4 DEF C, live
  <2>2. CASE k # l
    BY <1>1, <1>2, <1>11, <1>12, <2>0, <2>2, PipedKept
  <2> QED BY <2>1, <2>2
<1>14. Ordered' /\ Matched'
  BY <1>5, <1>13, PipedNext
<1>15. \A k \in Link : queue'[k] # <<>> => queue[k] # <<>>
  <2>1. ToSet(queue[l]) # {}
    OBVIOUS
  <2>2. queue[l] # <<>>
    BY <2>1 DEF ToSet
  <2> QED BY <1>2, <2>2
<1> QED BY <1>1, <1>2, <1>5, <1>6, <1>8, <1>9, <1>10, <1>14, <1>15

\* A tag whose request was canceled before it was committed is dropped.
LEMMA DropHolds ==
  ASSUME TypeOK, Unique, Held, Ordered, Matched, NEW l \in Link, NEW r \in ToSet(queue[l]),
         ~Committed(r), holder[r] = "none",
         queue' = [queue EXCEPT ![l] = Unlink(queue[l], r)],
         UNCHANGED <<future, holder, unwritten, inbox, wire, opFini, run>>,
         \A s \in Request : InWork(s)' <=> InWork(s)
  PROVE  /\ queue' \in [Link -> Seq(Request)] /\ Ordered' /\ Matched' /\ Unique' /\ Held'
         /\ \A k \in Link : queue'[k] # <<>> => queue[k] # <<>>
<1>1. /\ queue' \in [Link -> Seq(Request)] /\ Ordered' /\ Matched'
      /\ r \in Request
      /\ \A k \in Link : Distinct(queue'[k])
      /\ \A j, k \in Link : \A s \in Request :
           s \in ToSet(queue'[j]) /\ s \in ToSet(queue'[k]) => j = k
      /\ ~InQueue(r)'
      /\ \A s \in Request : s # r => (InQueue(s)' <=> InQueue(s))
      /\ \A k \in Link : queue'[k] # <<>> => queue[k] # <<>>
  BY UnlinkHolds
<1>2. \A s \in Request : Committed(s)' <=> Committed(s)
  BY DEF Committed
<1>3. InQueue(r) /\ future[r] # "pending"
  BY <1>1 DEF InQueue, Held
<1>4. Unique'
  BY <1>1, <1>2, <1>3 DEF Unique
<1>5. ASSUME NEW s \in Request
      PROVE  /\ holder'[s] = "user" <=> future'[s] = "pending"
             /\ holder'[s] = "dummy" => Committed(s)'
             /\ holder'[s] = "none" /\ InQueue(s)' => ~Committed(s)'
             /\ future'[s] = "none" => ~Committed(s)' /\ ~InQueue(s)'
             /\ future'[s] = "pending" => InWork(s)' \/ InQueue(s)'
  BY <1>1, <1>2, <1>3 DEF Held
<1>6. Held'
  BY <1>5 DEF Held
<1> QED BY <1>1, <1>4, <1>6

LEMMA CleanupHolds ==
  ASSUME IInv, ~Idle, NEW l \in Link, CleanupCall(l) PROVE IInv'
<1>0. TypeOK /\ work \in Seq(CallSet) /\ Stacked /\ Aimed /\ Owned /\ Told /\ Dispersed
      /\ Unique /\ Held /\ Emptied /\ Ordered /\ Matched /\ Severed /\ Asked
  BY DEF IInv
<1>1. /\ work # <<>> /\ work[1] = Call("cleanup", l)
      /\ work[1].op = "cleanup" /\ work[1].of = l
      /\ ToSet(work) = {Call("cleanup", l)} \cup Rest /\ Rest \subseteq CallSet
  BY <1>0, Working DEF CleanupCall
<1>2. /\ UNCHANGED <<future, holder, unwritten, links, socket, opInit, opFini, opWrite, opRead>>
      /\ UNCHANGED <<opResolve, fini, remote, expired, err, closing, run, wire, inbox, answered, faults>>
      /\ ~fini /\ run = "RUN"
  <2>1. 1 \in DOMAIN work
    BY <1>0, HeadCall
  <2> QED BY <1>0, <1>1, <2>1 DEF CleanupCall, requests, ops, peer, net, Stacked
<1> DEFINE gone == {r \in ToSet(queue[l]) : ~Committed(r) /\ holder[r] = "none"}
           dead == {r \in ToSet(queue[l]) : Committed(r) /\ Canceled(r)}
<1>3. \/ \E r \in gone : /\ queue' = [queue EXCEPT ![l] = Unlink(queue[l], r)]
                         /\ Then(<<Call("cleanup", l)>>)
      \/ queue' = queue /\ dead # {} /\ Then(<<Call("close", l)>>)
      \/ queue' = queue /\ Then(<<>>)
  BY DEF CleanupCall
<1>4. /\ Stacked' /\ work' \in Seq(CallSet) /\ Rest \subseteq ToSet(work')
      /\ \A x \in ToSet(work') : \/ x \in Rest \/ x.op = "cleanup"
                                 \/ x.op = "close" /\ x.of = l /\ dead # {}
  <2>0. /\ \A op \in LinkOps : Call(op, l) \in CallSet /\ Call(op, l).op = op /\ Call(op, l).of = l
        /\ \A x \in Rest : x.op # "close"
        /\ UNCHANGED <<fini, run>>
    BY <1>0, <1>1, <1>2, CallTypes, HeadFacts
  <2>1. CASE Then(<<Call("cleanup", l)>>)
    <3> DEFINE x == Call("cleanup", l)
    <3>1. x \in CallSet /\ x.op = "cleanup" /\ Then(<<x>>)
      BY <2>0, <2>1 DEF LinkOps
    <3> HIDE DEF x
    <3>2. Stacked'
      BY <1>0, <1>1, <1>2, <2>0, <3>1, StackedReplace
    <3>3. work' \in Seq(CallSet) /\ ToSet(work') = {x} \cup Rest
      BY <1>0, <1>1, <3>1, ThenOne, ThenCalls
    <3> QED BY <3>1, <3>2, <3>3
  <2>2. CASE Then(<<Call("close", l)>>) /\ dead # {}
    <3> DEFINE x == Call("close", l)
    <3>1. x \in CallSet /\ x.op = "close" /\ x.of = l /\ Then(<<x>>)
      BY <2>0, <2>2 DEF LinkOps
    <3> HIDE DEF x
    <3>2. \A i \in DOMAIN work : i # 1 => work[i].op # "close"
      BY <1>0, <1>1, <2>0, RestIs
    <3>3. Stacked'
      BY <1>0, <1>1, <1>2, <2>0, <3>1, <3>2, StackedReplace
    <3>4. work' \in Seq(CallSet) /\ ToSet(work') = {x} \cup Rest
      BY <1>0, <1>1, <3>1, ThenOne, ThenCalls
    <3> QED BY <2>2, <3>1, <3>3, <3>4
  <2>3. CASE Then(<<>>)
    <3>1. Stacked'
      BY <1>0, <1>1, <1>2, <2>3, StackedPop
    <3>2. work' \in Seq(CallSet) /\ ToSet(work') = Rest
      BY <1>0, <1>1, <2>3, ThenNothing, ThenCalls
    <3> QED BY <3>1, <3>2
  <2> QED BY <1>3, <2>1, <2>2, <2>3
<1>5. \A x : x.op \in How \cup {"disperse"} \cup RequestOps =>
               (x \in ToSet(work') <=> x \in ToSet(work))
  BY <1>1, <1>4, CallTypes DEF How, RequestOps
<1>6. dead # {} => l \in Linked
  <2>1. ASSUME dead # {} PROVE queue[l] # <<>>
    BY <2>1 DEF ToSet
  <2> QED BY <1>0, <2>1 DEF Owned
<1>7. Aimed'
  <2>1. ASSUME NEW x \in ToSet(work') PROVE x \in ToSet(work) \/ AimedAt(x)'
    <3>1. CASE x \in Rest
      BY <1>1, <3>1
    <3>2. CASE x.op = "cleanup"
      BY <3>2 DEF AimedAt, How
    <3>3. CASE x.op = "close" /\ x.of = l /\ dead # {}
      BY <1>2, <1>6, <3>3 DEF AimedAt, How, Linked
    <3> QED BY <1>4, <3>1, <3>2, <3>3
  <2>2. Linked \subseteq Linked' /\ UNCHANGED <<opInit, opFini, socket>>
    BY <1>2 DEF Linked
  <2> QED BY <1>0, <2>1, <2>2, AimedFrame
<1>8. /\ queue' \in [Link -> Seq(Request)] /\ Ordered' /\ Matched' /\ Unique' /\ Held'
      /\ \A k \in Link : queue'[k] # <<>> => queue[k] # <<>>
  <2>1. CASE queue' = queue
    <3>1. Ordered' /\ Matched'
      BY <1>0, <1>2, <2>1, PipesFrame DEF TypeOK
    <3>2. Unique' /\ Held'
      BY <1>0, <1>2, <1>5, <2>1, TagsFrame DEF Committed
    <3> QED BY <1>0, <2>1, <3>1, <3>2 DEF TypeOK
  <2>2. ASSUME NEW r \in gone, queue' = [queue EXCEPT ![l] = Unlink(queue[l], r)]
        PROVE  /\ queue' \in [Link -> Seq(Request)] /\ Ordered' /\ Matched' /\ Unique' /\ Held'
               /\ \A k \in Link : queue'[k] # <<>> => queue[k] # <<>>
    <3>1. \A s \in Request : InWork(s)' <=> InWork(s)
      BY <1>5 DEF InWork
    <3> QED BY <1>0, <1>2, <2>2, <3>1, DropHolds
  <2> QED BY <1>3, <2>1, <2>2
<1>9. Owned' /\ Told' /\ Dispersed'
  <2>1. \A k \in Link : Call("disperse", k) \in ToSet(work) => Call("disperse", k) \in ToSet(work')
    BY <1>5, CallTypes
  <2> QED BY <1>0, <1>2, <1>5, <1>8, <2>1, LinksFrame
<1>10. Emptied' /\ Severed' /\ Asked'
  <2>1. Emptied'
    BY <1>2 DEF Emptied
  <2>2. Severed'
    BY <1>0, <1>2 DEF Severed
  <2>3. Asked'
    BY <1>0, <1>2 DEF Asked, Committed
  <2> QED BY <2>1, <2>2, <2>3
<1>11. TypeOK'
  BY <1>0, <1>2, <1>8 DEF TypeOK
<1> QED BY <1>4, <1>7, <1>8, <1>9, <1>10, <1>11 DEF IInv

\* Queues are emptied, and all of their tags fail.
LEMMA FailHolds ==
  ASSUME TypeOK, Unique, Held, Ordered, Matched, NEW K \in SUBSET Link, NEW T,
         queue' = [k \in Link |-> IF k \in K THEN <<>> ELSE queue[k]],
         \A r : r \in T <=> \E k \in K : r \in ToSet(queue[k]), FailTags(T),
         \A s \in Request : InWork(s)' <=> InWork(s),
         UNCHANGED <<inbox, wire>>, \A k \in Link : Live(k)' => Live(k) /\ k \notin K
  PROVE  /\ Unique' /\ Held' /\ unwritten' = unwritten /\ Ordered' /\ Matched'
         /\ future' \in [Request -> {"none", "pending", "value", "error", "canceled",
                             "refused"}]
         /\ holder' \in [Request -> {"none", "user", "dummy"}]
         /\ queue' \in [Link -> Seq(Request)]
<1>1. /\ future \in [Request -> {"none", "pending", "value", "error", "canceled", "refused"}]
      /\ holder \in [Request -> {"none", "user", "dummy"}]
      /\ queue \in [Link -> Seq(Request)]
  BY DEF TypeOK
<1>2. /\ unwritten' = unwritten
      /\ future' \in [Request -> {"none", "pending", "value", "error", "canceled", "refused"}]
      /\ holder' \in [Request -> {"none", "user", "dummy"}]
      /\ \A r \in Request : r \notin T => future'[r] = future[r] /\ holder'[r] = holder[r]
      /\ \A r \in T : r \in Request => holder'[r] = "none" /\ future'[r] # "pending"
                                         /\ (future[r] # "none" => future'[r] # "none")
  BY <1>1 DEF FailTags, Abandoned
<1>3. /\ \A k \in K : queue'[k] = <<>> /\ ToSet(queue'[k]) = {}
      /\ \A k \in Link \ K : queue'[k] = queue[k]
      /\ \A k \in Link : ToSet(queue'[k]) \subseteq ToSet(queue[k])
  BY DEF ToSet
<1>4. queue' \in [Link -> Seq(Request)]
  BY <1>1
<1>5. ASSUME NEW r \in Request PROVE /\ r \in T => ~InQueue(r)' /\ InQueue(r)
                                     /\ r \notin T => (InQueue(r)' <=> InQueue(r))
                                     /\ Committed(r)' <=> Committed(r)
  <2>1. ASSUME r \in T PROVE ~InQueue(r)' /\ InQueue(r)
    <3>1. PICK k \in K : r \in ToSet(queue[k])
      BY <2>1
    <3>2. ASSUME NEW j \in Link, r \in ToSet(queue'[j]) PROVE FALSE
      <4>1. j \notin K /\ r \in ToSet(queue[j])
        BY <1>3, <3>2
      <4>2. j = k
        BY <3>1, <4>1 DEF Unique
      <4> QED BY <4>1, <4>2
    <3> QED BY <3>1, <3>2 DEF InQueue
  <2>2. ASSUME r \notin T PROVE InQueue(r)' <=> InQueue(r)
    BY <1>3, <2>2 DEF InQueue
  <2>3. Committed(r)' <=> Committed(r)
    BY <1>2 DEF Committed
  <2> QED BY <2>1, <2>2, <2>3
<1>6. Unique'
  <2>1. \A k \in Link : Distinct(queue'[k])
    <3>1. Distinct(<<>>)
      BY DEF Distinct
    <3> QED BY <1>3, <3>1 DEF Unique
  <2>2. \A j, k \in Link : \A s \in Request :
          s \in ToSet(queue'[j]) /\ s \in ToSet(queue'[k]) => j = k
    BY <1>3 DEF Unique
  <2>3. ASSUME NEW s \in Request, InWork(s)'
        PROVE  ~InQueue(s)' /\ ~Committed(s)' /\ future'[s] \in {"none", "pending"}
    <3>1. InWork(s) /\ ~InQueue(s) /\ s \notin T
      BY <1>5, <2>3 DEF Unique
    <3> QED BY <1>2, <1>5, <3>1 DEF Unique
  <2> QED BY <2>1, <2>2, <2>3 DEF Unique
<1>7. ASSUME NEW s \in Request
      PROVE  /\ holder'[s] = "user" <=> future'[s] = "pending"
             /\ holder'[s] = "dummy" => Committed(s)'
             /\ holder'[s] = "none" /\ InQueue(s)' => ~Committed(s)'
             /\ future'[s] = "none" => ~Committed(s)' /\ ~InQueue(s)'
             /\ future'[s] = "pending" => InWork(s)' \/ InQueue(s)'
  <2>1. CASE s \in T
    BY <1>2, <1>5, <2>1 DEF Held
  <2>2. CASE s \notin T
    BY <1>2, <1>5, <2>2 DEF Held
  <2> QED BY <2>1, <2>2
<1>8. Held'
  BY <1>7 DEF Held
<1>9. Revealed' = Revealed
  BY <1>2 DEF Revealed, Committed
<1>10. \A k \in Link : PipedAt(k)
  BY <1>1, PipedIs
<1>11. ASSUME NEW k \in Link
       PROVE  Piped(queue'[k], inbox'[k], wire'[k], Revealed', Live(k)')
  <2>1. CASE k \in K
    <3>1. Live(k)' \in BOOLEAN /\ ~Live(k)' /\ queue'[k] = <<>>
      BY <1>3, <2>1 DEF Live
    <3> DEFINE live == Live(k)'
               C == Revealed'
    <3> HIDE DEF live, C
    <3>2. Piped(<<>>, inbox'[k], wire'[k], C, live)
      BY <3>1, PipedEmpty DEF live
    <3> QED BY <3>1, <3>2 DEF live, C
  <2>2. CASE k \notin K
    BY <1>1, <1>3, <1>9, <1>10, <2>2, PipedKept
  <2> QED BY <2>1, <2>2
<1>12. Ordered' /\ Matched'
  BY <1>4, <1>11, PipedNext
<1> QED BY <1>2, <1>4, <1>6, <1>8, <1>12

LEMMA DisperseHolds ==
  ASSUME IInv, ~Idle, NEW l \in Link, DisperseCall(l) PROVE IInv'
<1>0. TypeOK /\ work \in Seq(CallSet) /\ Stacked /\ Aimed /\ Owned /\ Told /\ Dispersed
      /\ Unique /\ Held /\ Emptied /\ Ordered /\ Matched /\ Severed /\ Asked
  BY DEF IInv
<1>1. /\ work # <<>> /\ work[1] = Call("disperse", l)
      /\ work[1].op = "disperse" /\ work[1].of = l
      /\ ToSet(work) = {Call("disperse", l)} \cup Rest /\ Rest \subseteq CallSet
      /\ \A y \in Rest : AimedAt(y)
  BY <1>0, Working DEF DisperseCall
<1>2. /\ UNCHANGED <<links, socket, opInit, opFini, opWrite, opRead>>
      /\ UNCHANGED <<opResolve, fini, remote, expired, err, closing, run, wire, inbox, answered, faults>>
  BY DEF DisperseCall, ops, peer, net
<1>3. l \in opFini
  <2>1. \E x \in Rest : x.op \in How /\ x.of = l
    BY <1>0, <1>1, HeadFacts
  <2> QED BY <1>1, <2>1 DEF AimedAt
<1> DEFINE waiting == {r \in Request : Waiting(r)}
<1>4. Emptied' /\ Severed'
  <2>1. \A k \in Link : queue'[k] # <<>> => queue[k] # <<>>
    <3>1. CASE waiting \cap ToSet(queue[l]) # {}
      <4>1. queue[l] # <<>> /\ \A k \in Link : k # l => queue'[k] = queue[k]
        BY <1>0, <3>1 DEF DisperseCall, TypeOK, ToSet
      <4> QED BY <4>1
    <3>2. CASE waiting \cap ToSet(queue[l]) = {}
      BY <1>0, <3>2 DEF DisperseCall, TypeOK
    <3> QED BY <3>1, <3>2
  <2> QED BY <1>0, <1>2, <2>1 DEF Emptied, Severed
<1>A. ASSUME waiting \cap ToSet(queue[l]) # {} PROVE IInv'
  <2>2. queue[l] \in Seq(Request)
    BY <1>0 DEF TypeOK
  <2>3. PICK next \in Request : /\ next = First(queue[l], waiting)
                               /\ next \in ToSet(queue[l]) /\ next \in waiting
    <3>1. \E k \in DOMAIN queue[l] : /\ First(queue[l], waiting) = queue[l][k]
                                     /\ queue[l][k] \in waiting
      BY <1>A, <2>2, FirstProperties
    <3> QED BY <3>1 DEF ToSet
  <2>1. /\ queue' = [queue EXCEPT ![l] = Unlink(queue[l], next)]
        /\ Then(<<Call("submit", next), Call("disperse", l)>>)
        /\ UNCHANGED <<future, holder, unwritten>>
    BY <1>A, <2>3 DEF DisperseCall, requests
  <2>4. /\ next \in Request /\ ~Committed(next) /\ holder[next] # "none"
        /\ InQueue(next) /\ ~InWork(next)
    BY <1>0, <2>3 DEF Waiting, InQueue, Unique
  <2>5. future[next] = "pending"
    BY <1>0, <2>4 DEF Held, TypeOK
  <2>6. Stacked' /\ work' \in Seq(CallSet)
        /\ ToSet(work') = {Call("submit", next), Call("disperse", l)} \cup Rest
    <3>1. \A i \in DOMAIN work : work[i].op \in RequestOps => work[i].of # next
      BY <2>4 DEF InWork, ToSet
    <3>2. UNCHANGED <<fini, run>>
      BY <1>2
    <3>3. Stacked'
      BY <1>0, <1>1, <2>1, <2>4, <3>1, <3>2, StackedDisperse
    <3> DEFINE x == Call("submit", next)
               y == Call("disperse", l)
    <3>4. x \in CallSet /\ y \in CallSet /\ Then(<<x, y>>)
      BY <2>1, <2>4, CallTypes DEF RequestOps, LinkOps
    <3> HIDE DEF x, y
    <3>5. work' \in Seq(CallSet) /\ ToSet(work') = {x, y} \cup Rest
      BY <1>0, <1>1, <3>4, ThenTwo, ThenCalls
    <3> QED BY <3>3, <3>5 DEF x, y
  <2>7. /\ queue' \in [Link -> Seq(Request)] /\ Ordered' /\ Matched'
        /\ \A k \in Link : k # l => queue'[k] = queue[k]
        /\ \A k \in Link : Distinct(queue'[k])
        /\ \A j, k \in Link : \A s \in Request :
             s \in ToSet(queue'[j]) /\ s \in ToSet(queue'[k]) => j = k
        /\ ~InQueue(next)'
        /\ \A s \in Request : s # next => (InQueue(s)' <=> InQueue(s))
        /\ \A k \in Link : queue'[k] # <<>> => queue[k] # <<>>
    BY <1>0, <1>2, <2>1, <2>3, <2>4, UnlinkHolds
  <2>8. /\ InWork(next)'
        /\ \A s \in Request : s # next => (InWork(s)' <=> InWork(s))
        /\ \A s \in Request : Committed(s)' <=> Committed(s)
    <3>1. InWork(next)'
      BY <2>6, CallTypes DEF InWork, RequestOps
    <3>2. ASSUME NEW s \in Request, s # next PROVE InWork(s)' <=> InWork(s)
      <4>1. \A x : x.op \in RequestOps /\ x.of = s => (x \in ToSet(work') <=> x \in ToSet(work))
        BY <1>1, <2>6, <3>2, CallTypes DEF RequestOps
      <4> QED BY <4>1 DEF InWork
    <3> QED BY <2>1, <3>1, <3>2 DEF Committed
  <2>9. Unique'
    <3>1. ASSUME NEW s \in Request, InWork(s)'
          PROVE  ~InQueue(s)' /\ ~Committed(s)' /\ future'[s] \in {"none", "pending"}
      <4>1. CASE s = next
        BY <2>1, <2>4, <2>5, <2>7, <2>8, <4>1
      <4>2. CASE s # next
        BY <1>0, <2>1, <2>7, <2>8, <3>1, <4>2 DEF Unique
      <4> QED BY <4>1, <4>2
    <3> QED BY <2>7, <3>1 DEF Unique
  <2>10. ASSUME NEW s \in Request
        PROVE  /\ holder'[s] = "user" <=> future'[s] = "pending"
               /\ holder'[s] = "dummy" => Committed(s)'
               /\ holder'[s] = "none" /\ InQueue(s)' => ~Committed(s)'
               /\ future'[s] = "none" => ~Committed(s)' /\ ~InQueue(s)'
               /\ future'[s] = "pending" => InWork(s)' \/ InQueue(s)'
    <3>1. CASE s = next
      BY <1>0, <2>1, <2>5, <2>7, <2>8, <3>1 DEF Held
    <3>2. CASE s # next
      BY <1>0, <2>1, <2>7, <2>8, <3>2 DEF Held
    <3> QED BY <3>1, <3>2
  <2>11. Held'
    BY <2>10 DEF Held
  <2>12. Owned' /\ Told' /\ Dispersed'
    <3>1. \A x \in ToSet(work) : x.op \in How \cup {"disperse"} => x \in ToSet(work')
      BY <1>1, <2>6
    <3>2. \A k \in Link : Call("disperse", k) \in ToSet(work) => Call("disperse", k) \in ToSet(work')
      BY <3>1, CallTypes
    <3> QED BY <1>0, <1>2, <2>7, <3>1, <3>2, LinksFrame
  <2>13. Aimed'
    <3>1. ASSUME NEW x \in ToSet(work') PROVE x \in ToSet(work) \/ AimedAt(x)'
      <4>1. CASE x = Call("submit", next)
        <5>1. x.op = "submit"
          BY <4>1, CallTypes
        <5> QED BY <5>1 DEF AimedAt, How
      <4>2. CASE x # Call("submit", next)
        BY <1>1, <2>6, <4>2
      <4> QED BY <4>1, <4>2
    <3>2. Linked \subseteq Linked' /\ UNCHANGED <<opInit, opFini, socket>>
      BY <1>2 DEF Linked
    <3> QED BY <1>0, <3>1, <3>2, AimedFrame
  <2>14. Asked'
    BY <1>0, <1>2, <2>1 DEF Asked, Committed
  <2>15. TypeOK'
    BY <1>0, <1>2, <2>1, <2>7 DEF TypeOK
  <2> QED BY <1>4, <2>6, <2>7, <2>9, <2>11, <2>12, <2>13, <2>14, <2>15 DEF IInv
<1>B. ASSUME waiting \cap ToSet(queue[l]) = {} PROVE IInv'
  <2>1. FailTags(ToSet(queue[l])) /\ queue' = [queue EXCEPT ![l] = <<>>] /\ Then(<<>>)
    BY <1>B DEF DisperseCall
  <2>2. Stacked' /\ work' \in Seq(CallSet) /\ ToSet(work') = Rest
    BY <1>0, <1>1, <1>2, <2>1, StackedPop, ThenNothing, ThenCalls
  <2>3. \A s \in Request : InWork(s)' <=> InWork(s)
    <3>1. \A x : x.op \in RequestOps => (x \in ToSet(work') <=> x \in ToSet(work))
      BY <1>1, <2>2, CallTypes DEF RequestOps
    <3> QED BY <3>1 DEF InWork
  <2>4. /\ Unique' /\ Held' /\ unwritten' = unwritten /\ Ordered' /\ Matched'
        /\ future' \in [Request -> {"none", "pending", "value", "error", "canceled",
                               "refused"}]
        /\ holder' \in [Request -> {"none", "user", "dummy"}]
        /\ queue' \in [Link -> Seq(Request)]
    <3> DEFINE T == ToSet(queue[l])
               K == {l}
    <3>1. queue' = [k \in Link |-> IF k \in K THEN <<>> ELSE queue[k]]
      BY <1>0, <2>1 DEF TypeOK
    <3>2. \A k \in Link : Live(k)' => Live(k) /\ k \notin K
      BY <1>2, <1>3 DEF Live
    <3>3. \A r : r \in T <=> \E k \in K : r \in ToSet(queue[k])
      OBVIOUS
    <3>4. K \in SUBSET Link /\ FailTags(T) /\ UNCHANGED <<inbox, wire>>
      BY <1>2, <2>1
    <3> HIDE DEF T, K
    <3> QED BY <1>0, <2>3, <3>1, <3>2, <3>3, <3>4, FailHolds
  <2>5. queue'[l] = <<>> /\ \A k \in Link : k # l => queue'[k] = queue[k]
    BY <1>0, <2>1 DEF TypeOK
  <2>6. Owned' /\ Told' /\ Dispersed'
    <3>1. \A x \in ToSet(work) : x.op \in How => x \in ToSet(work')
      BY <1>1, <2>2, CallTypes DEF How
    <3>2. \A k \in Link : k # l /\ Call("disperse", k) \in ToSet(work)
                            => Call("disperse", k) \in ToSet(work')
      BY <1>1, <2>2, CallTypes
    <3> QED BY <1>0, <1>2, <2>5, <3>1, <3>2, LinksFrame
  <2>7. Aimed'
    <3>1. Linked \subseteq Linked' /\ UNCHANGED <<opInit, opFini, socket>>
      BY <1>2 DEF Linked
    <3> QED BY <1>0, <1>1, <2>2, <3>1, AimedFrame
  <2>8. Asked'
    BY <1>0, <1>2, <2>4 DEF Asked, TypeOK, Committed
  <2>9. TypeOK'
    BY <1>0, <1>2, <2>4 DEF TypeOK
  <2> QED BY <1>4, <2>2, <2>4, <2>6, <2>7, <2>8, <2>9 DEF IInv
<1> QED BY <1>A, <1>B

\* The socket of a link is closed, and the link deleted unless more handlers of
\* it are to be called.
LEMMA ShutHolds ==
  ASSUME TypeOK, Owned, Told, Dispersed, Unique, Held, Emptied, Ordered, Matched, Severed, Asked,
         NEW l \in opFini, NEW pending \in BOOLEAN, Shut(l, pending), queue[l] = <<>>,
         opInit' \subseteq opInit, opWrite' \subseteq opWrite, opRead' \subseteq opRead,
         \A k \in Link : k # l => /\ k \in opInit => k \in opInit'
                                  /\ k \in opWrite => k \in opWrite'
                                  /\ k \in opRead => k \in opRead',
         l \notin opInit', pending <=> l \in opWrite' \cup opRead',
         wire' \in [Link -> Seq(Request)], inbox' \in [Link -> Seq(Request \X Status)],
         \A k \in Link : k # l => wire'[k] = wire[k] /\ inbox'[k] = inbox[k],
         wire'[l] = <<>>, inbox'[l] = <<>>,
         \A x \in ToSet(work) : x.op \in How \cup {"disperse"} /\ x.of # l => x \in ToSet(work'),
         \A x : x.op \in RequestOps => (x \in ToSet(work') <=> x \in ToSet(work)),
         UNCHANGED <<future, holder, unwritten, answered, fini>>
  PROVE  /\ Owned' /\ Told' /\ Dispersed' /\ Unique' /\ Held' /\ Emptied'
         /\ Ordered' /\ Matched' /\ Severed' /\ Asked'
         /\ links' \in Seq(Link) /\ queue' = queue
         /\ socket' \in [Link -> {"none", "connecting", "open", "closing", "closed", "stuck"}]
         /\ opFini' \subseteq opFini
         /\ run' \in {run, "CLOSED"} /\ (~fini => run' = run)
         /\ \A k \in Link : k # l => /\ socket'[k] = socket[k]
                                     /\ k \in opFini => k \in opFini'
                                     /\ k \in Linked => k \in Linked'
<1>1. /\ links \in Seq(Link) /\ queue \in [Link -> Seq(Request)]
      /\ socket \in [Link -> {"none", "connecting", "open", "closing", "closed", "stuck"}]
      /\ opFini \subseteq Link /\ l \in Link /\ Distinct(links)
      /\ wire \in [Link -> Seq(Request)] /\ inbox \in [Link -> Seq(Request \X Status)]
      /\ l \in Linked
  BY DEF TypeOK, Status, Owned
<1>2. queue' = queue
  <2>1. CASE pending
    BY <2>1 DEF Shut
  <2>2. CASE ~pending
    <3>1. queue' = [queue EXCEPT ![l] = <<>>]
      BY <2>2 DEF Shut, Delete
    <3> QED BY <1>1, <3>1
  <2> QED BY <2>1, <2>2
<1>3. /\ socket' \in [Link -> {"none", "connecting", "open", "closing", "closed", "stuck"}]
      /\ socket'[l] = IF pending THEN "closed" ELSE "none"
      /\ \A k \in Link : k # l => socket'[k] = socket[k]
  <2>1. CASE pending
    BY <1>1, <2>1 DEF Shut
  <2>2. CASE ~pending
    BY <1>1, <2>2 DEF Shut, Delete
  <2> QED BY <2>1, <2>2
<1>4. /\ links' \in Seq(Link) /\ Distinct(links')
      /\ Linked' = IF pending THEN Linked ELSE Linked \ {l}
      /\ opFini' = IF pending THEN opFini ELSE opFini \ {l}
  <2>1. CASE pending
    <3>1. links' = links /\ opFini' = opFini
      BY <2>1 DEF Shut
    <3> QED BY <1>1, <2>1, <3>1 DEF Linked
  <2>2. CASE ~pending
    <3>1. links' = Unlink(links, l) /\ opFini' = opFini \ {l}
      BY <2>2 DEF Shut, Delete
    <3>2. l \in ToSet(links)
      BY <1>1 DEF Linked
    <3> QED BY <1>1, <2>2, <3>1, <3>2, UnlinkProperties DEF Linked
  <2> QED BY <2>1, <2>2
<1>5. /\ run' \in {run, "CLOSED"} /\ (~fini => run' = run)
      /\ run' # run => links' = <<>>
  <2>1. CASE pending
    BY <2>1 DEF Shut
  <2>2. CASE ~pending
    BY <2>2 DEF Shut, Delete, FinishPeer
  <2> QED BY <2>1, <2>2
<1>6. Owned'
  <2>1. opInit' \cup opFini' \cup opWrite' \cup opRead' \subseteq Linked'
    BY <1>4 DEF Owned
  <2>2. ASSUME NEW k \in Link, socket'[k] # "none" \/ queue'[k] # <<>> PROVE k \in Linked'
    BY <1>1, <1>2, <1>3, <1>4, <2>2 DEF Owned
  <2> QED BY <1>4, <2>1, <2>2 DEF Owned
<1>7. Told'
  <2>1. ASSUME NEW k \in Link
        PROVE  /\ k \in opInit' => socket'[k] \in {"connecting", "closing", "stuck"}
               /\ k \in opWrite' \cup opRead' => socket'[k] # "none"
               /\ socket'[k] \in {"closing", "stuck"} => k \in opFini'
               /\ k \in opFini' => \/ socket'[k] \in {"closing", "stuck"}
                                   \/ socket'[k] = "closed" /\ k \in opWrite' \cup opRead'
                                   \/ \E x \in ToSet(work') : x.op \in How /\ x.of = k
    <3>1. CASE k = l
      BY <1>3, <1>4, <3>1
    <3>2. CASE k # l
      BY <1>3, <1>4, <3>2 DEF Told
    <3> QED BY <3>1, <3>2
  <2> QED BY <2>1 DEF Told
<1>8. Dispersed'
  <2>1. ASSUME NEW k \in opFini', queue'[k] # <<>> PROVE Call("disperse", k) \in ToSet(work')
    <3>1. k \in opFini /\ k # l /\ Call("disperse", k) \in ToSet(work)
      BY <1>2, <1>4, <2>1 DEF Dispersed
    <3> QED BY <3>1, CallTypes
  <2> QED BY <2>1 DEF Dispersed
<1>9. Unique' /\ Held' /\ Emptied'
  <2>1. run' # run => \A k \in Link : queue[k] = <<>>
    <3>1. ASSUME run' # run PROVE Linked' = {}
      BY <1>5, <3>1 DEF Linked, ToSet
    <3> QED BY <1>2, <1>6, <3>1 DEF Owned
  <2>2. run' \in {"RUN", "QUIT"} \/ run \notin {"RUN", "QUIT"} \/ \A k \in Link : queue[k] = <<>>
    BY <2>1
  <2> QED BY <1>2, <2>2, TagsFrame DEF Committed
<1>10. Severed'
  <2>1. ASSUME NEW k \in Link, socket'[k] # "open" PROVE wire'[k] = <<>> /\ inbox'[k] = <<>>
    BY <1>3, <2>1 DEF Severed
  <2> QED BY <2>1 DEF Severed
<1>11. \A k \in Link : PipedAt(k)
  BY <1>1, PipedIs
<1>12. Revealed' = Revealed
  BY DEF Revealed, Committed
<1>13. ASSUME NEW k \in Link
       PROVE  Piped(queue'[k], inbox'[k], wire'[k], Revealed', Live(k)')
  <2>1. CASE k = l
    <3>1. Live(k)' \in BOOLEAN /\ queue'[k] = <<>> /\ inbox'[k] = <<>> /\ wire'[k] = <<>>
      BY <1>2, <2>1 DEF Live
    <3> DEFINE live == Live(k)'
               C == Revealed'
    <3> HIDE DEF live, C
    <3>2. Piped(<<>>, <<>>, <<>>, C, live)
      BY <3>1, PipedEmpty DEF live
    <3> QED BY <3>1, <3>2 DEF live, C
  <2>2. CASE k # l
    <3>1. Live(k)' => Live(k)
      BY <1>4, <1>5, <2>2 DEF Live
    <3> QED BY <1>1, <1>2, <1>11, <1>12, <2>2, <3>1, PipedKept
  <2> QED BY <2>1, <2>2
<1>14. Ordered' /\ Matched'
  BY <1>1, <1>2, <1>13, PipedNext
<1>15. Asked'
  <2>1. ASSUME NEW k \in Link
        PROVE  /\ wire'[k] = wire[k] \/ wire'[k] = <<>>
               /\ inbox'[k] = inbox[k] \/ inbox'[k] = <<>>
               /\ Distinct(wire'[k]) /\ ToSet(wire'[k]) \subseteq ToSet(wire[k])
    <3>1. Distinct(<<>>) /\ ToSet(<<>>) = {}
      BY DEF Distinct, ToSet
    <3> QED BY <3>1 DEF Asked
  <2>2. \A r : Committed(r)' <=> Committed(r)
    BY DEF Committed
  <2>3. ASSUME NEW k \in Link, NEW i \in DOMAIN inbox'[k] PROVE inbox'[k][i][1] \in answered
    <3>1. inbox'[k] # <<>>
      BY <2>3
    <3>2. inbox'[k] = inbox[k]
      BY <2>1, <3>1
    <3> QED BY <3>2 DEF Asked
  <2>4. ASSUME NEW j \in Link, NEW k \in Link, NEW r \in Request,
               r \in ToSet(wire'[j]), r \in ToSet(wire'[k])
        PROVE  j = k
    BY <2>1, <2>4 DEF Asked
  <2>5. ASSUME NEW k \in Link, NEW r \in ToSet(wire'[k]) PROVE Committed(r)' /\ r \notin answered
    BY <2>1, <2>2, <2>5 DEF Asked
  <2> QED BY <2>1, <2>2, <2>3, <2>4, <2>5 DEF Asked
<1>16. \A k \in Link : k # l => /\ k \in opFini => k \in opFini'
                                /\ k \in Linked => k \in Linked'
  BY <1>4
<1>17. opFini' \subseteq opFini
  BY <1>4
<1> QED BY <1>2, <1>3, <1>4, <1>5, <1>6, <1>7, <1>8, <1>9, <1>10, <1>14, <1>15, <1>16, <1>17

LEMMA AbortHolds ==
  ASSUME IInv, ~Idle, NEW l \in Link, AbortCall(l) PROVE IInv'
<1>0. TypeOK /\ work \in Seq(CallSet) /\ Stacked /\ Aimed /\ Owned /\ Told /\ Dispersed
      /\ Unique /\ Held /\ Emptied /\ Ordered /\ Matched /\ Severed /\ Asked
  BY DEF IInv
<1>1. /\ work # <<>> /\ work[1] = Call("abort", l)
      /\ work[1].op = "abort" /\ work[1].of = l
      /\ ToSet(work) = {Call("abort", l)} \cup Rest /\ Rest \subseteq CallSet
      /\ AimedAt(Call("abort", l)) /\ \A y \in Rest : AimedAt(y)
  BY <1>0, Working DEF AbortCall
<1> DEFINE pending == socket[l] # "none" /\ Pending(l)
<1>2. /\ UNCHANGED <<future, holder, unwritten, opInit, opWrite, opRead, answered, faults>>
      /\ UNCHANGED <<opResolve, fini, remote, expired, err, closing>>
      /\ Then(<<>>) /\ Shut(l, pending)
      /\ wire' = [wire EXCEPT ![l] = <<>>] /\ inbox' = [inbox EXCEPT ![l] = <<>>]
  BY DEF AbortCall, requests, Sever
<1>3. l \in opFini /\ l \notin opInit
  BY <1>1, CallTypes DEF AimedAt, How
<1>4. pending <=> l \in opWrite \cup opRead
  BY <1>0, <1>3 DEF Told, Pending
<1>5. /\ \A x \in Rest : x.op \notin Alone
      /\ \A x \in Rest : x.of = l => x.op \notin How \cup {"close", "disperse"}
  BY <1>0, <1>1, HeadFacts DEF How
<1>6. queue[l] = <<>>
  <2>1. Call("disperse", l) \notin ToSet(work)
    BY <1>1, <1>5, CallTypes
  <2> QED BY <1>0, <1>3, <2>1 DEF Dispersed
<1>7. work' \in Seq(CallSet) /\ ToSet(work') = Rest
  BY <1>0, <1>1, <1>2, ThenNothing, ThenCalls
<1>8. /\ wire' \in [Link -> Seq(Request)] /\ inbox' \in [Link -> Seq(Request \X Status)]
      /\ \A k \in Link : k # l => wire'[k] = wire[k] /\ inbox'[k] = inbox[k]
      /\ wire'[l] = <<>> /\ inbox'[l] = <<>>
  <2>1. wire \in [Link -> Seq(Request)] /\ inbox \in [Link -> Seq(Request \X Status)]
    BY <1>0 DEF TypeOK, Status
  <2>2. <<>> \in Seq(Request) /\ <<>> \in Seq(Request \X Status)
    OBVIOUS
  <2> QED BY <1>2, <2>1, <2>2
<1>9. /\ Owned' /\ Told' /\ Dispersed' /\ Unique' /\ Held' /\ Emptied'
      /\ Ordered' /\ Matched' /\ Severed' /\ Asked'
      /\ links' \in Seq(Link) /\ queue' = queue
      /\ socket' \in [Link -> {"none", "connecting", "open", "closing", "closed", "stuck"}]
      /\ opFini' \subseteq opFini
      /\ run' \in {run, "CLOSED"} /\ (~fini => run' = run)
      /\ \A k \in Link : k # l => /\ socket'[k] = socket[k]
                                  /\ k \in opFini => k \in opFini'
                                  /\ k \in Linked => k \in Linked'
  <2>1. pending \in BOOLEAN
    OBVIOUS
  <2>2. \A x \in ToSet(work) : x.op \in How \cup {"disperse"} /\ x.of # l => x \in ToSet(work')
    BY <1>1, <1>7, CallTypes
  <2>3. \A x : x.op \in RequestOps => (x \in ToSet(work') <=> x \in ToSet(work))
    BY <1>1, <1>7, CallTypes DEF RequestOps
  <2> HIDE DEF pending
  <2> QED BY <1>0, <1>2, <1>3, <1>4, <1>6, <1>8, <2>1, <2>2, <2>3, ShutHolds
<1>10. Stacked'
  BY <1>0, <1>1, <1>2, <1>9, StackedPop
<1>11. Aimed'
  <2>1. ASSUME NEW x \in Rest PROVE AimedAt(x)'
    <3>1. AimedAt(x) /\ x.op \notin Alone /\ (x.of = l => x.op \notin How \cup {"close"})
      BY <1>1, <1>5
    <3>2. x.op \in How \cup {"close"} => x.of \in Link /\ x.of # l
      BY <1>1, <3>1, CallTypes DEF How, LinkOps
    <3> QED BY <1>2, <1>9, <3>1, <3>2 DEF AimedAt, Alone, How
  <2> QED BY <1>7, <2>1 DEF Aimed
<1>12. TypeOK'
  BY <1>0, <1>2, <1>8, <1>9 DEF TypeOK, Status
<1> QED BY <1>7, <1>9, <1>10, <1>11, <1>12 DEF IInv

\* What was on its way on a link that is closed is lost.
LEMMA SeverHolds ==
  ASSUME TypeOK, Ordered, Matched, Severed, Asked, NEW l \in Link, Sever(l), l \in opFini',
         UNCHANGED <<queue, unwritten, answered, run>>, opFini \subseteq opFini',
         \A k \in Link : k # l => socket'[k] = socket[k]
  PROVE  /\ Ordered' /\ Matched' /\ Severed' /\ Asked'
         /\ wire' \in [Link -> Seq(Request)]
         /\ inbox' \in [Link -> Seq(Request \X Status)]
<1>1. /\ wire \in [Link -> Seq(Request)] /\ inbox \in [Link -> Seq(Request \X Status)]
      /\ queue \in [Link -> Seq(Request)]
  BY DEF TypeOK, Status
<1>2. <<>> \in Seq(Request) /\ <<>> \in Seq(Request \X Status)
  OBVIOUS
<1>3. /\ wire' \in [Link -> Seq(Request)] /\ inbox' \in [Link -> Seq(Request \X Status)]
      /\ wire'[l] = <<>> /\ inbox'[l] = <<>>
      /\ \A k \in Link : k # l => wire'[k] = wire[k] /\ inbox'[k] = inbox[k]
  BY <1>1, <1>2 DEF Sever
<1>4. Severed'
  <2>1. ASSUME NEW k \in Link, socket'[k] # "open" PROVE wire'[k] = <<>> /\ inbox'[k] = <<>>
    BY <1>3, <2>1 DEF Severed
  <2> QED BY <2>1 DEF Severed
<1>5. \A k \in Link : PipedAt(k)
  BY <1>1, PipedIs
<1>6. Revealed' = Revealed
  BY DEF Revealed, Committed
<1>7. ASSUME NEW k \in Link
       PROVE  Piped(queue'[k], inbox'[k], wire'[k], Revealed', Live(k)')
  <2>1. CASE k = l
    <3> DEFINE C == Revealed
               D == Revealed'
               live == Live(l)
               alive == Live(l)'
    <3>1. live \in BOOLEAN /\ alive \in BOOLEAN /\ ~alive /\ D = C
      BY <1>6 DEF Live
    <3>2. Piped(queue[l], inbox[l], wire[l], C, live)
      BY <1>5 DEF PipedAt
    <3> HIDE DEF C, D, live, alive
    <3>3. Piped(queue[l], inbox'[l], wire'[l], D, alive)
      BY <3>1, <3>2 DEF Piped
    <3> QED BY <2>1, <3>3 DEF D, alive
  <2>2. CASE k # l
    <3>1. Live(k)' => Live(k)
      BY DEF Live
    <3> QED BY <1>1, <1>3, <1>5, <1>6, <2>2, <3>1, PipedKept
  <2> QED BY <2>1, <2>2
<1>8. Ordered' /\ Matched'
  BY <1>1, <1>7, PipedNext
<1>9. Asked'
  <2>1. ASSUME NEW k \in Link
        PROVE  /\ wire'[k] = wire[k] \/ wire'[k] = <<>>
               /\ inbox'[k] = inbox[k] \/ inbox'[k] = <<>>
               /\ Distinct(wire'[k]) /\ ToSet(wire'[k]) \subseteq ToSet(wire[k])
    <3>1. Distinct(<<>>) /\ ToSet(<<>>) = {}
      BY DEF Distinct, ToSet
    <3>2. Distinct(wire[k])
      BY DEF Asked
    <3> QED BY <1>3, <3>1, <3>2
  <2>2. \A r : Committed(r)' <=> Committed(r)
    BY DEF Committed
  <2>3. ASSUME NEW k \in Link, NEW i \in DOMAIN inbox'[k] PROVE inbox'[k][i][1] \in answered
    <3>1. inbox'[k] # <<>>
      BY <2>3
    <3>2. inbox'[k] = inbox[k]
      BY <2>1, <3>1
    <3> QED BY <3>2 DEF Asked
  <2>4. ASSUME NEW j \in Link, NEW k \in Link, NEW r \in Request,
               r \in ToSet(wire'[j]), r \in ToSet(wire'[k])
        PROVE  j = k
    BY <2>1, <2>4 DEF Asked
  <2>5. ASSUME NEW k \in Link, NEW r \in ToSet(wire'[k]) PROVE Committed(r)' /\ r \notin answered
    BY <2>1, <2>2, <2>5 DEF Asked
  <2> QED BY <2>1, <2>2, <2>3, <2>4, <2>5 DEF Asked
<1> QED BY <1>3, <1>4, <1>8, <1>9

LEMMA NotifyHolds ==
  ASSUME IInv, ~Idle, NEW l \in Link, NotifyCall(l) PROVE IInv'
<1>0. TypeOK /\ work \in Seq(CallSet) /\ Stacked /\ Aimed /\ Owned /\ Told /\ Dispersed
      /\ Unique /\ Held /\ Emptied /\ Ordered /\ Matched /\ Severed /\ Asked
  BY DEF IInv
<1>1. /\ work # <<>> /\ work[1] = Call("notify", l)
      /\ work[1].op = "notify" /\ work[1].of = l
      /\ ToSet(work) = {Call("notify", l)} \cup Rest /\ Rest \subseteq CallSet
      /\ AimedAt(Call("notify", l)) /\ \A y \in Rest : AimedAt(y)
  BY <1>0, Working DEF NotifyCall
<1>2. /\ UNCHANGED <<future, holder, unwritten, links, queue>>
      /\ UNCHANGED <<opInit, opFini, opWrite, opRead, answered, faults>>
      /\ UNCHANGED <<opResolve, fini, remote, expired, err, closing, run>>
      /\ Sever(l)
      /\ IF socket[l] \in {"connecting", "open"}
         THEN socket' = [socket EXCEPT ![l] = "closing"] /\ Then(<<>>)
         ELSE Then(<<Call("abort", l)>>) /\ UNCHANGED socket
  BY DEF NotifyCall, requests, ops, peer, conns
<1>3. l \in opFini /\ socket[l] \notin {"closing", "stuck"}
  BY <1>1, CallTypes DEF AimedAt, How
<1>4. /\ \A x \in Rest : x.op \notin Alone
      /\ \A x \in Rest : x.of = l => x.op \notin How \cup {"close", "disperse"}
  BY <1>0, <1>1, HeadFacts DEF How
<1>5. Linked' = Linked
  BY <1>2 DEF Linked
<1>6. \A k \in Link : k # l => socket'[k] = socket[k]
  BY <1>0, <1>2 DEF TypeOK
<1>7. /\ Ordered' /\ Matched' /\ Severed' /\ Asked'
      /\ wire' \in [Link -> Seq(Request)] /\ inbox' \in [Link -> Seq(Request \X Status)]
  BY <1>0, <1>2, <1>3, <1>6, SeverHolds
<1>A. ASSUME socket[l] \in {"connecting", "open"} PROVE IInv'
  <2>1. Then(<<>>) /\ socket' = [socket EXCEPT ![l] = "closing"]
    BY <1>2, <1>A
  <2>2. Stacked' /\ work' \in Seq(CallSet) /\ ToSet(work') = Rest
    BY <1>0, <1>1, <1>2, <2>1, StackedPop, ThenNothing, ThenCalls
  <2>3. /\ socket' \in [Link -> {"none", "connecting", "open", "closing", "closed", "stuck"}]
        /\ socket'[l] = "closing"
    BY <1>0, <2>1 DEF TypeOK
  <2>4. Aimed'
    <3>1. ASSUME NEW x \in Rest PROVE AimedAt(x)'
      <4>1. AimedAt(x) /\ x.op \notin Alone /\ (x.op \in How => x.of # l /\ x.of \in Link)
        BY <1>1, <1>4, CallTypes DEF How, LinkOps
      <4> QED BY <1>2, <1>5, <1>6, <4>1 DEF AimedAt, Alone, How
    <3> QED BY <2>2, <3>1 DEF Aimed
  <2>5. Owned'
    <3>1. ASSUME NEW k \in Link, socket'[k] # "none" \/ queue'[k] # <<>> PROVE k \in Linked'
      BY <1>0, <1>2, <1>3, <1>5, <1>6, <3>1 DEF Owned
    <3> QED BY <1>0, <1>2, <1>5, <3>1 DEF Owned
  <2>6. Told'
    <3>1. ASSUME NEW k \in Link
          PROVE  /\ k \in opInit' => socket'[k] \in {"connecting", "closing", "stuck"}
                 /\ k \in opWrite' \cup opRead' => socket'[k] # "none"
                 /\ socket'[k] \in {"closing", "stuck"} => k \in opFini'
                 /\ k \in opFini' => \/ socket'[k] \in {"closing", "stuck"}
                                     \/ socket'[k] = "closed" /\ k \in opWrite' \cup opRead'
                                     \/ \E x \in ToSet(work') : x.op \in How /\ x.of = k
      <4>1. CASE k = l
        BY <1>2, <1>3, <2>3, <4>1
      <4>2. CASE k # l
        <5>1. \A x \in ToSet(work) : x.op \in How /\ x.of = k => x \in ToSet(work')
          BY <1>1, <2>2, <4>2, CallTypes
        <5> QED BY <1>0, <1>2, <1>6, <4>2, <5>1 DEF Told
      <4> QED BY <4>1, <4>2
    <3> QED BY <3>1 DEF Told
  <2>7. Dispersed'
    <3>1. \A k \in Link : Call("disperse", k) \in ToSet(work) => Call("disperse", k) \in ToSet(work')
      BY <1>1, <2>2, CallTypes
    <3> QED BY <1>0, <1>2, <3>1 DEF Dispersed, TypeOK
  <2>8. Unique' /\ Held' /\ Emptied'
    <3>1. \A x : x.op \in RequestOps => (x \in ToSet(work') <=> x \in ToSet(work))
      BY <1>1, <2>2, CallTypes DEF RequestOps
    <3> QED BY <1>0, <1>2, <3>1, TagsFrame DEF Committed
  <2>9. TypeOK'
    BY <1>0, <1>2, <1>7, <2>3 DEF TypeOK, Status
  <2> QED BY <1>7, <2>2, <2>4, <2>5, <2>6, <2>7, <2>8, <2>9 DEF IInv
<1>B. ASSUME socket[l] \notin {"connecting", "open"} PROVE IInv'
  <2>1. Then(<<Call("abort", l)>>) /\ socket' = socket
    BY <1>2, <1>B
  <2> DEFINE x == Call("abort", l)
  <2>2. x \in CallSet /\ x.op = "abort" /\ x.of = l /\ Then(<<x>>)
    BY <2>1, CallTypes DEF LinkOps
  <2>3. AimedAt(x)'
    <3>1. l \notin opInit
      BY <1>0, <1>3, <1>B DEF Told
    <3> QED BY <1>2, <1>3, <2>1, <2>2, <3>1 DEF AimedAt, How
  <2> HIDE DEF x
  <2>4. Stacked' /\ work' \in Seq(CallSet) /\ ToSet(work') = {x} \cup Rest
    <3>1. work[1].op \in How
      BY <1>1 DEF How
    <3>2. Stacked'
      BY <1>0, <1>1, <1>2, <2>2, <3>1, StackedReplace
    <3> QED BY <1>0, <1>1, <2>2, <3>2, ThenOne, ThenCalls
  <2>5. Aimed'
    <3>1. ASSUME NEW y \in ToSet(work') PROVE y \in ToSet(work) \/ AimedAt(y)'
      BY <1>1, <2>3, <2>4
    <3> QED BY <1>0, <1>2, <1>5, <2>1, <3>1, AimedFrame
  <2>6. Owned'
    BY <1>0, <1>2, <1>5, <2>1 DEF Owned
  <2>7. Told'
    <3>1. ASSUME NEW k \in Link, \E y \in ToSet(work) : y.op \in How /\ y.of = k
          PROVE  \E y \in ToSet(work') : y.op \in How /\ y.of = k
      <4>1. CASE k = l
        BY <2>2, <2>4, <4>1 DEF How
      <4>2. CASE k # l
        BY <1>1, <2>4, <3>1, <4>2, CallTypes
      <4> QED BY <4>1, <4>2
    <3> QED BY <1>0, <1>2, <2>1, <3>1 DEF Told
  <2>8. Dispersed'
    <3>1. \A k \in Link : Call("disperse", k) \in ToSet(work) => Call("disperse", k) \in ToSet(work')
      BY <1>1, <2>4, CallTypes
    <3> QED BY <1>0, <1>2, <3>1 DEF Dispersed, TypeOK
  <2>9. Unique' /\ Held' /\ Emptied'
    <3>1. \A y : y.op \in RequestOps => (y \in ToSet(work') <=> y \in ToSet(work))
      BY <1>1, <2>2, <2>4, CallTypes DEF RequestOps
    <3> QED BY <1>0, <1>2, <3>1, TagsFrame DEF Committed
  <2>10. TypeOK'
    BY <1>0, <1>2, <1>7, <2>1 DEF TypeOK, Status
  <2> QED BY <1>7, <2>4, <2>5, <2>6, <2>7, <2>8, <2>9, <2>10 DEF IInv
<1> QED BY <1>A, <1>B

LEMMA CloseHolds ==
  ASSUME IInv, ~Idle, NEW l \in Link, NEW op, NEW how,
         (op = "close" /\ how = "notify") \/ (op = "reset" /\ how = "abort"),
         CloseCall(l, op, how)
  PROVE  IInv'
<1>0. TypeOK /\ work \in Seq(CallSet) /\ Stacked /\ Aimed /\ Owned /\ Told /\ Dispersed
      /\ Unique /\ Held /\ Emptied /\ Ordered /\ Matched /\ Severed /\ Asked
  BY DEF IInv
<1>1. /\ work # <<>> /\ work[1] = Call(op, l)
      /\ work[1].op = op /\ work[1].of = l
      /\ ToSet(work) = {Call(op, l)} \cup Rest /\ Rest \subseteq CallSet
      /\ AimedAt(Call(op, l)) /\ \A y \in Rest : AimedAt(y)
  BY <1>0, Working DEF CloseCall
<1>2. /\ UNCHANGED <<future, holder, unwritten, links, queue, socket>>
      /\ UNCHANGED <<opInit, opWrite, opRead, wire, inbox, answered, faults>>
      /\ UNCHANGED <<opResolve, fini, remote, expired, err, closing, run>>
      /\ opFini' = opFini \cup {l}
      /\ Then(IF l \in opFini THEN <<>> ELSE <<Call("disperse", l), Call(how, l)>>)
  BY DEF CloseCall, requests, conns, peer, net
<1>3. l \in Linked /\ (how = "abort" => l \notin opInit) /\ Linked' = Linked
  BY <1>1, <1>2, CallTypes DEF AimedAt, Linked
<1>4. /\ \A x \in Rest : x.op \notin Alone
      /\ \A x \in Rest : x.of = l => x.op # "close"
  <2>1. CASE op = "close"
    BY <1>0, <1>1, <2>1, HeadFacts
  <2>2. CASE op = "reset"
    BY <1>0, <1>1, <2>2, HeadFacts DEF Alone
  <2> QED BY <2>1, <2>2
<1>5. Ordered' /\ Matched' /\ Severed' /\ Asked'
  BY <1>0, <1>2, PipesFrame DEF TypeOK
<1>6. TypeOK'
  BY <1>0, <1>2 DEF TypeOK
<1>7. /\ Stacked' /\ work' \in Seq(CallSet) /\ Rest \subseteq ToSet(work')
      /\ l \notin opFini => Call("disperse", l) \in ToSet(work') /\ Call(how, l) \in ToSet(work')
      /\ \A x \in ToSet(work') : \/ x \in Rest
                                 \/ x = Call("disperse", l)
                                 \/ l \notin opFini /\ x = Call(how, l)
  <2>1. CASE l \in opFini
    <3>1. Then(<<>>)
      BY <1>2, <2>1
    <3> QED BY <1>0, <1>1, <1>2, <2>1, <3>1, StackedPop, ThenNothing, ThenCalls
  <2>2. CASE l \notin opFini
    <3> DEFINE x == Call("disperse", l)
               y == Call(how, l)
    <3>1. x \in CallSet /\ y \in CallSet /\ Then(<<x, y>>) /\ how \in How
      BY <1>2, <2>2, CallTypes DEF LinkOps, How
    <3>2. \A i \in DOMAIN work : i # 1 /\ work[i].of = l => work[i].op \notin How \cup {"close"}
      <4>1. \A z \in Rest : z.of = l => z.op \notin How \cup {"close"}
        BY <1>1, <1>4, <2>2 DEF AimedAt
      <4> QED BY <1>0, <1>1, <4>1, RestIs
    <3>3. Stacked'
      BY <1>0, <1>1, <1>2, <3>1, <3>2, StackedClose
    <3> HIDE DEF x, y
    <3>4. work' \in Seq(CallSet) /\ ToSet(work') = {x, y} \cup Rest
      BY <1>0, <1>1, <3>1, ThenTwo, ThenCalls
    <3> QED BY <2>2, <3>3, <3>4 DEF x, y
  <2> QED BY <2>1, <2>2
<1>8. Aimed'
  <2>1. ASSUME NEW x \in Rest PROVE AimedAt(x)'
    <3>1. AimedAt(x) /\ x.op \notin Alone
      BY <1>1, <1>4
    <3> QED BY <1>2, <1>3, <3>1 DEF AimedAt, Alone
  <2>2. ASSUME NEW x, x = Call("disperse", l) PROVE AimedAt(x)'
    <3>1. x.op = "disperse"
      BY <2>2, CallTypes
    <3> QED BY <3>1 DEF AimedAt, How
  <2>3. ASSUME NEW x, l \notin opFini, x = Call(how, l) PROVE AimedAt(x)'
    <3>1. x.op = how /\ x.of = l
      BY <2>3, CallTypes
    <3>2. l \in opFini' /\ socket[l] \notin {"closing", "stuck"}
      BY <1>0, <1>2, <1>3, <2>3 DEF Told, TypeOK, Linked, ToSet
    <3> QED BY <1>2, <1>3, <3>1, <3>2 DEF AimedAt
  <2> QED BY <1>7, <2>1, <2>2, <2>3 DEF Aimed
<1>9. Owned'
  BY <1>0, <1>2, <1>3 DEF Owned
<1>10. Told'
  <2>1. ASSUME NEW k \in Link, k \in opFini'
        PROVE  \/ socket[k] \in {"closing", "stuck"}
               \/ socket[k] = "closed" /\ k \in opWrite \cup opRead
               \/ \E x \in ToSet(work') : x.op \in How /\ x.of = k
    <3>1. CASE k \in opFini
      <4>1. op \notin How
        BY DEF How
      <4> QED BY <1>0, <1>1, <1>7, <3>1, <4>1, CallTypes DEF Told
    <3>2. CASE k \notin opFini
      <4>1. k = l /\ Call(how, l).op = how /\ Call(how, l).of = l /\ how \in How
        BY <1>2, <2>1, <3>2, CallTypes DEF How
      <4> QED BY <1>7, <3>2, <4>1
    <3> QED BY <3>1, <3>2
  <2> QED BY <1>0, <1>2, <2>1 DEF Told
<1>11. Dispersed'
  <2>1. ASSUME NEW k \in opFini', queue'[k] # <<>> PROVE Call("disperse", k) \in ToSet(work')
    <3>1. CASE k \in opFini
      <4>1. Call("disperse", k) \in ToSet(work)
        BY <1>0, <1>2, <2>1, <3>1 DEF Dispersed
      <4> QED BY <1>1, <1>7, <4>1, CallTypes
    <3>2. CASE k \notin opFini
      BY <1>2, <1>7, <2>1, <3>2
    <3> QED BY <3>1, <3>2
  <2> QED BY <2>1 DEF Dispersed
<1>12. Unique' /\ Held' /\ Emptied'
  <2>1. \A x : x.op \in RequestOps => (x \in ToSet(work') <=> x \in ToSet(work))
    BY <1>1, <1>7, CallTypes DEF RequestOps
  <2> QED BY <1>0, <1>2, <2>1, TagsFrame DEF Committed
<1> QED BY <1>5, <1>6, <1>7, <1>8, <1>9, <1>10, <1>11, <1>12 DEF IInv

\* A step changes no link, tag or pipe; the calls it leaves are no request's,
\* no close's and no handler's of a link.
LEMMA PeerFrame ==
  ASSUME TypeOK, Owned, Told, Dispersed, Unique, Held, Emptied, Ordered, Matched, Severed, Asked,
         UNCHANGED <<future, holder, unwritten, links, queue, socket, opInit, opFini, opWrite,
                     opRead, wire, inbox, answered>>,
         \A x \in ToSet(work) : x.op \in How \cup {"disperse"} => x \in ToSet(work'),
         \A x : x.op \in RequestOps => (x \in ToSet(work') <=> x \in ToSet(work)),
         run' = run \/ (run = "RUN" /\ run' = "QUIT") \/ \A l \in Link : queue[l] = <<>>,
         run' \in {"RUN", "QUIT"} => run \in {"RUN", "QUIT"}
  PROVE  /\ Owned' /\ Told' /\ Dispersed' /\ Unique' /\ Held' /\ Emptied'
         /\ Ordered' /\ Matched' /\ Severed' /\ Asked'
<1>1. \A l \in Link : Call("disperse", l) \in ToSet(work) => Call("disperse", l) \in ToSet(work')
  BY CallTypes
<1>2. Owned' /\ Told' /\ Dispersed'
  BY <1>1, LinksFrame
<1>3. run' \in {"RUN", "QUIT"} \/ run \notin {"RUN", "QUIT"} \/ \A l \in Link : queue[l] = <<>>
  OBVIOUS
<1>4. Unique' /\ Held' /\ Emptied'
  BY <1>3, TagsFrame DEF Committed
<1>5. Ordered' /\ Matched' /\ Severed' /\ Asked'
  BY PipesFrame DEF TypeOK
<1> QED BY <1>2, <1>4, <1>5

LEMMA ClosePeerHolds ==
  ASSUME IInv, ~Idle, ClosePeerCall PROVE IInv'
<1>0. TypeOK /\ work \in Seq(CallSet) /\ Stacked /\ Aimed /\ Owned /\ Told /\ Dispersed
      /\ Unique /\ Held /\ Emptied /\ Ordered /\ Matched /\ Severed /\ Asked
  BY DEF IInv
<1>1. /\ work # <<>> /\ work[1].op = "closepeer" /\ ToSet(work) = {work[1]} \cup Rest
      /\ Rest = {}
  <2>1. work # <<>> /\ Head(work) = work[1]
    BY <1>0, HeadCall
  <2>2. work[1].op = "closepeer" /\ "closepeer" \in Alone
    BY <2>1 DEF ClosePeerCall, Calling, Alone
  <2> QED BY <1>0, <2>1, <2>2, HeadFacts, ThenCalls
<1>2. /\ UNCHANGED <<future, holder, unwritten, links, queue, socket>>
      /\ UNCHANGED <<opInit, opFini, opWrite, opRead, wire, inbox, answered, faults>>
      /\ UNCHANGED <<opResolve, remote, expired, err, closing, run>>
      /\ fini' = TRUE
      /\ Then(IF fini THEN <<>>
              ELSE [i \in DOMAIN links |-> Call("close", links[i])] \o <<Call("finished", "peer")>>)
  BY DEF ClosePeerCall, requests, conns, ops, net
<1>3. /\ Stacked' /\ work' \in Seq(CallSet)
      /\ \A x \in ToSet(work') : x.op = "finished" \/ (x.op = "close" /\ x.of \in Linked)
  <2>1. CASE fini
    <3>1. Then(<<>>)
      BY <1>2, <2>1
    <3>2. ToSet(work') = {} /\ work' \in Seq(CallSet)
      BY <1>0, <1>1, <3>1, ThenNothing, ThenCalls
    <3>3. DOMAIN work' = {}
      BY <3>2 DEF ToSet
    <3> QED BY <3>2, <3>3 DEF Stacked
  <2>2. CASE ~fini
    <3> DEFINE c == [i \in DOMAIN links |-> Call("close", links[i])] \o <<Call("finished", "peer")>>
    <3>1. links \in Seq(Link) /\ Distinct(links)
      BY <1>0 DEF TypeOK, Owned
    <3>2. Then(c)
      BY <1>2, <2>2
    <3>3. c \in Seq(CallSet)
      <4>1. [i \in DOMAIN links |-> Call("close", links[i])] \in Seq(CallSet)
        <5>1. Len(links) \in Nat /\ DOMAIN links = 1..Len(links)
          BY <3>1, LenProperties
        <5>2. \A i \in 1..Len(links) : Call("close", links[i]) \in CallSet
          BY <3>1, <5>1, CallTypes DEF LinkOps
        <5> QED BY <5>1, <5>2
      <4>2. <<Call("finished", "peer")>> \in Seq(CallSet)
        BY CallTypes
      <4> QED BY <4>1, <4>2, ConcatProperties
    <3>4. work' = c
      <4>1. Tail(work) = <<>>
        <5>1. Tail(work) \in Seq(CallSet)
          BY <1>0, <1>1, HeadTailProperties
        <5>2. DOMAIN Tail(work) = {}
          BY <1>1 DEF Rest, ToSet
        <5> QED BY <5>1, <5>2, LenProperties, EmptySeq
      <4> HIDE DEF c
      <4>2. c \o <<>> = c
        BY <3>3
      <4> QED BY <3>2, <4>1, <4>2 DEF Then
    <3> QED BY <1>2, <3>1, <3>4, StackedPeer
  <2> QED BY <2>1, <2>2
<1>4. Linked' = Linked
  BY <1>2 DEF Linked
<1>5. Aimed'
  <2>1. ASSUME NEW x \in ToSet(work') PROVE AimedAt(x)'
    BY <1>3, <1>4 DEF AimedAt, How
  <2> QED BY <2>1 DEF Aimed
<1>6. /\ Owned' /\ Told' /\ Dispersed' /\ Unique' /\ Held' /\ Emptied'
      /\ Ordered' /\ Matched' /\ Severed' /\ Asked'
  <2>1. \A x \in ToSet(work) : x.op \notin How \cup {"disperse"} \cup RequestOps
    BY <1>1 DEF How, RequestOps
  <2>2. \A x \in ToSet(work') : x.op \notin RequestOps
    BY <1>3 DEF RequestOps
  <2> QED BY <1>0, <1>2, <2>1, <2>2, PeerFrame
<1>7. TypeOK'
  BY <1>0, <1>2 DEF TypeOK
<1> QED BY <1>3, <1>5, <1>6, <1>7 DEF IInv

LEMMA FinishedHolds ==
  ASSUME IInv, ~Idle, FinishedCall PROVE IInv'
<1>0. TypeOK /\ work \in Seq(CallSet) /\ Stacked /\ Aimed /\ Owned /\ Told /\ Dispersed
      /\ Unique /\ Held /\ Emptied /\ Ordered /\ Matched /\ Severed /\ Asked
  BY DEF IInv
<1>1. /\ work # <<>> /\ work[1].op = "finished" /\ ToSet(work) = {work[1]} \cup Rest
  <2>1. work # <<>> /\ Head(work) = work[1]
    BY <1>0, HeadCall
  <2> QED BY <1>0, <2>1, ThenCalls DEF FinishedCall, Calling
<1>2. /\ UNCHANGED <<future, holder, unwritten, links, queue, socket>>
      /\ UNCHANGED <<opInit, opFini, opWrite, opRead, wire, inbox, answered, faults>>
      /\ UNCHANGED <<opResolve, fini, remote, expired, err, closing>>
      /\ FinishPeer(links, opResolve, fini) /\ Then(<<>>)
  BY DEF FinishedCall, requests, conns, ops, net
<1>3. run' = run \/ (run' = "CLOSED" /\ fini /\ links = <<>>)
  BY <1>2 DEF FinishPeer
<1>4. Stacked' /\ work' \in Seq(CallSet) /\ ToSet(work') = Rest
  BY <1>0, <1>1, <1>2, <1>3, StackedPop, ThenNothing, ThenCalls
<1>5. Aimed'
  <2>1. Linked \subseteq Linked'
    BY <1>2 DEF Linked
  <2> QED BY <1>0, <1>1, <1>2, <1>4, <2>1, AimedFrame
<1>6. links = <<>> => \A l \in Link : queue[l] = <<>>
  BY <1>0 DEF Owned, Linked, ToSet
<1>7. /\ Owned' /\ Told' /\ Dispersed' /\ Unique' /\ Held' /\ Emptied'
      /\ Ordered' /\ Matched' /\ Severed' /\ Asked'
  <2>1. work[1].op \notin How \cup {"disperse"} \cup RequestOps
    BY <1>1 DEF How, RequestOps
  <2> QED BY <1>0, <1>1, <1>2, <1>3, <1>4, <1>6, <2>1, PeerFrame
<1>8. TypeOK'
  BY <1>0, <1>2, <1>3 DEF TypeOK
<1> QED BY <1>4, <1>5, <1>7, <1>8 DEF IInv

-----------------------------------------------------------------------------
(* The calls a handler ends with, on a link that is open.                  *)

Loops == {"write", "read", "linkdone"}

\* The only call there is.
LEMMA AloneCall ==
  ASSUME work \in Seq(CallSet), Stacked, Aimed, ~Idle, NEW l \in Link, NEW op \in Loops,
         Head(work) = Call(op, l)
  PROVE  /\ ToSet(work) = {Call(op, l)}
         /\ l \in Linked /\ l \notin opFini /\ socket[l] = "open"
         /\ \A x \in ToSet(work) : x.op \notin How \cup {"disperse"} \cup RequestOps
         /\ \A c \in Seq(CallSet) : Then(c) => work' = c
<1>1. /\ work # <<>> /\ work[1].op = op /\ ToSet(work) = {Call(op, l)} \cup Rest
      /\ AimedAt(Call(op, l))
  BY Working
<1>2. Rest = {}
  <2>1. op \in Alone
    BY DEF Alone, Loops
  <2> QED BY <1>1, <2>1, HeadFacts
<1>3. l \in Linked /\ l \notin opFini /\ socket[l] = "open"
  BY <1>1, CallTypes DEF AimedAt, Loops
<1>4. Tail(work) = <<>>
  <2>1. Tail(work) \in Seq(CallSet)
    BY <1>1, HeadTailProperties
  <2>2. DOMAIN Tail(work) = {}
    BY <1>2 DEF Rest, ToSet
  <2> QED BY <2>1, <2>2, LenProperties, EmptySeq
<1>5. ASSUME NEW c \in Seq(CallSet), Then(c) PROVE work' = c
  <2>1. c \o <<>> = c
    OBVIOUS
  <2> QED BY <1>4, <1>5, <2>1 DEF Then
<1>6. \A x \in ToSet(work) : x.op \notin How \cup {"disperse"} \cup RequestOps
  BY <1>1, <1>2, CallTypes DEF How, RequestOps, Loops
<1> QED BY <1>1, <1>2, <1>3, <1>5, <1>6

\* It goes on with another for this link, or with none.
LEMMA GoesOn ==
  ASSUME NEW l \in Link, l \in Linked', l \notin opFini', l \notin opInit', socket'[l] = "open",
         work' = <<>> \/ \E op \in Loops \cup {"close", "reset"} : work' = <<Call(op, l)>>
  PROVE  /\ Stacked' /\ Aimed' /\ work' \in Seq(CallSet)
         /\ \A x \in ToSet(work') : x.op \notin How \cup {"disperse"} \cup RequestOps
<1>1. CASE work' = <<>>
  <2>1. DOMAIN work' = {}
    BY <1>1
  <2> QED BY <1>1, <2>1, StackedNone DEF ToSet
<1>2. ASSUME NEW op \in Loops \cup {"close", "reset"}, work' = <<Call(op, l)>>
      PROVE  /\ Stacked' /\ Aimed' /\ work' \in Seq(CallSet)
             /\ \A x \in ToSet(work') : x.op \notin How \cup {"disperse"} \cup RequestOps
  <2> DEFINE x == Call(op, l)
  <2>1. x \in CallSet /\ x.op = op /\ x.of = l
    BY CallTypes DEF LinkOps, Loops
  <2> HIDE DEF x
  <2>2. work' = <<x>>
    BY <1>2 DEF x
  <2>3. ToSet(work') = {x}
    <3>1. DOMAIN work' = {1} /\ work'[1] = x
      BY <2>2
    <3> QED BY <3>1 DEF ToSet
  <2>4. Stacked'
    BY <2>1, <2>2, StackedOne DEF Loops
  <2>5. Aimed'
    BY <2>1, <2>3 DEF Aimed, AimedAt, Loops, How
  <2> QED BY <2>1, <2>2, <2>3, <2>4, <2>5 DEF Loops, How, RequestOps
<1> QED BY <1>1, <1>2

\* What a handler of an open link may do to the flags and the queue.
LEMMA OpenLinkFrame ==
  ASSUME TypeOK, Owned, Told, Dispersed, NEW l \in Linked, l \notin opFini, socket[l] = "open",
         UNCHANGED <<links, socket, opInit, opFini>>,
         opWrite' \subseteq opWrite \cup {l}, opRead' \subseteq opRead \cup {l},
         \A k \in Link : k # l => /\ k \in opWrite => k \in opWrite'
                                  /\ k \in opRead => k \in opRead'
                                  /\ queue'[k] = queue[k],
         \A x \in ToSet(work) : x.op \notin How \cup {"disperse"}
  PROVE  Owned' /\ Told' /\ Dispersed'
<1>1. Linked' = Linked
  BY DEF Linked
<1>2. Owned'
  <2>1. ASSUME NEW k \in Link, socket'[k] # "none" \/ queue'[k] # <<>> PROVE k \in Linked'
    BY <1>1, <2>1 DEF Owned
  <2> QED BY <1>1, <2>1 DEF Owned
<1>3. Told'
  <2>1. ASSUME NEW k \in Link
        PROVE  /\ k \in opInit' => socket'[k] \in {"connecting", "closing", "stuck"}
               /\ k \in opWrite' \cup opRead' => socket'[k] # "none"
               /\ socket'[k] \in {"closing", "stuck"} => k \in opFini'
               /\ k \in opFini' => \/ socket'[k] \in {"closing", "stuck"}
                                   \/ socket'[k] = "closed" /\ k \in opWrite' \cup opRead'
                                   \/ \E x \in ToSet(work') : x.op \in How /\ x.of = k
    BY DEF Told
  <2> QED BY <2>1 DEF Told
<1>4. Dispersed'
  <2>1. ASSUME NEW k \in opFini', queue'[k] # <<>> PROVE FALSE
    <3>1. k \in opFini /\ k # l /\ k \in Link /\ queue[k] # <<>>
      BY <2>1 DEF TypeOK
    <3>2. Call("disperse", k) \in ToSet(work) /\ Call("disperse", k).op = "disperse"
      BY <3>1, CallTypes DEF Dispersed
    <3> QED BY <3>2
  <2> QED BY <2>1 DEF Dispersed
<1> QED BY <1>2, <1>3, <1>4

\* A handler of an open link changes no more than its flags.
LEMMA FlagsHold ==
  ASSUME IInv, NEW l \in Linked, l \notin opFini, socket[l] = "open",
         UNCHANGED <<future, holder, unwritten, links, queue, socket, opInit, opFini, wire, inbox,
                     answered, opResolve, fini, remote, expired, err, closing, run>>,
         faults' \in 0..MaxFaults,
         opWrite' \subseteq opWrite \cup {l}, opRead' \subseteq opRead \cup {l},
         \A k \in Link : k # l => /\ k \in opWrite => k \in opWrite'
                                  /\ k \in opRead => k \in opRead',
         \A x \in ToSet(work) : x.op \notin How \cup {"disperse"} \cup RequestOps,
         work' = <<>> \/ \E op \in Loops \cup {"close", "reset"} : work' = <<Call(op, l)>>
  PROVE  IInv'
<1>0. TypeOK /\ work \in Seq(CallSet) /\ Stacked /\ Aimed /\ Owned /\ Told /\ Dispersed
      /\ Unique /\ Held /\ Emptied /\ Ordered /\ Matched /\ Severed /\ Asked
  BY DEF IInv
<1>1. l \in Link /\ l \notin opInit
  BY <1>0 DEF TypeOK, Linked, ToSet, Told
<1>2. /\ Stacked' /\ Aimed' /\ work' \in Seq(CallSet)
      /\ \A x \in ToSet(work') : x.op \notin How \cup {"disperse"} \cup RequestOps
  <2>1. l \in Linked' /\ l \notin opFini' /\ l \notin opInit' /\ socket'[l] = "open"
    BY <1>1 DEF Linked
  <2> QED BY <1>1, <2>1, GoesOn
<1>3. Owned' /\ Told' /\ Dispersed'
  BY <1>0, OpenLinkFrame
<1>4. Unique' /\ Held' /\ Emptied'
  <2>1. \A x : x.op \in RequestOps => (x \in ToSet(work') <=> x \in ToSet(work))
    BY <1>2
  <2> QED BY <1>0, <2>1, TagsFrame DEF Committed
<1>5. Ordered' /\ Matched' /\ Severed' /\ Asked'
  BY <1>0, PipesFrame DEF TypeOK
<1>6. TypeOK'
  BY <1>0, <1>1 DEF TypeOK
<1> QED BY <1>2, <1>3, <1>4, <1>5, <1>6 DEF IInv

LEMMA WriteFailsHolds ==
  ASSUME IInv, ~Idle, NEW l \in Link, WriteFails(l) \/ ReadFails(l) PROVE IInv'
<1>0. TypeOK /\ work \in Seq(CallSet) /\ Stacked /\ Aimed
  BY DEF IInv
<1>1. PICK op \in {"write", "read"} : Head(work) = Call(op, l)
  BY DEF WriteFails, ReadFails
<1>2. /\ l \in Linked /\ l \notin opFini /\ socket[l] = "open"
      /\ \A x \in ToSet(work) : x.op \notin How \cup {"disperse"} \cup RequestOps
      /\ \A c \in Seq(CallSet) : Then(c) => work' = c
  BY <1>0, <1>1, AloneCall DEF Loops
<1>3. /\ UNCHANGED <<requests, conns, ops, peer, net>>
      /\ faults' \in 0..MaxFaults /\ Then(<<Call("reset", l)>>)
  BY <1>0, ServerAssumption DEF WriteFails, ReadFails, Fault, TypeOK
<1>4. work' = <<Call("reset", l)>>
  <2>1. <<Call("reset", l)>> \in Seq(CallSet)
    BY CallTypes DEF LinkOps
  <2> QED BY <1>2, <1>3, <2>1
<1> QED BY <1>2, <1>3, <1>4, FlagsHold DEF requests, conns, ops, peer, net

LEMMA LinkDoneHolds ==
  ASSUME IInv, ~Idle, NEW l \in Link, LinkDoneCall(l) PROVE IInv'
<1>0. TypeOK /\ work \in Seq(CallSet) /\ Stacked /\ Aimed
  BY DEF IInv
<1>1. Head(work) = Call("linkdone", l)
  BY DEF LinkDoneCall
<1>2. /\ l \in Linked /\ l \notin opFini /\ socket[l] = "open"
      /\ \A x \in ToSet(work) : x.op \notin How \cup {"disperse"} \cup RequestOps
      /\ \A c \in Seq(CallSet) : Then(c) => work' = c
  BY <1>0, <1>1, AloneCall DEF Loops
<1>3. /\ UNCHANGED <<requests, conns, opInit, opFini, opWrite, peer, net>>
      /\ faults' \in 0..MaxFaults
      /\ opRead' \subseteq opRead \cup {l} /\ opRead \subseteq opRead'
  BY <1>0 DEF LinkDoneCall, WaitReadable, TypeOK
<1>4. work' = <<>> \/ work' = <<Call("close", l)>>
  <2>1. <<Call("close", l)>> \in Seq(CallSet) /\ <<>> \in Seq(CallSet)
    BY CallTypes DEF LinkOps
  <2>2. Then(<<>>) \/ Then(<<Call("close", l)>>)
    BY DEF LinkDoneCall
  <2> QED BY <1>2, <2>1, <2>2
<1> QED BY <1>2, <1>3, <1>4, FlagsHold DEF requests, conns, peer, net

\* Something of a tag is written: the first tag that is not written is, or is
\* now, the last of those that are committed.
LEMMA CommitHolds ==
  ASSUME TypeOK, Unique, Held, Ordered, Matched, Severed, Asked,
         NEW l \in Link, socket[l] = "open", NEW k \in DOMAIN queue[l], NEW next,
         next = queue[l][k], unwritten[next] > 0,
         \A j \in DOMAIN queue[l] : unwritten[queue[l][j]] > 0 => k <= j,
         Room(l) \/ next = Head(queue[l]), holder[next] # "none",
         NEW n \in Remaining(next), unwritten' = [unwritten EXCEPT ![next] = n],
         wire' = IF Committed(next) THEN wire ELSE [wire EXCEPT ![l] = Append(@, next)],
         UNCHANGED <<future, holder, queue, inbox, answered, opFini, run, socket>>,
         \A s \in Request : InWork(s)' <=> InWork(s)
  PROVE  /\ Unique' /\ Held' /\ Ordered' /\ Matched' /\ Severed' /\ Asked'
         /\ unwritten' \in [Request -> 0..Pieces] /\ wire' \in [Link -> Seq(Request)]
         /\ next \in Request /\ future[next] # "none"
         /\ Revealed' = Revealed \cup {next}
<1> DEFINE tags == queue[l]
<1>1. /\ queue \in [Link -> Seq(Request)] /\ tags \in Seq(Request)
      /\ Len(tags) \in Nat /\ DOMAIN tags = 1..Len(tags) /\ Distinct(tags)
      /\ inbox \in [Link -> Seq(Request \X Status)] /\ wire \in [Link -> Seq(Request)]
      /\ unwritten \in [Request -> 0..Pieces]
      /\ next \in Request /\ next \in ToSet(tags)
  BY LenProperties DEF TypeOK, Status, Unique, ToSet
<1>2. /\ Pieces \in Nat \ {0} /\ CommitMax \in Nat \ {0}
  BY ServerAssumption
<1>3. /\ n \in 0..Pieces /\ n < unwritten[next] /\ unwritten'[next] = n
      /\ unwritten' \in [Request -> 0..Pieces]
      /\ \A s \in Request : s # next => unwritten'[s] = unwritten[s]
  <2>1. unwritten[next] \in 0..Pieces
    BY <1>1
  <2>2. n \in 0..(unwritten[next] - 1)
    BY DEF Remaining
  <2>3. n \in 0..Pieces /\ n < unwritten[next]
    BY <1>2, <2>1, <2>2
  <2> QED BY <1>1, <2>3
<1>4. /\ Committed(next)'
      /\ \A s \in Request : s # next => (Committed(s)' <=> Committed(s))
  <2>1. unwritten[next] \in 0..Pieces
    BY <1>1
  <2> QED BY <1>2, <1>3, <2>1 DEF Committed
<1>5. Revealed' = Revealed \cup {next}
  BY <1>1, <1>4 DEF Revealed
<1>6. InQueue(next) /\ future[next] # "none" /\ ~InWork(next)
  BY <1>1 DEF InQueue, Held, Unique
<1>7. \A s \in Request : InQueue(s)' <=> InQueue(s)
  BY DEF InQueue
<1>8. Unique'
  BY <1>4, <1>6, <1>7 DEF Unique
<1>9. Held'
  <2>1. ASSUME NEW s \in Request
        PROVE  /\ holder'[s] = "user" <=> future'[s] = "pending"
               /\ holder'[s] = "dummy" => Committed(s)'
               /\ holder'[s] = "none" /\ InQueue(s)' => ~Committed(s)'
               /\ future'[s] = "none" => ~Committed(s)' /\ ~InQueue(s)'
               /\ future'[s] = "pending" => InWork(s)' \/ InQueue(s)'
    <3>1. CASE s = next
      BY <1>4, <1>6, <1>7, <3>1 DEF Held
    <3>2. CASE s # next
      BY <1>4, <1>7, <3>2 DEF Held
    <3> QED BY <3>1, <3>2
  <2> QED BY <2>1 DEF Held
<1>10. \A j \in Link : PipedAt(j)
  BY <1>1, PipedIs
<1>11. /\ wire' \in [Link -> Seq(Request)] /\ \A j \in Link : j # l => wire'[j] = wire[j]
       /\ Committed(next) => wire' = wire
       /\ ~Committed(next) => wire'[l] = Append(wire[l], next)
  <2>1. wire[l] \in Seq(Request) /\ Append(wire[l], next) \in Seq(Request)
    BY <1>1
  <2>2. CASE Committed(next)
    BY <1>1, <2>2
  <2>3. CASE ~Committed(next)
    BY <1>1, <2>1, <2>3
  <2> QED BY <2>2, <2>3
<1>12. Severed'
  BY <1>11 DEF Severed
<1>13. \A j \in Link : Live(j)' = Live(j) /\ Live(j) \in BOOLEAN
  BY DEF Live
<1>14. ASSUME NEW j \in Link, j # l \/ Committed(next)
       PROVE  Piped(queue'[j], inbox'[j], wire'[j], Revealed', Live(j)')
  <2>1. \A r \in ToSet(queue[j]) : r \in Revealed' <=> r \in Revealed
    <3>1. CASE Committed(next)
      BY <1>1, <1>5, <3>1 DEF Revealed
    <3>2. CASE j # l
      BY <1>1, <1>5, <3>2 DEF Unique
    <3> QED BY <1>14, <3>1, <3>2
  <2>2. wire'[j] = wire[j]
    BY <1>11, <1>14
  <2> QED BY <1>1, <1>10, <1>13, <2>1, <2>2, PipedKept
<1>15. ASSUME ~Committed(next)
       PROVE  Piped(queue'[l], inbox'[l], wire'[l], Revealed', Live(l)')
  <2>1. k <= CommitMax
    <3>1. CASE k = 1
      BY <1>2, <3>1
    <3>2. CASE k # 1
      <4>1. k - 1 \in DOMAIN tags /\ ~(k <= k - 1) /\ 1 \in DOMAIN tags /\ tags # <<>>
        BY <1>1, <3>2
      <4>2. Committed(tags[k - 1])
        <5>1. tags[k - 1] \in Request /\ unwritten[tags[k - 1]] \in 0..Pieces /\ ~(unwritten[tags[k - 1]] > 0)
          BY <1>1, <4>1
        <5> QED BY <1>2, <5>1 DEF Committed
      <4>3. k - 1 <= TagCommitted(l) /\ TagCommitted(l) \in Nat
        BY <1>1, <4>1, <4>2 DEF Ordered
      <4>4. next # Head(tags)
        <5>1. Head(tags) = tags[1]
          BY <1>1, <4>1
        <5> QED BY <1>1, <3>2, <4>1, <5>1 DEF Distinct
      <4>5. TagCommitted(l) < CommitMax
        BY <4>4 DEF Room
      <4> QED BY <1>1, <1>2, <4>3, <4>5
    <3> QED BY <3>1, <3>2
  <2> DEFINE C == Revealed
             live == Live(l)
  <2>2. tags[k] \notin C
    BY <1>15 DEF Revealed
  <2>3. ASSUME NEW j \in DOMAIN tags, tags[j] \notin C PROVE k <= j
    <3>1. tags[j] \in Request /\ ~Committed(tags[j]) /\ unwritten[tags[j]] \in 0..Pieces
      BY <1>1, <2>3 DEF Revealed
    <3>2. unwritten[tags[j]] > 0
      BY <1>2, <3>1 DEF Committed
    <3> QED BY <3>2
  <2>4. Piped(tags, inbox[l], wire[l], C, live) /\ live \in BOOLEAN
    BY <1>10, <1>13 DEF PipedAt
  <2>5. inbox[l] \in Seq(Request \X Status) /\ wire[l] \in Seq(Request)
    BY <1>1
  <2> HIDE DEF C, live
  <2>6. Piped(tags, inbox[l], Append(wire[l], tags[k]), C \cup {tags[k]}, live)
    <3> DEFINE box == inbox[l]
               w == wire[l]
    <3>1. /\ tags \in Seq(Request) /\ Distinct(tags) /\ k \in DOMAIN tags
          /\ box \in Seq(Request \X Status) /\ w \in Seq(Request)
          /\ Piped(tags, box, w, C, live) /\ live \in BOOLEAN
          /\ tags[k] \notin C /\ \A j \in DOMAIN tags : tags[j] \notin C => k <= j
      BY <1>1, <2>2, <2>3, <2>4, <2>5
    <3> HIDE DEF box, w, tags
    <3>2. Piped(tags, box, Append(w, tags[k]), C \cup {tags[k]}, live)
      BY <2>1, <3>1, PipedCommit
    <3> QED BY <3>2 DEF box, w
  <2>7. tags[k] = next
    OBVIOUS
  <2> QED BY <1>5, <1>11, <1>13, <1>15, <2>6, <2>7 DEF C, live
<1>16. Ordered' /\ Matched'
  <2>1. \A j \in Link : Piped(queue'[j], inbox'[j], wire'[j], Revealed', Live(j)')
    BY <1>14, <1>15
  <2>2. queue' \in [Link -> Seq(Request)]
    BY <1>1
  <2> QED BY <2>1, <2>2, PipedNext
<1>17. Asked'
  <2>1. \A s \in Request : Committed(s) => Committed(s)'
    BY <1>4
  <2>2. CASE Committed(next)
    <3>1. \A j \in Link : ToSet(wire[j]) \subseteq Request
      BY <1>1 DEF ToSet
    <3>2. answered \subseteq Request
      BY DEF TypeOK
    <3> QED BY <1>11, <2>1, <2>2, <3>1, <3>2 DEF Asked
  <2>3. CASE ~Committed(next)
    <3>1. \A j \in Link : next \notin ToSet(wire[j])
      BY <2>3 DEF Asked
    <3>2. wire[l] \in Seq(Request) /\ Distinct(wire[l])
      BY <1>1 DEF Asked
    <3>3. Distinct(wire'[l]) /\ ToSet(wire'[l]) = ToSet(wire[l]) \cup {next}
      BY <1>1, <1>11, <2>3, <3>1, <3>2, AppendDistinct
    <3>4. \A j \in Link : Distinct(wire'[j])
      BY <1>11, <3>3 DEF Asked
    <3>5. ASSUME NEW i \in Link, NEW j \in Link, NEW r \in Request,
                 r \in ToSet(wire'[i]), r \in ToSet(wire'[j])
          PROVE  i = j
      <4>1. CASE r = next
        BY <1>11, <3>1, <3>5, <4>1
      <4>2. CASE r # next
        <5>1. r \in ToSet(wire[i]) /\ r \in ToSet(wire[j])
          BY <1>11, <3>3, <3>5, <4>2
        <5> QED BY <5>1 DEF Asked
      <4> QED BY <4>1, <4>2
    <3>6. ASSUME NEW j \in Link, NEW r \in ToSet(wire'[j])
          PROVE  Committed(r)' /\ r \notin answered
      <4>1. CASE r = next
        BY <1>4, <2>3, <4>1 DEF Asked
      <4>2. CASE r # next
        <5>1. r \in ToSet(wire[j]) /\ r \in Request
          BY <1>1, <1>11, <3>3, <3>6, <4>2 DEF ToSet
        <5> QED BY <1>4, <4>2, <5>1 DEF Asked
      <4> QED BY <4>1, <4>2
    <3>7. \A r \in answered : Committed(r)'
      <4>1. answered \subseteq Request
        BY DEF TypeOK
      <4> QED BY <2>1, <4>1 DEF Asked
    <3> QED BY <3>4, <3>5, <3>6, <3>7 DEF Asked
  <2> QED BY <2>2, <2>3
<1> QED BY <1>1, <1>3, <1>5, <1>6, <1>8, <1>9, <1>11, <1>12, <1>16, <1>17

LEMMA WriteHolds ==
  ASSUME IInv, ~Idle, NEW l \in Link, WriteCall(l) PROVE IInv'
<1>0. TypeOK /\ work \in Seq(CallSet) /\ Stacked /\ Aimed /\ Owned /\ Told /\ Dispersed
      /\ Unique /\ Held /\ Emptied /\ Ordered /\ Matched /\ Severed /\ Asked
  BY DEF IInv
<1>1. /\ l \in Linked /\ l \notin opFini /\ socket[l] = "open"
      /\ \A x \in ToSet(work) : x.op \notin How \cup {"disperse"} \cup RequestOps
      /\ \A c \in Seq(CallSet) : Then(c) => work' = c
  <2>1. Head(work) = Call("write", l)
    BY DEF WriteCall
  <2> QED BY <1>0, <2>1, AloneCall DEF Loops
<1>2. /\ UNCHANGED <<future, holder, links, socket, opInit, opFini, inbox, answered, faults>>
      /\ UNCHANGED <<opResolve, fini, remote, expired, err, closing, run>>
  BY DEF WriteCall, peer
<1> DEFINE left == {r \in ToSet(queue[l]) : unwritten[r] > 0}
           next == First(queue[l], left)
<1>3. \/ Then(<<Call("close", l)>>) /\ UNCHANGED <<unwritten, queue, opWrite, opRead, wire>>
      \/ Then(<<>>) /\ UNCHANGED <<unwritten, queue, opWrite, opRead, wire>>
      \/ /\ left # {} /\ Discarded(next)
         /\ queue' = [queue EXCEPT ![l] = Unlink(queue[l], next)]
         /\ Then(<<Call("write", l)>>)
         /\ UNCHANGED <<unwritten, opWrite, opRead, wire>>
      \/ /\ left # {} /\ (Room(l) \/ next = Head(queue[l])) /\ ~Discarded(next)
         /\ opRead' \in {opRead, opRead \cup {l}}
         /\ wire' = IF Committed(next) THEN wire ELSE [wire EXCEPT ![l] = Append(wire[l], next)]
         /\ \E n \in Remaining(next) : unwritten' = [unwritten EXCEPT ![next] = n]
         /\ \/ Then(<<Call("write", l)>>) /\ UNCHANGED opWrite
            \/ Then(<<>>) /\ opWrite' \in {opWrite, opWrite \cup {l}}
         /\ UNCHANGED queue
  <2>1. WaitReadable(l) => opRead' = opRead \cup {l}
    BY <1>1 DEF WaitReadable
  <2>2. WaitWritable(l) => opWrite' = opWrite \cup {l}
    BY <1>1 DEF WaitWritable
  <2> HIDE DEF next, left
  <2> QED BY <2>1, <2>2 DEF WriteCall, left, next
<1>4. \A op \in Loops \cup {"close"} : <<Call(op, l)>> \in Seq(CallSet)
  BY <1>0, CallTypes DEF Loops, LinkOps, TypeOK
<1>5. Then(<<>>) => work' = <<>>
  <2>1. <<>> \in Seq(CallSet)
    OBVIOUS
  <2> QED BY <1>1, <2>1
<1>6. \A op \in Loops \cup {"close"} : Then(<<Call(op, l)>>) => work' = <<Call(op, l)>>
  BY <1>1, <1>4
<1>A. ASSUME UNCHANGED <<unwritten, queue, opWrite, opRead, wire>>,
             Then(<<Call("close", l)>>) \/ Then(<<>>)
      PROVE  IInv'
  <2>1. work' = <<>> \/ \E op \in Loops \cup {"close", "reset"} : work' = <<Call(op, l)>>
    BY <1>5, <1>6, <1>A
  <2>2. faults' \in 0..MaxFaults
    BY <1>0, <1>2 DEF TypeOK
  <2> QED BY <1>1, <1>2, <1>A, <2>1, <2>2, FlagsHold
<1>7. ASSUME left # {}
      PROVE  \E k \in DOMAIN queue[l] :
               /\ next = queue[l][k] /\ unwritten[next] > 0
               /\ \A j \in DOMAIN queue[l] : unwritten[queue[l][j]] > 0 => k <= j
  <2>1. queue[l] \in Seq(Request) /\ left \cap ToSet(queue[l]) # {}
    BY <1>0, <1>7 DEF TypeOK
  <2>2. PICK k \in DOMAIN queue[l] :
          /\ next = queue[l][k] /\ queue[l][k] \in left
          /\ \A j \in DOMAIN queue[l] : queue[l][j] \in left => k <= j
    <3> HIDE DEF left
    <3> QED BY <2>1, FirstProperties
  <2>3. \A j \in DOMAIN queue[l] : queue[l][j] \in left <=> unwritten[queue[l][j]] > 0
    BY DEF ToSet
  <2> QED BY <2>2, <2>3
<1>8. ASSUME work' = <<>> \/ \E op \in Loops \cup {"close", "reset"} : work' = <<Call(op, l)>>
      PROVE  /\ Stacked' /\ Aimed' /\ work' \in Seq(CallSet)
             /\ \A x : x.op \in RequestOps => (x \in ToSet(work') <=> x \in ToSet(work))
  <2>1. l \in Linked' /\ l \notin opFini' /\ l \notin opInit' /\ socket'[l] = "open"
    BY <1>0, <1>1, <1>2 DEF Linked, Told
  <2> QED BY <1>1, <1>8, <2>1, GoesOn
<1>B. ASSUME left # {}, Discarded(next),
             queue' = [queue EXCEPT ![l] = Unlink(queue[l], next)],
             Then(<<Call("write", l)>>), UNCHANGED <<unwritten, opWrite, opRead, wire>>
      PROVE  IInv'
  <2>1. PICK r \in ToSet(queue[l]) : r = next
    BY <1>7, <1>B DEF ToSet
  <2>2. r \in Request /\ holder[r] = "none" /\ ~Committed(r)
    <3>1. r \in Request
      BY <1>0 DEF TypeOK, ToSet
    <3>2. holder[r] = "none"
      BY <1>B, <2>1 DEF Discarded
    <3>3. InQueue(r)
      BY DEF InQueue
    <3> QED BY <1>0, <3>1, <3>2, <3>3 DEF Held
  <2>3. work' = <<Call("write", l)>>
    BY <1>6, <1>B DEF Loops
  <2>4. /\ Stacked' /\ Aimed' /\ work' \in Seq(CallSet)
        /\ \A x : x.op \in RequestOps => (x \in ToSet(work') <=> x \in ToSet(work))
    BY <1>8, <2>3 DEF Loops
  <2>5. \A s \in Request : InWork(s)' <=> InWork(s)
    BY <2>4 DEF InWork
  <2>6. /\ queue' \in [Link -> Seq(Request)] /\ Ordered' /\ Matched' /\ Unique' /\ Held'
        /\ \A k \in Link : queue'[k] # <<>> => queue[k] # <<>>
    <3> HIDE DEF next
    <3> QED BY <1>0, <1>2, <1>B, <2>1, <2>2, <2>5, DropHolds
  <2>7. \A k \in Link : k # l => queue'[k] = queue[k]
    BY <1>0, <1>B DEF TypeOK
  <2>8. Owned' /\ Told' /\ Dispersed'
    BY <1>0, <1>1, <1>2, <1>B, <2>7, OpenLinkFrame
  <2>9. Emptied' /\ Severed' /\ Asked'
    <3>1. Emptied'
      BY <1>0, <1>2, <2>6 DEF Emptied
    <3>2. Severed'
      BY <1>0, <1>2, <1>B DEF Severed
    <3>3. Asked'
      BY <1>0, <1>2, <1>B DEF Asked, Committed
    <3> QED BY <3>1, <3>2, <3>3
  <2>10. TypeOK'
    BY <1>0, <1>2, <1>B, <2>6 DEF TypeOK
  <2> QED BY <2>4, <2>6, <2>8, <2>9, <2>10 DEF IInv
<1>C. ASSUME left # {}, Room(l) \/ next = Head(queue[l]), ~Discarded(next),
             opRead' \in {opRead, opRead \cup {l}},
             wire' = IF Committed(next) THEN wire ELSE [wire EXCEPT ![l] = Append(wire[l], next)],
             NEW n \in Remaining(next), unwritten' = [unwritten EXCEPT ![next] = n],
             \/ Then(<<Call("write", l)>>) /\ UNCHANGED opWrite
             \/ Then(<<>>) /\ opWrite' \in {opWrite, opWrite \cup {l}},
             UNCHANGED queue
      PROVE  IInv'
  <2>1. PICK k \in DOMAIN queue[l] :
          /\ next = queue[l][k] /\ unwritten[next] > 0
          /\ \A j \in DOMAIN queue[l] : unwritten[queue[l][j]] > 0 => k <= j
    BY <1>7, <1>C
  <2>2. PICK r : r = next
    OBVIOUS
  <2>3. work' = <<>> \/ work' = <<Call("write", l)>>
    BY <1>5, <1>6, <1>C DEF Loops
  <2>4. /\ Stacked' /\ Aimed' /\ work' \in Seq(CallSet)
        /\ \A x : x.op \in RequestOps => (x \in ToSet(work') <=> x \in ToSet(work))
    BY <1>8, <2>3 DEF Loops
  <2>5. \A s \in Request : InWork(s)' <=> InWork(s)
    BY <2>4 DEF InWork
  <2>6. /\ Unique' /\ Held' /\ Ordered' /\ Matched' /\ Severed' /\ Asked'
        /\ unwritten' \in [Request -> 0..Pieces] /\ wire' \in [Link -> Seq(Request)]
    <3>1. /\ r = queue[l][k] /\ unwritten[r] > 0
          /\ \A j \in DOMAIN queue[l] : unwritten[queue[l][j]] > 0 => k <= j
          /\ Room(l) \/ r = Head(queue[l])
          /\ holder[r] # "none" /\ n \in Remaining(r)
          /\ unwritten' = [unwritten EXCEPT ![r] = n]
          /\ wire' = IF Committed(r) THEN wire ELSE [wire EXCEPT ![l] = Append(wire[l], r)]
      BY <1>C, <2>1, <2>2 DEF Discarded
    <3> HIDE DEF next
    <3> QED BY <1>0, <1>1, <1>2, <1>C, <2>5, <3>1, CommitHolds
  <2>7. Owned' /\ Told' /\ Dispersed'
    BY <1>0, <1>1, <1>2, <1>C, OpenLinkFrame
  <2>8. Emptied'
    BY <1>0, <1>2, <1>C DEF Emptied
  <2>9. TypeOK'
    BY <1>0, <1>2, <1>C, <2>6 DEF TypeOK
  <2> QED BY <2>4, <2>6, <2>7, <2>8, <2>9 DEF IInv
<1> HIDE DEF left, next
<1> QED BY <1>3, <1>A, <1>B, <1>C

\* What is read with no request to have asked for it.
LEMMA DiscardHolds ==
  ASSUME TypeOK, Ordered, Matched, Severed, Asked, NEW l \in Link,
         queue[l] = <<>> \/ ~Committed(Head(queue[l])),
         inbox' = [inbox EXCEPT ![l] = <<>>],
         UNCHANGED <<unwritten, queue, wire, answered, opFini, run, socket>>
  PROVE  /\ Ordered' /\ Matched' /\ Severed' /\ Asked'
         /\ inbox' \in [Link -> Seq(Request \X Status)]
<1>1. /\ wire \in [Link -> Seq(Request)] /\ inbox \in [Link -> Seq(Request \X Status)]
      /\ queue \in [Link -> Seq(Request)]
  BY DEF TypeOK, Status
<1>2. /\ inbox' \in [Link -> Seq(Request \X Status)] /\ inbox'[l] = <<>>
      /\ \A k \in Link : k # l => inbox'[k] = inbox[k]
  <2>1. <<>> \in Seq(Request \X Status)
    OBVIOUS
  <2> QED BY <1>1, <2>1
<1>3. TagCommitted(l) = 0
  <2>1. TagCommitted(l) \in 0..Len(queue[l])
    BY DEF Ordered
  <2>2. Len(queue[l]) \in Nat /\ DOMAIN queue[l] = 1..Len(queue[l])
    BY <1>1, LenProperties
  <2>3. CASE queue[l] = <<>>
    BY <2>1, <2>3
  <2>4. CASE queue[l] # <<>>
    <3>1. 1 \in DOMAIN queue[l] /\ Head(queue[l]) = queue[l][1]
      BY <1>1, <2>4, HeadInList
    <3>2. ~(1 <= TagCommitted(l))
      BY <2>4, <3>1 DEF Ordered
    <3> QED BY <2>1, <2>2, <3>2
  <2> QED BY <2>3, <2>4
<1>4. Live(l) => inbox[l] = <<>>
  <2>1. ASSUME Live(l) PROVE inbox[l] = <<>>
    <3>1. Len(inbox[l]) + Len(wire[l]) = 0
      BY <1>3, <2>1 DEF Matched, Live
    <3>2. inbox[l] \in Seq(Request \X Status) /\ Len(inbox[l]) \in Nat /\ Len(wire[l]) \in Nat
      BY <1>1, LenProperties
    <3> DEFINE a == Len(inbox[l])
               b == Len(wire[l])
    <3>3. a + b = 0 /\ a \in Nat /\ b \in Nat
      BY <3>1, <3>2
    <3> HIDE DEF a, b
    <3>4. a = 0
      BY <3>3
    <3> QED BY <3>2, <3>4, EmptySeq DEF a
  <2> QED BY <2>1
<1>5. \A k \in Link : PipedAt(k)
  BY <1>1, PipedIs
<1>6. Revealed' = Revealed /\ \A k \in Link : Live(k)' = Live(k)
  BY DEF Revealed, Committed, Live
<1>7. ASSUME NEW k \in Link
      PROVE  Piped(queue'[k], inbox'[k], wire'[k], Revealed', Live(k)')
  <2>1. CASE k # l \/ Live(l)
    <3>1. inbox'[k] = inbox[k]
      BY <1>2, <1>4, <2>1
    <3> QED BY <1>1, <1>5, <1>6, <3>1, PipedKept
  <2>2. CASE k = l /\ ~Live(l)
    <3> DEFINE C == Revealed
               live == Live(l)
    <3>1. Piped(queue[l], inbox[l], wire[l], C, live) /\ ~live
      BY <1>5, <2>2 DEF PipedAt
    <3> HIDE DEF C, live
    <3>2. Piped(queue[l], inbox'[l], wire[l], C, live)
      BY <3>1 DEF Piped
    <3> QED BY <1>6, <2>2, <3>2 DEF C, live
  <2> QED BY <2>1, <2>2
<1>8. Ordered' /\ Matched'
  BY <1>1, <1>7, PipedNext
<1>9. Severed'
  BY <1>2 DEF Severed
<1>10. Asked'
  <2>1. ASSUME NEW k \in Link, NEW i \in DOMAIN inbox'[k] PROVE inbox'[k][i][1] \in answered
    <3>1. inbox'[k] # <<>>
      BY <2>1
    <3>2. inbox'[k] = inbox[k]
      BY <1>2, <3>1
    <3> QED BY <3>2 DEF Asked
  <2> QED BY <2>1 DEF Asked, Committed
<1> QED BY <1>2, <1>8, <1>9, <1>10

\* The first tag of a pipe has its answer.
LEMMA DoneHolds ==
  ASSUME TypeOK, Unique, Held, Ordered, Matched, Severed, Asked, NEW l \in Link,
         queue[l] # <<>>, NEW r, r = Head(queue[l]), Committed(r), inbox[l] # <<>>,
         future' = IF Abandoned(r) THEN future ELSE [future EXCEPT ![r] = "value"],
         holder' = [holder EXCEPT ![r] = "none"],
         queue' = [queue EXCEPT ![l] = Tail(queue[l])],
         inbox' = [inbox EXCEPT ![l] = Tail(inbox[l])],
         UNCHANGED <<unwritten, wire, answered, opFini, run, socket>>,
         \A s \in Request : InWork(s)' <=> InWork(s)
  PROVE  /\ Unique' /\ Held' /\ Ordered' /\ Matched' /\ Severed' /\ Asked'
         /\ queue' \in [Link -> Seq(Request)] /\ inbox' \in [Link -> Seq(Request \X Status)]
         /\ future' \in [Request -> {"none", "pending", "value", "error", "canceled",
                             "refused"}]
         /\ holder' \in [Request -> {"none", "user", "dummy"}]
         /\ r \in Request
         /\ \A k \in Link : queue'[k] # <<>> => queue[k] # <<>>
         /\ \A k \in Link : k # l => queue'[k] = queue[k]
<1> DEFINE tags == queue[l]
           box == inbox[l]
<1>1. /\ queue \in [Link -> Seq(Request)] /\ tags \in Seq(Request) /\ Distinct(tags)
      /\ inbox \in [Link -> Seq(Request \X Status)] /\ box \in Seq(Request \X Status)
      /\ wire \in [Link -> Seq(Request)]
      /\ future \in [Request -> {"none", "pending", "value", "error", "canceled", "refused"}]
      /\ holder \in [Request -> {"none", "user", "dummy"}]
  BY DEF TypeOK, Status, Unique
<1>2. r \in ToSet(tags) /\ r \in Request /\ r = tags[1] /\ 1 \in DOMAIN tags
  BY <1>1, HeadInList
<1>3. Tail(tags) \in Seq(Request) /\ Distinct(Tail(tags)) /\ ToSet(Tail(tags)) = ToSet(tags) \ {r}
  BY <1>1, TailDistinct
<1>4. /\ queue' \in [Link -> Seq(Request)] /\ queue'[l] = Tail(tags)
      /\ \A k \in Link : k # l => queue'[k] = queue[k]
  BY <1>1, <1>3
<1>5. /\ Tail(box) \in Seq(Request \X Status) /\ Len(Tail(box)) = Len(box) - 1
      /\ \A i \in 1..(Len(box) - 1) : Tail(box)[i] = box[i + 1]
      /\ Len(box) \in Nat /\ DOMAIN box = 1..Len(box)
  BY <1>1, HeadTailProperties, LenProperties
<1>6. /\ inbox' \in [Link -> Seq(Request \X Status)] /\ inbox'[l] = Tail(box)
      /\ \A k \in Link : k # l => inbox'[k] = inbox[k]
  BY <1>1, <1>5
<1>7. /\ future' \in [Request -> {"none", "pending", "value", "error", "canceled", "refused"}]
      /\ holder' \in [Request -> {"none", "user", "dummy"}]
      /\ holder'[r] = "none" /\ future'[r] # "pending" /\ future'[r] # "none"
      /\ \A s \in Request : s # r => future'[s] = future[s] /\ holder'[s] = holder[s]
  <2>1. future[r] # "none"
    BY <1>2 DEF Held
  <2> QED BY <1>1, <1>2, <2>1 DEF Abandoned
<1>8. \A k \in Link : ToSet(queue'[k]) \subseteq ToSet(queue[k])
  BY <1>3, <1>4
<1>9. ~InQueue(r)' /\ InQueue(r)
  <2>1. ASSUME NEW k \in Link, r \in ToSet(queue'[k]) PROVE FALSE
    <3>1. CASE k = l
      BY <1>3, <1>4, <2>1, <3>1
    <3>2. CASE k # l
      BY <1>2, <1>4, <2>1, <3>2 DEF Unique
    <3> QED BY <3>1, <3>2
  <2> QED BY <1>2, <2>1 DEF InQueue
<1>10. ASSUME NEW s \in Request, s # r PROVE InQueue(s)' <=> InQueue(s)
  <2>1. ASSUME NEW k \in Link PROVE s \in ToSet(queue'[k]) <=> s \in ToSet(queue[k])
    BY <1>3, <1>4, <1>10
  <2> QED BY <2>1 DEF InQueue
<1>11. \A s \in Request : Committed(s)' <=> Committed(s)
  BY DEF Committed
<1>12. Unique'
  <2>1. \A k \in Link : Distinct(queue'[k])
    BY <1>3, <1>4 DEF Unique
  <2>2. \A j, k \in Link : \A s \in Request :
          s \in ToSet(queue'[j]) /\ s \in ToSet(queue'[k]) => j = k
    BY <1>8 DEF Unique
  <2>3. ASSUME NEW s \in Request, InWork(s)'
        PROVE  ~InQueue(s)' /\ ~Committed(s)' /\ future'[s] \in {"none", "pending"}
    <3>1. InWork(s) /\ s # r
      BY <1>9, <2>3 DEF Unique
    <3> QED BY <1>7, <1>10, <1>11, <3>1 DEF Unique
  <2> QED BY <2>1, <2>2, <2>3 DEF Unique
<1>13. Held'
  <2>1. ASSUME NEW s \in Request
        PROVE  /\ holder'[s] = "user" <=> future'[s] = "pending"
               /\ holder'[s] = "dummy" => Committed(s)'
               /\ holder'[s] = "none" /\ InQueue(s)' => ~Committed(s)'
               /\ future'[s] = "none" => ~Committed(s)' /\ ~InQueue(s)'
               /\ future'[s] = "pending" => InWork(s)' \/ InQueue(s)'
    <3>1. CASE s = r
      BY <1>7, <1>9, <3>1
    <3>2. CASE s # r
      BY <1>7, <1>10, <1>11, <3>2 DEF Held
    <3> QED BY <3>1, <3>2
  <2> QED BY <2>1 DEF Held
<1>14. \A k \in Link : PipedAt(k)
  BY <1>1, PipedIs
<1>15. Revealed' = Revealed /\ \A k \in Link : Live(k)' = Live(k) /\ Live(k) \in BOOLEAN
  BY DEF Revealed, Committed, Live
<1>16. ASSUME NEW k \in Link
       PROVE  Piped(queue'[k], inbox'[k], wire'[k], Revealed', Live(k)')
  <2>1. CASE k # l
    BY <1>1, <1>4, <1>6, <1>14, <1>15, <2>1, PipedKept
  <2>2. CASE k = l
    <3> DEFINE C == Revealed
               live == Live(l)
               w == wire[l]
    <3>1. /\ Piped(tags, box, w, C, live) /\ live \in BOOLEAN /\ w \in Seq(Request)
          /\ tags[1] \in C /\ tags # <<>> /\ box # <<>>
      BY <1>1, <1>2, <1>14, <1>15 DEF PipedAt, Revealed
    <3> HIDE DEF C, live, w, tags, box
    <3>2. Piped(Tail(tags), Tail(box), w, C, live)
      BY <1>1, <3>1, PipedTail
    <3> QED BY <1>4, <1>6, <1>15, <2>2, <3>2 DEF C, live, w
  <2> QED BY <2>1, <2>2
<1>17. Ordered' /\ Matched'
  BY <1>4, <1>16, PipedNext
<1>18. Severed'
  <2>1. ASSUME NEW k \in Link, socket'[k] # "open" PROVE wire'[k] = <<>> /\ inbox'[k] = <<>>
    BY <1>6, <2>1 DEF Severed
  <2> QED BY <2>1 DEF Severed
<1>19. Asked'
  <2>1. ASSUME NEW k \in Link, NEW i \in DOMAIN inbox'[k] PROVE inbox'[k][i][1] \in answered
    <3>1. CASE k = l
      <4>1. DOMAIN Tail(box) = 1..(Len(box) - 1)
        BY <1>5, LenProperties
      <4>2. i + 1 \in DOMAIN box /\ Tail(box)[i] = box[i + 1]
        BY <1>5, <1>6, <2>1, <3>1, <4>1
      <4> QED BY <1>6, <3>1, <4>2 DEF Asked
    <3>2. CASE k # l
      <4>1. inbox'[k] = inbox[k]
        BY <1>6, <3>2
      <4> QED BY <4>1 DEF Asked
    <3> QED BY <3>1, <3>2
  <2> QED BY <2>1 DEF Asked, Committed
<1>20. \A k \in Link : queue'[k] # <<>> => queue[k] # <<>>
  BY <1>4
<1> QED BY <1>2, <1>4, <1>6, <1>7, <1>12, <1>13, <1>17, <1>18, <1>19, <1>20

LEMMA ReadHolds ==
  ASSUME IInv, ~Idle, NEW l \in Link, ReadCall(l) PROVE IInv'
<1>0. TypeOK /\ work \in Seq(CallSet) /\ Stacked /\ Aimed /\ Owned /\ Told /\ Dispersed
      /\ Unique /\ Held /\ Emptied /\ Ordered /\ Matched /\ Severed /\ Asked
  BY DEF IInv
<1>1. /\ l \in Linked /\ l \notin opFini /\ socket[l] = "open"
      /\ \A x \in ToSet(work) : x.op \notin How \cup {"disperse"} \cup RequestOps
      /\ \A c \in Seq(CallSet) : Then(c) => work' = c
  <2>1. Head(work) = Call("read", l)
    BY DEF ReadCall
  <2> QED BY <1>0, <2>1, AloneCall DEF Loops
<1>2. /\ UNCHANGED <<links, socket, opInit, opFini, wire, answered, faults>>
      /\ UNCHANGED <<opResolve, fini, remote, expired, run>>
  BY DEF ReadCall
<1> DEFINE r == Head(queue[l])
<1>3. \/ /\ queue[l] = <<>> \/ ~Committed(r)
         /\ inbox' = [inbox EXCEPT ![l] = <<>>]
         /\ \/ Then(<<>>) /\ opRead' = opRead \cup {l}
            \/ Then(<<Call("reset", l)>>) /\ UNCHANGED opRead
         /\ UNCHANGED <<requests, queue, opWrite, err, closing>>
      \/ /\ Then(<<>>) \/ Then(<<Call("close", l)>>)
         /\ opRead' \in {opRead, opRead \cup {l}}
         /\ UNCHANGED <<requests, queue, opWrite, err, closing, inbox>>
      \/ queue[l] # <<>> /\ Committed(r) /\ inbox[l] # <<>> /\ TagDone(l)
  <2>1. WaitReadable(l) => opRead' = opRead \cup {l}
    BY <1>1 DEF WaitReadable
  <2> HIDE DEF r
  <2> QED BY <2>1 DEF ReadCall, DiscardRead, r
<1>4. \A op \in Loops \cup {"close", "reset"} : <<Call(op, l)>> \in Seq(CallSet)
  BY <1>0, CallTypes DEF Loops, LinkOps, TypeOK
<1>5. Then(<<>>) => work' = <<>>
  <2>1. <<>> \in Seq(CallSet)
    OBVIOUS
  <2> QED BY <1>1, <2>1
<1>6. \A op \in Loops \cup {"close", "reset"} : Then(<<Call(op, l)>>) => work' = <<Call(op, l)>>
  BY <1>1, <1>4
<1>7. ASSUME work' = <<>> \/ \E op \in Loops \cup {"close", "reset"} : work' = <<Call(op, l)>>
      PROVE  /\ Stacked' /\ Aimed' /\ work' \in Seq(CallSet)
             /\ \A x : x.op \in RequestOps => (x \in ToSet(work') <=> x \in ToSet(work))
  <2>1. l \in Linked' /\ l \notin opFini' /\ l \notin opInit' /\ socket'[l] = "open"
    BY <1>0, <1>1, <1>2 DEF Linked, Told
  <2> QED BY <1>1, <1>7, <2>1, GoesOn
<1>A. ASSUME queue[l] = <<>> \/ ~Committed(r), inbox' = [inbox EXCEPT ![l] = <<>>],
             \/ Then(<<>>) /\ opRead' = opRead \cup {l}
             \/ Then(<<Call("reset", l)>>) /\ UNCHANGED opRead,
             UNCHANGED <<requests, queue, opWrite, err, closing>>
      PROVE  IInv'
  <2>1. work' = <<>> \/ \E op \in Loops \cup {"close", "reset"} : work' = <<Call(op, l)>>
    BY <1>5, <1>6, <1>A
  <2>2. /\ Stacked' /\ Aimed' /\ work' \in Seq(CallSet)
        /\ \A x : x.op \in RequestOps => (x \in ToSet(work') <=> x \in ToSet(work))
    BY <1>7, <2>1
  <2>3. /\ Ordered' /\ Matched' /\ Severed' /\ Asked'
        /\ inbox' \in [Link -> Seq(Request \X Status)]
    BY <1>0, <1>2, <1>A, DiscardHolds DEF requests
  <2>4. Unique' /\ Held' /\ Emptied'
    BY <1>0, <1>2, <1>A, <2>2, TagsFrame DEF Committed, requests
  <2>5. Owned' /\ Told' /\ Dispersed'
    BY <1>0, <1>1, <1>2, <1>A, OpenLinkFrame
  <2>6. TypeOK'
    BY <1>0, <1>2, <1>A, <2>3 DEF TypeOK, Status, requests
  <2> QED BY <2>2, <2>3, <2>4, <2>5, <2>6 DEF IInv
<1>B. ASSUME Then(<<>>) \/ Then(<<Call("close", l)>>), opRead' \in {opRead, opRead \cup {l}},
             UNCHANGED <<requests, queue, opWrite, err, closing, inbox>>
      PROVE  IInv'
  <2>1. work' = <<>> \/ \E op \in Loops \cup {"close", "reset"} : work' = <<Call(op, l)>>
    BY <1>5, <1>6, <1>B
  <2>2. faults' \in 0..MaxFaults
    BY <1>0, <1>2 DEF TypeOK
  <2> QED BY <1>1, <1>2, <1>B, <2>1, <2>2, FlagsHold DEF requests
<1>C. ASSUME queue[l] # <<>>, Committed(r), inbox[l] # <<>>, TagDone(l) PROVE IInv'
  <2>1. PICK s : s = r
    OBVIOUS
  <2> HIDE DEF r
  <2>2. /\ future' = IF Abandoned(s) THEN future ELSE [future EXCEPT ![s] = "value"]
        /\ holder' = [holder EXCEPT ![s] = "none"]
        /\ queue' = [queue EXCEPT ![l] = Tail(queue[l])]
        /\ inbox' = [inbox EXCEPT ![l] = Tail(inbox[l])]
        /\ UNCHANGED <<unwritten, opRead>>
        /\ s = Head(queue[l]) /\ Committed(s)
    BY <1>C, <2>1 DEF TagDone, r
  <2>3. /\ err' \in {err, "fresh"} /\ closing' = (closing \/ err' # "none")
        /\ opWrite' \in {opWrite, opWrite \cup {l}}
        /\ Then(<<Call("linkdone", l)>>) \/ Then(<<Call("read", l)>>)
    BY <1>1, <1>C DEF TagDone, WaitWritable
  <2>4. \E op \in Loops \cup {"close", "reset"} : work' = <<Call(op, l)>>
    BY <1>6, <2>3 DEF Loops
  <2>5. /\ Stacked' /\ Aimed' /\ work' \in Seq(CallSet)
        /\ \A x : x.op \in RequestOps => (x \in ToSet(work') <=> x \in ToSet(work))
    BY <1>7, <2>4
  <2>6. \A t \in Request : InWork(t)' <=> InWork(t)
    BY <2>5 DEF InWork
  <2>7. /\ Unique' /\ Held' /\ Ordered' /\ Matched' /\ Severed' /\ Asked'
        /\ queue' \in [Link -> Seq(Request)] /\ inbox' \in [Link -> Seq(Request \X Status)]
        /\ future' \in [Request -> {"none", "pending", "value", "error", "canceled",
                               "refused"}]
        /\ holder' \in [Request -> {"none", "user", "dummy"}]
        /\ \A k \in Link : queue'[k] # <<>> => queue[k] # <<>>
        /\ \A k \in Link : k # l => queue'[k] = queue[k]
    BY <1>0, <1>2, <1>C, <2>2, <2>6, DoneHolds
  <2>8. Emptied'
    BY <1>0, <1>2, <2>7 DEF Emptied
  <2>9. Owned' /\ Told' /\ Dispersed'
    BY <1>0, <1>1, <1>2, <2>2, <2>3, <2>7, OpenLinkFrame
  <2>10. TypeOK'
    BY <1>0, <1>2, <2>2, <2>3, <2>7 DEF TypeOK, Status
  <2> QED BY <2>5, <2>7, <2>8, <2>9, <2>10 DEF IInv
<1> HIDE DEF r
<1> QED BY <1>3, <1>A, <1>B, <1>C

-----------------------------------------------------------------------------
(* The handlers the event loop calls.                                      *)

\* What is known when no handler runs.
LEMMA IdleFacts ==
  ASSUME IInv, Idle
  PROVE  /\ ToSet(work) = {}
         /\ \A r \in Request : ~InWork(r)
         /\ \A l \in opFini : l \in Link /\ l \in Linked /\ queue[l] = <<>>
         /\ \A l \in opFini : \/ socket[l] \in {"closing", "stuck"}
                              \/ socket[l] = "closed" /\ l \in opWrite \cup opRead
         /\ \A l \in Link : socket[l] = "open" => /\ l \notin opFini /\ l \notin opInit
                                                  /\ l \in Linked
<1>1. TypeOK /\ Owned /\ Told /\ Dispersed
  BY DEF IInv
<1>2. ToSet(work) = {}
  BY DEF Idle, ToSet
<1>3. \A r \in Request : ~InWork(r)
  BY <1>2 DEF InWork
<1>4. \A l \in opFini : l \in Link /\ l \in Linked /\ queue[l] = <<>>
  BY <1>1, <1>2 DEF TypeOK, Owned, Dispersed
<1>5. \A l \in opFini : \/ socket[l] \in {"closing", "stuck"}
                        \/ socket[l] = "closed" /\ l \in opWrite \cup opRead
  BY <1>2, <1>1, <1>4 DEF Told
<1>6. \A l \in Link : socket[l] = "open" => l \notin opFini /\ l \notin opInit /\ l \in Linked
  BY <1>1, <1>5 DEF Told, Owned
<1> QED BY <1>2, <1>3, <1>4, <1>5, <1>6

\* The calls a handler may begin with, when they are no request's.
LEMMA Begins ==
  ASSUME work' = <<>> \/ work' = <<Call("closepeer", "peer")>>
  PROVE  /\ Stacked' /\ Aimed' /\ work' \in Seq(CallSet)
         /\ \A x \in ToSet(work') : x.op \notin RequestOps
<1>1. CASE work' = <<>>
  <2>1. <<>> \in Seq(CallSet) /\ ToSet(work') = {}
    BY <1>1 DEF ToSet
  <2> QED BY <1>1, <2>1, StackedNone
<1>2. CASE work' = <<Call("closepeer", "peer")>>
  <2> DEFINE x == Call("closepeer", "peer")
  <2>1. x \in CallSet /\ x.op = "closepeer"
    BY CallTypes
  <2> HIDE DEF x
  <2>2. work' = <<x>>
    BY <1>2 DEF x
  <2>3. ToSet(work') = {x}
    <3>1. DOMAIN work' = {1} /\ work'[1] = x
      BY <2>2
    <3> QED BY <3>1 DEF ToSet
  <2>4. Stacked'
    BY <2>1, <2>2, StackedOne
  <2>5. Aimed'
    BY <2>1, <2>3 DEF Aimed, AimedAt, How
  <2> QED BY <2>1, <2>2, <2>3, <2>4, <2>5 DEF RequestOps
<1> QED BY <1>1, <1>2

\* What happens to the peer alone.
LEMMA PeerHolds ==
  ASSUME IInv, Idle, UNCHANGED <<requests, conns, ops, net>>,
         opResolve' \in BOOLEAN, fini' \in BOOLEAN, remote' \in BOOLEAN, expired' \in BOOLEAN,
         err' \in {"none", "fresh", "old"}, closing' \in BOOLEAN, faults' \in 0..MaxFaults,
         \/ run' = run \/ (run = "RUN" /\ run' = "QUIT")
         \/ /\ run' \in {"INTERRUPTED", "CLOSING", "CLOSED"}
            /\ run \notin {"RUN", "QUIT"} \/ links = <<>>,
         work' = <<>> \/ work' = <<Call("closepeer", "peer")>>
  PROVE  IInv'
<1>0. TypeOK /\ work \in Seq(CallSet) /\ Stacked /\ Aimed /\ Owned /\ Told /\ Dispersed
      /\ Unique /\ Held /\ Emptied /\ Ordered /\ Matched /\ Severed /\ Asked
  BY DEF IInv
<1>1. ToSet(work) = {}
  BY IdleFacts
<1>2. /\ Stacked' /\ Aimed' /\ work' \in Seq(CallSet)
      /\ \A x \in ToSet(work') : x.op \notin RequestOps
  BY Begins
<1>3. UNCHANGED <<future, holder, unwritten, links, queue, socket, opInit, opFini, opWrite,
                     opRead, wire, inbox, answered>>
  BY DEF requests, conns, ops, net
<1>4. /\ run' = run \/ (run = "RUN" /\ run' = "QUIT") \/ \A l \in Link : queue[l] = <<>>
      /\ run' \in {"RUN", "QUIT"} => run \in {"RUN", "QUIT"}
  <2>1. links = <<>> => \A l \in Link : queue[l] = <<>>
    BY <1>0 DEF Owned, Linked, ToSet
  <2> QED BY <1>0, <2>1 DEF Emptied
<1>5. /\ Owned' /\ Told' /\ Dispersed' /\ Unique' /\ Held' /\ Emptied'
      /\ Ordered' /\ Matched' /\ Severed' /\ Asked'
  BY <1>0, <1>1, <1>2, <1>3, <1>4, PeerFrame
<1>6. run' \in {"RUN", "QUIT", "INTERRUPTED", "CLOSING", "CLOSED"}
  BY <1>0 DEF TypeOK
<1>7. TypeOK'
  BY <1>0, <1>3, <1>6 DEF TypeOK
<1> QED BY <1>2, <1>5, <1>7 DEF IInv

LEMMA TimeHolds ==
  ASSUME IInv, DeferredClose \/ RemoteExpires \/ ErrorExpires \/ ErrorClear \/ Quit \/ Close
  PROVE  IInv'
<1>0. TypeOK
  BY DEF IInv
<1>1. Idle /\ UNCHANGED <<requests, conns, ops, net>>
  BY DEF DeferredClose, RemoteExpires, ErrorExpires, ErrorClear, Quit, Close, Start
<1>2. /\ opResolve' \in BOOLEAN /\ fini' \in BOOLEAN /\ remote' \in BOOLEAN /\ expired' \in BOOLEAN
      /\ err' \in {"none", "fresh", "old"} /\ closing' \in BOOLEAN /\ faults' \in 0..MaxFaults
  BY <1>0 DEF TypeOK, DeferredClose, RemoteExpires, ErrorExpires, ErrorClear, Quit, Close
<1>3. \/ run' = run \/ (run = "RUN" /\ run' = "QUIT")
      \/ /\ run' \in {"INTERRUPTED", "CLOSING", "CLOSED"}
         /\ run \notin {"RUN", "QUIT"} \/ links = <<>>
  BY DEF DeferredClose, RemoteExpires, ErrorExpires, ErrorClear, Quit, Close
<1>4. work' = <<>> \/ work' = <<Call("closepeer", "peer")>>
  BY DEF DeferredClose, RemoteExpires, ErrorExpires, ErrorClear, Quit, Close, Start
<1> QED BY <1>1, <1>2, <1>3, <1>4, PeerHolds

LEMMA WaitEndsHolds ==
  ASSUME IInv, NEW l \in Link, Writable(l) \/ Readable(l) PROVE IInv'
<1>0. TypeOK
  BY DEF IInv
<1>1. /\ Idle /\ socket[l] = "open"
      /\ UNCHANGED <<requests, conns, opInit, opFini, peer, net>>
      /\ opWrite' \in {opWrite, opWrite \ {l}} /\ opRead' \in {opRead, opRead \ {l}}
  BY DEF Writable, Readable, Start
<1>f. faults' \in 0..MaxFaults
  BY <1>0, ServerAssumption DEF Writable, Readable, Fault, TypeOK
<1>2. l \notin opFini /\ l \in Linked /\ ToSet(work) = {}
  BY <1>1, IdleFacts
<1>3. \E op \in Loops \cup {"close", "reset"} : work' = <<Call(op, l)>>
  BY DEF Writable, Readable, Start, Loops
<1> QED BY <1>1, <1>f, <1>2, <1>3, FlagsHold DEF requests, conns, peer, net

\* An attempt to connect ends, or attempts begin: what a socket becomes, and
\* the handlers that are called for that.
LEMMA ConnectHolds ==
  ASSUME IInv, Idle, UNCHANGED <<requests, links, queue, opFini, opRead, net, run>>,
         opResolve' \in BOOLEAN, fini' \in BOOLEAN, remote' \in BOOLEAN, expired' \in BOOLEAN,
         err' \in {"none", "fresh", "old"}, closing' \in BOOLEAN, faults' \in 0..MaxFaults,
         opInit' \subseteq Linked, opWrite \subseteq opWrite', opWrite' \subseteq Linked,
         socket' \in [Link -> {"none", "connecting", "open", "closing", "closed", "stuck"}],
         \A l \in Link : /\ socket'[l] # "none" => l \in Linked
                         /\ l \in opInit' => socket'[l] \in {"connecting", "closing", "stuck"}
                         /\ l \in opWrite' \cup opRead => socket'[l] # "none"
                         /\ socket[l] = "open" => socket'[l] = "open"
                         /\ l \notin opFini => socket'[l] \notin {"closing", "stuck"}
                         /\ l \in opFini => socket'[l] = socket[l] \/ socket'[l] = "stuck",
         \/ work' = <<>>
         \/ \E l \in Linked : l \notin opInit' /\ work' = <<Call("reset", l)>>
  PROVE  IInv'
<1>0. TypeOK /\ work \in Seq(CallSet) /\ Stacked /\ Aimed /\ Owned /\ Told /\ Dispersed
      /\ Unique /\ Held /\ Emptied /\ Ordered /\ Matched /\ Severed /\ Asked
  BY DEF IInv
<1>1. /\ ToSet(work) = {}
      /\ \A l \in opFini : l \in Link /\ l \in Linked /\ queue[l] = <<>>
      /\ \A l \in opFini : \/ socket[l] \in {"closing", "stuck"}
                           \/ socket[l] = "closed" /\ l \in opWrite \cup opRead
  BY IdleFacts
<1>2. UNCHANGED <<future, holder, unwritten, links, queue, wire, inbox, answered>> /\ Linked' = Linked
  BY DEF requests, net, Linked
<1>3. /\ Stacked' /\ Aimed' /\ work' \in Seq(CallSet)
      /\ \A x \in ToSet(work') : x.op \notin RequestOps
  <2>1. CASE work' = <<>>
    BY <2>1, Begins
  <2>2. ASSUME NEW l \in Linked, l \notin opInit', work' = <<Call("reset", l)>>
        PROVE  /\ Stacked' /\ Aimed' /\ work' \in Seq(CallSet)
               /\ \A x \in ToSet(work') : x.op \notin RequestOps
    <3> DEFINE x == Call("reset", l)
    <3>1. x \in CallSet /\ x.op = "reset" /\ x.of = l
      <4>1. l \in Link
        BY <1>0 DEF TypeOK, Linked, ToSet
      <4> QED BY <4>1, CallTypes DEF LinkOps
    <3> HIDE DEF x
    <3>2. work' = <<x>>
      BY <2>2 DEF x
    <3>3. ToSet(work') = {x}
      <4>1. DOMAIN work' = {1} /\ work'[1] = x
        BY <3>2
      <4> QED BY <4>1 DEF ToSet
    <3>4. Stacked'
      BY <3>1, <3>2, StackedOne
    <3>5. Aimed'
      BY <1>2, <2>2, <3>1, <3>3 DEF Aimed, AimedAt, How
    <3> QED BY <3>1, <3>2, <3>3, <3>4, <3>5 DEF RequestOps
  <2> QED BY <2>1, <2>2
<1>4. Owned'
  BY <1>0, <1>2 DEF Owned
<1>5. Told'
  <2>1. ASSUME NEW l \in Link
        PROVE  /\ l \in opInit' => socket'[l] \in {"connecting", "closing", "stuck"}
               /\ l \in opWrite' \cup opRead' => socket'[l] # "none"
               /\ socket'[l] \in {"closing", "stuck"} => l \in opFini'
               /\ l \in opFini' => \/ socket'[l] \in {"closing", "stuck"}
                                   \/ socket'[l] = "closed" /\ l \in opWrite' \cup opRead'
                                   \/ \E x \in ToSet(work') : x.op \in How /\ x.of = l
    BY <1>1
  <2> QED BY <2>1 DEF Told
<1>6. Dispersed'
  BY <1>1, <1>2 DEF Dispersed
<1>7. Unique' /\ Held' /\ Emptied'
  <2>1. \A x : x.op \in RequestOps => (x \in ToSet(work') <=> x \in ToSet(work))
    BY <1>1, <1>3
  <2>2. \A r \in Request : Committed(r)' <=> Committed(r)
    BY <1>2 DEF Committed
  <2>3. run' \in {"RUN", "QUIT"} \/ run \notin {"RUN", "QUIT"}
    OBVIOUS
  <2> QED BY <1>0, <1>2, <2>1, <2>2, <2>3, TagsFrame
<1>8. Ordered' /\ Matched' /\ Severed' /\ Asked'
  <2>1. queue \in [Link -> Seq(Request)]
    BY <1>0 DEF TypeOK
  <2>2. opFini \subseteq opFini' /\ (run' \in {"RUN", "QUIT"} => run \in {"RUN", "QUIT"})
    OBVIOUS
  <2> QED BY <1>0, <1>2, <2>1, <2>2, PipesFrame
<1>9. TypeOK'
  <2>1. Linked \subseteq Link
    BY <1>0 DEF TypeOK, Linked, ToSet
  <2>2. opInit' \subseteq Link /\ opWrite' \subseteq Link
    BY <2>1
  <2> QED BY <1>0, <1>2, <2>2 DEF TypeOK
<1> QED BY <1>3, <1>4, <1>5, <1>6, <1>7, <1>8, <1>9 DEF IInv

LEMMA OpenedHolds ==
  ASSUME IInv, NEW l \in Link, Opened(l) PROVE IInv'
<1>0. TypeOK /\ Owned /\ Told
  BY DEF IInv
<1>1. /\ Idle /\ work' = <<>> /\ l \in opInit
      /\ UNCHANGED <<requests, links, queue, opFini, opRead, net, run, opResolve, fini, remote,
                     expired, err, closing, faults>>
      /\ opInit' = opInit \ {l} /\ opWrite' = opWrite \cup ({l} \ opFini)
      /\ socket' = [socket EXCEPT ![l] = IF @ = "connecting" THEN "open" ELSE @]
  BY DEF Opened, Start, WaitWritable, peer
<1>2. /\ socket \in [Link -> {"none", "connecting", "open", "closing", "closed", "stuck"}]
      /\ l \in Linked /\ socket[l] \in {"connecting", "closing", "stuck"}
  BY <1>0, <1>1 DEF TypeOK, Owned, Told
<1>3. /\ socket' \in [Link -> {"none", "connecting", "open", "closing", "closed", "stuck"}]
      /\ socket'[l] = IF socket[l] = "connecting" THEN "open" ELSE socket[l]
      /\ \A k \in Link : k # l => socket'[k] = socket[k]
  BY <1>1, <1>2
<1>4. \A k \in opFini : \/ socket[k] \in {"closing", "stuck"}
                        \/ socket[k] = "closed" /\ k \in opWrite \cup opRead
  BY <1>1, IdleFacts
<1>5. /\ opInit' \subseteq Linked /\ opWrite \subseteq opWrite' /\ opWrite' \subseteq Linked
  BY <1>0, <1>1, <1>2 DEF Owned
<1>6. ASSUME NEW k \in Link
      PROVE  /\ socket'[k] # "none" => k \in Linked
             /\ k \in opInit' => socket'[k] \in {"connecting", "closing", "stuck"}
             /\ k \in opWrite' \cup opRead => socket'[k] # "none"
             /\ socket[k] = "open" => socket'[k] = "open"
             /\ k \notin opFini => socket'[k] \notin {"closing", "stuck"}
             /\ k \in opFini => socket'[k] = socket[k] \/ socket'[k] = "stuck"
  <2>1. CASE k = l
    BY <1>0, <1>1, <1>2, <1>3, <1>4, <2>1 DEF Told
  <2>2. CASE k # l
    BY <1>0, <1>1, <1>3, <2>2 DEF Owned, Told
  <2> QED BY <2>1, <2>2
<1>7. /\ opResolve' \in BOOLEAN /\ fini' \in BOOLEAN /\ remote' \in BOOLEAN /\ expired' \in BOOLEAN
      /\ err' \in {"none", "fresh", "old"} /\ closing' \in BOOLEAN /\ faults' \in 0..MaxFaults
  BY <1>0, <1>1 DEF TypeOK
<1> QED BY <1>1, <1>3, <1>5, <1>6, <1>7, ConnectHolds

LEMMA OpenFailsHolds ==
  ASSUME IInv, NEW l \in Link, OpenFails(l) PROVE IInv'
<1>0. TypeOK /\ Owned /\ Told
  BY DEF IInv
<1>1. /\ socket \in [Link -> {"none", "connecting", "open", "closing", "closed", "stuck"}]
      /\ l \in opInit /\ l \in Linked /\ socket[l] \in {"connecting", "closing", "stuck"}
  BY <1>0 DEF TypeOK, Owned, Told, OpenFails
<1>2. /\ Idle /\ work' = IF fini THEN <<>> ELSE <<Call("reset", l)>>
      /\ UNCHANGED <<requests, links, queue, opFini, opWrite, opRead, net, run, opResolve, fini,
                     remote, expired, closing>>
      /\ opInit' = opInit \ {l}
      /\ socket' = [socket EXCEPT ![l] = IF @ = "connecting" THEN "closed" ELSE @]
  BY <1>1 DEF OpenFails, Start
<1>3. /\ socket' \in [Link -> {"none", "connecting", "open", "closing", "closed", "stuck"}]
      /\ socket'[l] = IF socket[l] = "connecting" THEN "closed" ELSE socket[l]
      /\ \A k \in Link : k # l => socket'[k] = socket[k]
  BY <1>1, <1>2
<1>4. \A k \in opFini : \/ socket[k] \in {"closing", "stuck"}
                        \/ socket[k] = "closed" /\ k \in opWrite \cup opRead
  BY <1>2, IdleFacts
<1>5. /\ opInit' \subseteq Linked /\ opWrite \subseteq opWrite' /\ opWrite' \subseteq Linked
      /\ l \notin opInit'
  BY <1>0, <1>2 DEF Owned
<1>6. ASSUME NEW k \in Link
      PROVE  /\ socket'[k] # "none" => k \in Linked
             /\ k \in opInit' => socket'[k] \in {"connecting", "closing", "stuck"}
             /\ k \in opWrite' \cup opRead => socket'[k] # "none"
             /\ socket[k] = "open" => socket'[k] = "open"
             /\ k \notin opFini => socket'[k] \notin {"closing", "stuck"}
             /\ k \in opFini => socket'[k] = socket[k] \/ socket'[k] = "stuck"
  <2>1. CASE k = l
    BY <1>0, <1>1, <1>3, <1>4, <1>5, <2>1 DEF Told
  <2>2. CASE k # l
    BY <1>0, <1>2, <1>3, <2>2 DEF Owned, Told
  <2> QED BY <2>1, <2>2
<1>7. /\ opResolve' \in BOOLEAN /\ fini' \in BOOLEAN /\ remote' \in BOOLEAN /\ expired' \in BOOLEAN
      /\ closing' \in BOOLEAN
  BY <1>0, <1>2 DEF TypeOK
<1>8. err' \in {"none", "fresh", "old"}
  BY <1>0 DEF TypeOK, OpenFails
<1>9. faults' \in 0..MaxFaults
  BY <1>0, ServerAssumption DEF TypeOK, OpenFails, Fault
<1>10. \/ work' = <<>>
       \/ \E k \in Linked : k \notin opInit' /\ work' = <<Call("reset", k)>>
  BY <1>1, <1>2, <1>5
<1> QED BY <1>2, <1>3, <1>5, <1>6, <1>7, <1>8, <1>9, <1>10, ConnectHolds

LEMMA HandleCloseHolds ==
  ASSUME IInv, NEW l \in Link, HandleClose(l) \/ (Stopped(l) /\ socket[l] = "closed" /\ l \in opFini)
  PROVE  IInv'
<1>0. TypeOK /\ work \in Seq(CallSet) /\ Stacked /\ Aimed /\ Owned /\ Told /\ Dispersed
      /\ Unique /\ Held /\ Emptied /\ Ordered /\ Matched /\ Severed /\ Asked
  BY DEF IInv
<1>1. /\ Idle /\ work' = <<>>
      /\ UNCHANGED <<future, holder, unwritten, opInit, opResolve, fini, remote, expired, err,
                     closing, wire, inbox, answered, faults>>
  BY DEF HandleClose, Stopped, Start, requests, net
<1>2. l \in opFini /\ socket[l] \in {"closing", "closed"} /\ l \notin opInit
  BY <1>0 DEF HandleClose, Told
<1>3. ToSet(work) = {} /\ queue[l] = <<>>
  BY <1>1, <1>2, IdleFacts
<1>4. /\ opWrite' \in {opWrite, opWrite \ {l}} /\ opRead' \in {opRead, opRead \ {l}}
      /\ \E pending \in BOOLEAN : /\ Shut(l, pending)
                                  /\ pending <=> l \in opWrite' \cup opRead'
  <2>1. CASE HandleClose(l)
    <3>1. Shut(l, Pending(l)) /\ UNCHANGED <<opWrite, opRead>>
      BY <2>1 DEF HandleClose
    <3>2. Pending(l) \in BOOLEAN /\ (Pending(l) <=> l \in opWrite' \cup opRead')
      BY <1>2, <3>1 DEF Pending
    <3> DEFINE pending == Pending(l)
    <3> HIDE DEF pending
    <3>3. pending \in BOOLEAN /\ Shut(l, pending) /\ (pending <=> l \in opWrite' \cup opRead')
      BY <3>1, <3>2 DEF pending
    <3> QED BY <3>1, <3>3
  <2>2. CASE ~HandleClose(l)
    <3>1. Stopped(l) /\ socket[l] = "closed"
      BY <2>2
    <3>2. /\ Shut(l, l \in opInit \cup opWrite' \cup opRead')
          /\ opWrite' \in {opWrite, opWrite \ {l}} /\ opRead' \in {opRead, opRead \ {l}}
      BY <1>2, <3>1 DEF Stopped
    <3> DEFINE pending == l \in opInit \cup opWrite' \cup opRead'
    <3>3. pending \in BOOLEAN /\ Shut(l, pending) /\ (pending <=> l \in opWrite' \cup opRead')
      BY <1>2, <3>2
    <3> HIDE DEF pending
    <3> QED BY <3>2, <3>3
  <2> QED BY <2>1, <2>2
<1>5. PICK pending \in BOOLEAN : /\ Shut(l, pending)
                                 /\ pending <=> l \in opWrite' \cup opRead'
  BY <1>4
<1>6. /\ wire' \in [Link -> Seq(Request)] /\ inbox' \in [Link -> Seq(Request \X Status)]
      /\ wire'[l] = <<>> /\ inbox'[l] = <<>>
  BY <1>0, <1>1, <1>2 DEF TypeOK, Status, Severed
<1>7. /\ opInit' \subseteq opInit /\ opWrite' \subseteq opWrite /\ opRead' \subseteq opRead
      /\ l \notin opInit'
      /\ \A k \in Link : k # l => /\ k \in opInit => k \in opInit'
                                  /\ k \in opWrite => k \in opWrite'
                                  /\ k \in opRead => k \in opRead'
  BY <1>1, <1>2, <1>4
<1>8. ToSet(work') = {} /\ work' \in Seq(CallSet) /\ Stacked' /\ Aimed'
  <2>1. <<>> \in Seq(CallSet) /\ ToSet(<<>>) = {}
    BY DEF ToSet
  <2> QED BY <1>1, <2>1, StackedNone
<1>9. /\ Owned' /\ Told' /\ Dispersed' /\ Unique' /\ Held' /\ Emptied'
      /\ Ordered' /\ Matched' /\ Severed' /\ Asked'
      /\ links' \in Seq(Link) /\ queue' = queue
      /\ socket' \in [Link -> {"none", "connecting", "open", "closing", "closed", "stuck"}]
      /\ opFini' \subseteq opFini
      /\ run' \in {run, "CLOSED"}
  BY <1>0, <1>1, <1>2, <1>3, <1>5, <1>6, <1>7, <1>8, ShutHolds
<1>10. TypeOK'
  BY <1>0, <1>1, <1>6, <1>7, <1>9 DEF TypeOK, Status
<1> QED BY <1>8, <1>9, <1>10 DEF IInv

LEMMA StoppedHolds ==
  ASSUME IInv, NEW l \in Link, Stopped(l) PROVE IInv'
<1>A. CASE socket[l] = "closed" /\ l \in opFini
  BY <1>A, HandleCloseHolds
<1>B. CASE ~(socket[l] = "closed" /\ l \in opFini)
  <2>0. TypeOK /\ work \in Seq(CallSet) /\ Stacked /\ Aimed /\ Owned /\ Told /\ Dispersed
        /\ Unique /\ Held /\ Emptied /\ Ordered /\ Matched /\ Severed /\ Asked
    BY DEF IInv
  <2>1. /\ Idle /\ work' = <<>> /\ socket[l] \in {"closing", "closed"}
        /\ UNCHANGED <<future, holder, unwritten, links, queue, socket, opInit, opFini, opResolve,
                       fini, remote, expired, err, closing, run, wire, inbox, answered, faults>>
        /\ opWrite' \in {opWrite, opWrite \ {l}} /\ opRead' \in {opRead, opRead \ {l}}
    BY <1>B DEF Stopped, Start, requests, conns, net
  <2>2. ToSet(work) = {} /\ ToSet(work') = {} /\ work' \in Seq(CallSet) /\ Stacked' /\ Aimed'
    <3>1. <<>> \in Seq(CallSet) /\ ToSet(<<>>) = {}
      BY DEF ToSet
    <3> QED BY <2>1, <3>1, IdleFacts, StackedNone
  <2>3. Linked' = Linked
    BY <2>1 DEF Linked
  <2>4. Owned'
    BY <2>0, <2>1, <2>3 DEF Owned
  <2>5. Told'
    <3>1. ASSUME NEW k \in Link
          PROVE  /\ k \in opInit => socket[k] \in {"connecting", "closing", "stuck"}
                 /\ k \in opWrite' \cup opRead' => socket[k] # "none"
                 /\ socket[k] \in {"closing", "stuck"} => k \in opFini
                 /\ k \in opFini => \/ socket[k] \in {"closing", "stuck"}
                                    \/ socket[k] = "closed" /\ k \in opWrite' \cup opRead'
      BY <1>B, <2>0, <2>1, <2>2 DEF Told
    <3> QED BY <2>1, <3>1 DEF Told
  <2>6. Dispersed'
    BY <2>0, <2>1, <2>2 DEF Dispersed
  <2>7. Unique' /\ Held' /\ Emptied'
    BY <2>0, <2>1, <2>2, TagsFrame DEF Committed
  <2>8. Ordered' /\ Matched' /\ Severed' /\ Asked'
    BY <2>0, <2>1, PipesFrame DEF TypeOK
  <2>9. TypeOK'
    BY <2>0, <2>1 DEF TypeOK
  <2> QED BY <2>2, <2>4, <2>5, <2>6, <2>7, <2>8, <2>9 DEF IInv
<1> QED BY <1>A, <1>B

LEMMA ResolvedHolds ==
  ASSUME IInv, Resolved PROVE IInv'
<1>0. TypeOK /\ Owned /\ Told
  BY DEF IInv
<1>1. /\ Idle /\ opResolve' = FALSE /\ fini' = (fini \/ run # "RUN")
      /\ UNCHANGED <<requests, links, queue, opFini, opWrite, opRead, closing, net>>
  BY DEF Resolved, Start
<1>2. /\ opResolve' \in BOOLEAN /\ fini' \in BOOLEAN /\ closing' \in BOOLEAN
  BY <1>0, <1>1 DEF TypeOK
<1>A. CASE fini'
  <2>1. /\ work' = <<>> /\ FinishPeer(links, FALSE, TRUE)
        /\ UNCHANGED <<socket, opInit, remote, expired, err, faults>>
    BY <1>A DEF Resolved, Start, ResolvedLast
  <2>2. run' = run \/ (run' = "CLOSED" /\ links = <<>>)
    BY <2>1 DEF FinishPeer
  <2>3. UNCHANGED <<requests, conns, ops, net>>
    BY <1>1, <2>1 DEF conns, ops
  <2>4. /\ remote' \in BOOLEAN /\ expired' \in BOOLEAN
        /\ err' \in {"none", "fresh", "old"} /\ faults' \in 0..MaxFaults
    BY <1>0, <2>1 DEF TypeOK
  <2> QED BY <1>1, <1>2, <2>1, <2>2, <2>3, <2>4, PeerHolds
<1>B. CASE ~fini'
  <2>A. CASE work' = <<>>
    <3> DEFINE S == {l \in Linked \ opInit : socket[l] \in {"none", "closed"}}
    <3>1. /\ remote' = TRUE /\ expired' = FALSE /\ Opening(S) /\ UNCHANGED <<err, faults, run>>
      <4>1. work' # <<Call("closepeer", "peer")>>
        BY <2>A
      <4> QED BY <1>B, <4>1 DEF Resolved, Start
    <3>2. /\ socket \in [Link -> {"none", "connecting", "open", "closing", "closed", "stuck"}]
          /\ Linked \subseteq Link
      BY <1>0 DEF TypeOK, Linked, ToSet
    <3>3. /\ socket' = [l \in Link |-> IF l \notin S THEN socket[l]
                                       ELSE IF l \in opFini THEN "stuck" ELSE "connecting"]
          /\ opInit' = opInit \cup S
      BY <3>1 DEF Opening
    <3>4. socket' \in [Link -> {"none", "connecting", "open", "closing", "closed", "stuck"}]
      BY <3>2, <3>3
    <3>5. opInit' \subseteq Linked /\ opWrite \subseteq opWrite' /\ opWrite' \subseteq Linked
      BY <1>0, <1>1, <3>3 DEF Owned
    <3>6. ASSUME NEW k \in Link
          PROVE  /\ socket'[k] # "none" => k \in Linked
                 /\ k \in opInit' => socket'[k] \in {"connecting", "closing", "stuck"}
                 /\ k \in opWrite' \cup opRead => socket'[k] # "none"
                 /\ socket[k] = "open" => socket'[k] = "open"
                 /\ k \notin opFini => socket'[k] \notin {"closing", "stuck"}
                 /\ k \in opFini => socket'[k] = socket[k] \/ socket'[k] = "stuck"
      <4>1. CASE k \in S
        <5>1. k \in Linked /\ socket'[k] = IF k \in opFini THEN "stuck" ELSE "connecting"
          BY <3>3, <4>1
        <5>2. socket[k] # "open"
          BY <4>1
        <5> QED BY <1>0, <1>1, <5>1, <5>2
      <4>2. CASE k \notin S
        <5>1. socket'[k] = socket[k] /\ (k \in opInit' => k \in opInit)
          BY <3>3, <4>2
        <5> QED BY <1>0, <1>1, <5>1 DEF Owned, Told
      <4> QED BY <4>1, <4>2
    <3>7. /\ remote' \in BOOLEAN /\ expired' \in BOOLEAN
          /\ err' \in {"none", "fresh", "old"} /\ faults' \in 0..MaxFaults
      BY <1>0, <3>1 DEF TypeOK
    <3> HIDE DEF S
    <3> QED BY <1>1, <1>2, <2>A, <3>1, <3>4, <3>5, <3>6, <3>7, ConnectHolds
  <2>B. CASE work' # <<>>
    <3>1. /\ work' = <<Call("closepeer", "peer")>> /\ err' = "fresh" /\ Fault
          /\ UNCHANGED <<remote, expired, socket, opInit, run>>
      BY <1>B, <2>B DEF Resolved, Start
    <3>2. UNCHANGED <<requests, conns, ops, net>>
      BY <1>1, <3>1 DEF conns, ops
    <3>3. /\ remote' \in BOOLEAN /\ expired' \in BOOLEAN
          /\ err' \in {"none", "fresh", "old"} /\ faults' \in 0..MaxFaults
      BY <1>0, <3>1, ServerAssumption DEF TypeOK, Fault
    <3> QED BY <1>1, <1>2, <3>1, <3>2, <3>3, PeerHolds
  <2> QED BY <2>A, <2>B
<1> QED BY <1>A, <1>B

LEMMA AnswerHolds ==
  ASSUME IInv, NEW l \in Link, Answer(l) PROVE IInv'
<1>0. TypeOK /\ work \in Seq(CallSet) /\ Stacked /\ Aimed /\ Owned /\ Told /\ Dispersed
      /\ Unique /\ Held /\ Emptied /\ Ordered /\ Matched /\ Severed /\ Asked
  BY DEF IInv
<1> DEFINE r == Head(wire[l])
<1>1. /\ Idle /\ work' = <<>> /\ socket[l] = "open" /\ wire[l] # <<>>
      /\ UNCHANGED <<future, holder, unwritten, links, queue, socket, opInit, opFini, opWrite,
                     opRead, opResolve, fini, remote, expired, err, closing, run, faults>>
      /\ wire' = [wire EXCEPT ![l] = Tail(@)]
      /\ answered' = answered \cup {r}
  BY DEF Answer, Start, requests, conns, ops, peer
<1>2. PICK status \in Status : inbox' = [inbox EXCEPT ![l] = Append(@, <<r, status>>)]
  BY DEF Answer, Status
<1>3. /\ wire \in [Link -> Seq(Request)] /\ inbox \in [Link -> Seq(Request \X Status)]
      /\ queue \in [Link -> Seq(Request)] /\ answered \subseteq Request
  BY <1>0 DEF TypeOK, Status
<1>4. /\ r \in ToSet(wire[l]) /\ r \in Request
      /\ Tail(wire[l]) \in Seq(Request) /\ Distinct(Tail(wire[l]))
      /\ ToSet(Tail(wire[l])) = ToSet(wire[l]) \ {r}
  <2>1. wire[l] \in Seq(Request) /\ Distinct(wire[l])
    BY <1>0, <1>3 DEF Asked
  <2> QED BY <1>1, <2>1, HeadInList, TailDistinct
<1>5. Committed(r) /\ r \notin answered
  BY <1>0, <1>4 DEF Asked
<1> DEFINE x == <<r, status>>
           b == Append(inbox[l], x)
<1>6. x \in Request \X Status /\ x[1] = r
  BY <1>4
<1> HIDE DEF r, x
<1>7. /\ b \in Seq(Request \X Status) /\ Len(inbox[l]) \in Nat
      /\ DOMAIN inbox[l] = 1..Len(inbox[l]) /\ DOMAIN b = 1..(Len(inbox[l]) + 1)
      /\ \A i \in DOMAIN inbox[l] : b[i] = inbox[l][i]
      /\ b[Len(inbox[l]) + 1] = x
  <2>1. inbox[l] \in Seq(Request \X Status)
    BY <1>3
  <2>2. /\ b \in Seq(Request \X Status) /\ Len(b) = Len(inbox[l]) + 1
        /\ \A i \in 1..Len(inbox[l]) : b[i] = inbox[l][i]
        /\ b[Len(inbox[l]) + 1] = x
    BY <1>6, <2>1, AppendProperties
  <2>3. Len(inbox[l]) \in Nat /\ DOMAIN inbox[l] = 1..Len(inbox[l]) /\ DOMAIN b = 1..Len(b)
    BY <2>1, <2>2, LenProperties
  <2> QED BY <2>2, <2>3
<1> HIDE DEF b
<1>8. /\ inbox'[l] = b /\ wire'[l] = Tail(wire[l])
      /\ \A k \in Link : k # l => inbox'[k] = inbox[k] /\ wire'[k] = wire[k]
      /\ inbox' \in [Link -> Seq(Request \X Status)] /\ wire' \in [Link -> Seq(Request)]
  BY <1>1, <1>2, <1>3, <1>4, <1>7 DEF x, b
<1>9. ToSet(work) = {} /\ ToSet(work') = {} /\ work' \in Seq(CallSet) /\ Stacked' /\ Aimed'
  <2>1. <<>> \in Seq(CallSet) /\ ToSet(<<>>) = {}
    BY DEF ToSet
  <2> QED BY <1>1, <2>1, IdleFacts, StackedNone
<1>10. Owned' /\ Told' /\ Dispersed'
  <2>1. UNCHANGED <<links, queue, socket, opInit, opFini, opWrite, opRead>>
    BY <1>1
  <2>2. Linked' = Linked
    BY <2>1 DEF Linked
  <2> QED BY <1>0, <1>9, <2>1, <2>2 DEF Owned, Told, Dispersed
<1>11. Unique' /\ Held' /\ Emptied'
  BY <1>0, <1>1, <1>9, TagsFrame DEF Committed
<1>12. Revealed' = Revealed /\ \A k \in Link : Live(k)' = Live(k)
  BY <1>1 DEF Revealed, Committed, Live
<1>13. \A k \in Link : PipedAt(k)
  BY <1>0, <1>3, PipedIs
<1>14. ASSUME NEW k \in Link
       PROVE  Piped(queue'[k], inbox'[k], wire'[k], Revealed', Live(k)')
  <2>1. CASE k # l
    BY <1>1, <1>3, <1>8, <1>12, <1>13, <2>1, PipedKept
  <2>2. CASE k = l
    <3> DEFINE C == Revealed
               live == Live(l)
    <3>1. live \in BOOLEAN
      BY DEF Live
    <3>2. Piped(queue[l], inbox[l], wire[l], C, live)
      BY <1>13 DEF PipedAt
    <3> HIDE DEF C, live
    <3>3. queue[l] \in Seq(Request) /\ inbox[l] \in Seq(Request \X Status) /\ wire[l] \in Seq(Request)
      BY <1>3
    <3>4. Piped(queue[l], Append(inbox[l], <<Head(wire[l]), status>>), Tail(wire[l]), C, live)
      BY <1>1, <3>1, <3>2, <3>3, PipedAnswer
    <3>5. Piped(queue[l], b, Tail(wire[l]), C, live)
      BY <3>4 DEF b, x, r
    <3> QED BY <1>1, <1>8, <1>12, <2>2, <3>5 DEF C, live
  <2> QED BY <2>1, <2>2
<1>15. Ordered' /\ Matched'
  <2>1. queue' \in [Link -> Seq(Request)]
    BY <1>1, <1>3
  <2> QED BY <1>14, <2>1, PipedNext
<1>16. Severed'
  <2>1. ASSUME NEW k \in Link, socket'[k] # "open" PROVE wire'[k] = <<>> /\ inbox'[k] = <<>>
    BY <1>0, <1>1, <1>8, <2>1 DEF Severed
  <2> QED BY <2>1 DEF Severed
<1>17. Asked'
  <2>0. \A s : Committed(s)' <=> Committed(s)
    BY <1>1 DEF Committed
  <2>1. ASSUME NEW k \in Link
        PROVE  /\ Distinct(wire'[k]) /\ ToSet(wire'[k]) \subseteq ToSet(wire[k])
               /\ r \notin ToSet(wire'[k])
    <3>1. CASE k = l
      BY <1>4, <1>8, <3>1
    <3>2. CASE k # l
      <4>1. wire'[k] = wire[k]
        BY <1>8, <3>2
      <4> QED BY <1>0, <1>4, <3>2, <4>1 DEF Asked
    <3> QED BY <3>1, <3>2
  <2>2. ASSUME NEW j \in Link, NEW k \in Link, NEW s \in Request,
               s \in ToSet(wire'[j]), s \in ToSet(wire'[k])
        PROVE  j = k
    BY <1>0, <2>1, <2>2 DEF Asked
  <2>3. ASSUME NEW k \in Link, NEW s \in ToSet(wire'[k]) PROVE Committed(s)' /\ s \notin answered'
    <3>1. s \in ToSet(wire[k]) /\ s # r
      BY <2>1, <2>3
    <3> QED BY <1>0, <1>1, <2>0, <3>1 DEF Asked
  <2>4. \A s \in answered' : Committed(s)'
    BY <1>0, <1>1, <1>5, <2>0 DEF Asked
  <2>5. ASSUME NEW k \in Link, NEW i \in DOMAIN inbox'[k] PROVE inbox'[k][i][1] \in answered'
    <3>1. CASE k # l
      <4>1. inbox'[k] = inbox[k]
        BY <1>8, <3>1
      <4> QED BY <1>0, <1>1, <2>5, <4>1 DEF Asked
    <3>2. CASE k = l
      <4>1. inbox'[k] = b /\ i \in DOMAIN b
        BY <1>8, <2>5, <3>2
      <4>2. CASE i \in DOMAIN inbox[l]
        <5>1. b[i] = inbox[l][i]
          BY <1>7, <4>2
        <5> QED BY <1>0, <1>1, <4>1, <4>2, <5>1 DEF Asked
      <4>3. CASE i \notin DOMAIN inbox[l]
        <5>1. i = Len(inbox[l]) + 1
          BY <1>7, <4>1, <4>3
        <5> QED BY <1>1, <1>6, <1>7, <4>1, <5>1
      <4> QED BY <4>2, <4>3
    <3> QED BY <3>1, <3>2
  <2> QED BY <2>1, <2>2, <2>3, <2>4, <2>5 DEF Asked
<1>18. TypeOK'
  <2>1. answered' \subseteq Request
    BY <1>1, <1>3, <1>4
  <2> QED BY <1>0, <1>1, <1>8, <2>1 DEF TypeOK, Status
<1> QED BY <1>9, <1>10, <1>11, <1>15, <1>16, <1>17, <1>18 DEF IInv

LEMMA BeginSubmitHolds ==
  ASSUME IInv, NEW r \in Request, Submit(r) PROVE IInv'
<1>0. TypeOK /\ work \in Seq(CallSet) /\ Stacked /\ Aimed /\ Owned /\ Told /\ Dispersed
      /\ Unique /\ Held /\ Emptied /\ Ordered /\ Matched /\ Severed /\ Asked
  BY DEF IInv
<1> DEFINE x == Call("submit", r)
<1>1. /\ Idle /\ work' = <<x>> /\ future[r] = "none" /\ run = "RUN"
      /\ opResolve' = (opResolve \/ (expired /\ ~fini))
      /\ UNCHANGED <<future, holder, unwritten, links, queue, socket, opInit, opFini, opWrite,
                     opRead, fini, remote, expired, err, closing, run, wire, inbox, answered, faults>>
  BY DEF Submit, requests, conns, ops, net
<1>2. x \in CallSet /\ x.op = "submit" /\ x.of = r
  BY CallTypes DEF RequestOps
<1> HIDE DEF x
<1>3. ToSet(work) = {} /\ \A s \in Request : ~InWork(s)
  BY <1>1, IdleFacts
<1>4. ToSet(work') = {x}
  <2>1. DOMAIN work' = {1} /\ work'[1] = x
    BY <1>1
  <2> QED BY <2>1 DEF ToSet
<1>5. work' \in Seq(CallSet)
  BY <1>1, <1>2
<1>6. Stacked'
  BY <1>1, <1>2, StackedOne
<1>7. Aimed'
  BY <1>2, <1>4 DEF Aimed, AimedAt, How
<1>8. Owned' /\ Told' /\ Dispersed'
  <2>1. Linked' = Linked
    BY <1>1 DEF Linked
  <2> QED BY <1>0, <1>1, <1>3, <2>1 DEF Owned, Told, Dispersed
<1>9. \A s \in Request : /\ InWork(s)' => s = r
                         /\ InQueue(s)' <=> InQueue(s)
                         /\ Committed(s)' <=> Committed(s)
  BY <1>1, <1>2, <1>4 DEF InWork, InQueue, Committed
<1>10. ~InQueue(r) /\ ~Committed(r)
  BY <1>0, <1>1 DEF Held
<1>11. Unique'
  BY <1>0, <1>1, <1>9, <1>10 DEF Unique
<1>12. Held'
  BY <1>0, <1>1, <1>3, <1>9 DEF Held
<1>13. Emptied'
  BY <1>0, <1>1 DEF Emptied
<1>14. Ordered' /\ Matched' /\ Severed' /\ Asked'
  BY <1>0, <1>1, PipesFrame DEF TypeOK
<1>15. TypeOK'
  BY <1>0, <1>1 DEF TypeOK
<1> QED BY <1>5, <1>6, <1>7, <1>8, <1>11, <1>12, <1>13, <1>14, <1>15 DEF IInv

LEMMA CancelHolds ==
  ASSUME IInv, NEW r \in Request, Cancel(r) PROVE IInv'
<1>0. TypeOK /\ work \in Seq(CallSet) /\ Stacked /\ Aimed /\ Owned /\ Told /\ Dispersed
      /\ Unique /\ Held /\ Emptied /\ Ordered /\ Matched /\ Severed /\ Asked
  BY DEF IInv
<1>1. /\ Idle /\ work' = <<>> /\ future[r] = "pending"
      /\ future' = [future EXCEPT ![r] = "canceled"]
      /\ holder' = [holder EXCEPT ![r] = IF Committed(r) THEN "dummy" ELSE "none"]
      /\ UNCHANGED <<unwritten, links, queue, socket, opInit, opFini, opWrite, opRead, opResolve,
                     fini, remote, expired, err, closing, run, wire, inbox, answered, faults>>
  BY DEF Cancel, Start, conns, ops, peer, net
<1>2. /\ future' \in [Request -> {"none", "pending", "value", "error", "canceled", "refused"}]
      /\ holder' \in [Request -> {"none", "user", "dummy"}]
      /\ future'[r] = "canceled" /\ holder'[r] = IF Committed(r) THEN "dummy" ELSE "none"
      /\ \A s \in Request : s # r => future'[s] = future[s] /\ holder'[s] = holder[s]
  BY <1>0, <1>1 DEF TypeOK
<1>3. /\ ToSet(work) = {} /\ ToSet(work') = {} /\ work' \in Seq(CallSet) /\ Stacked' /\ Aimed'
      /\ \A s \in Request : ~InWork(s) /\ ~InWork(s)'
  <2>1. <<>> \in Seq(CallSet) /\ ToSet(<<>>) = {}
    BY DEF ToSet
  <2>2. ToSet(work) = {} /\ ToSet(work') = {}
    BY <1>1, <2>1, IdleFacts
  <2> QED BY <1>1, <2>1, <2>2, StackedNone DEF InWork
<1>4. Owned' /\ Told' /\ Dispersed'
  <2>1. Linked' = Linked
    BY <1>1 DEF Linked
  <2> QED BY <1>0, <1>1, <1>3, <2>1 DEF Owned, Told, Dispersed
<1>5. \A s \in Request : /\ InQueue(s)' <=> InQueue(s)
                         /\ Committed(s)' <=> Committed(s)
  BY <1>1 DEF InQueue, Committed
<1>6. Unique'
  BY <1>0, <1>1, <1>3 DEF Unique
<1>7. Held'
  <2>1. ASSUME NEW s \in Request
        PROVE  /\ holder'[s] = "user" <=> future'[s] = "pending"
               /\ holder'[s] = "dummy" => Committed(s)'
               /\ holder'[s] = "none" /\ InQueue(s)' => ~Committed(s)'
               /\ future'[s] = "none" => ~Committed(s)' /\ ~InQueue(s)'
               /\ future'[s] = "pending" => InWork(s)' \/ InQueue(s)'
    <3>1. CASE s = r
      BY <1>2, <1>5, <3>1
    <3>2. CASE s # r
      BY <1>0, <1>2, <1>3, <1>5, <3>2 DEF Held
    <3> QED BY <3>1, <3>2
  <2> QED BY <2>1 DEF Held
<1>8. Emptied'
  BY <1>0, <1>1 DEF Emptied
<1>9. Ordered' /\ Matched' /\ Severed' /\ Asked'
  BY <1>0, <1>1, PipesFrame DEF TypeOK
<1>10. TypeOK'
  BY <1>0, <1>1, <1>2 DEF TypeOK
<1> QED BY <1>3, <1>4, <1>6, <1>7, <1>8, <1>9, <1>10 DEF IInv

LEMMA InterruptHolds ==
  ASSUME IInv, Interrupt PROVE IInv'
<1>0. TypeOK /\ work \in Seq(CallSet) /\ Stacked /\ Aimed /\ Owned /\ Told /\ Dispersed
      /\ Unique /\ Held /\ Emptied /\ Ordered /\ Matched /\ Severed /\ Asked
  BY DEF IInv
<1> DEFINE T == UNION {ToSet(queue[l]) : l \in Linked}
<1>1. /\ Idle /\ work' = <<>> /\ run' = "INTERRUPTED" /\ FailTags(T)
      /\ queue' = [l \in Link |-> <<>>]
      /\ UNCHANGED <<links, socket, opInit, opFini, opWrite, opRead, opResolve, fini, remote,
                     expired, err, closing, wire, inbox, answered, faults>>
  BY DEF Interrupt, Start, ops, net
<1>2. \A s : s \in T <=> \E k \in Link : s \in ToSet(queue[k])
  <2>1. ASSUME NEW s, NEW k \in Link, s \in ToSet(queue[k]) PROVE k \in Linked
    <3>1. queue[k] # <<>>
      BY <2>1 DEF ToSet
    <3> QED BY <1>0, <3>1 DEF Owned
  <2>2. Linked \subseteq Link
    BY <1>0 DEF TypeOK, Linked, ToSet
  <2> QED BY <2>1, <2>2
<1> HIDE DEF T
<1>3. /\ ToSet(work) = {} /\ ToSet(work') = {} /\ work' \in Seq(CallSet) /\ Stacked' /\ Aimed'
      /\ \A s \in Request : ~InWork(s) /\ ~InWork(s)'
  <2>1. <<>> \in Seq(CallSet) /\ ToSet(<<>>) = {}
    BY DEF ToSet
  <2>2. ToSet(work) = {} /\ ToSet(work') = {}
    BY <1>1, <2>1, IdleFacts
  <2> QED BY <1>1, <2>1, <2>2, StackedNone DEF InWork
<1>4. /\ Unique' /\ Held' /\ unwritten' = unwritten /\ Ordered' /\ Matched'
      /\ future' \in [Request -> {"none", "pending", "value", "error", "canceled", "refused"}]
      /\ holder' \in [Request -> {"none", "user", "dummy"}]
      /\ queue' \in [Link -> Seq(Request)]
  <2>1. queue' = [k \in Link |-> IF k \in Link THEN <<>> ELSE queue[k]]
    BY <1>1
  <2>2. \A k \in Link : ~Live(k)'
    BY <1>1 DEF Live
  <2> DEFINE K == Link
  <2>3. K \in SUBSET Link
    OBVIOUS
  <2> HIDE DEF K
  <2>4. /\ queue' = [k \in Link |-> IF k \in K THEN <<>> ELSE queue[k]]
        /\ \A s : s \in T <=> \E k \in K : s \in ToSet(queue[k])
    BY <1>2, <2>1 DEF K
  <2> QED BY <1>0, <1>1, <1>3, <2>2, <2>3, <2>4, FailHolds
<1>5. Owned' /\ Told' /\ Dispersed'
  <2>1. Linked' = Linked
    BY <1>1 DEF Linked
  <2>2. \A l \in Link : queue'[l] = <<>>
    BY <1>1
  <2> QED BY <1>0, <1>1, <1>3, <2>1, <2>2 DEF Owned, Told, Dispersed, TypeOK
<1>6. Emptied'
  BY <1>1 DEF Emptied
<1>7. Severed'
  BY <1>0, <1>1 DEF Severed
<1>8. Asked'
  BY <1>0, <1>1, <1>4 DEF Asked, Committed
<1>9. TypeOK'
  BY <1>0, <1>1, <1>4 DEF TypeOK
<1> QED BY <1>3, <1>4, <1>5, <1>6, <1>7, <1>8, <1>9 DEF IInv

-----------------------------------------------------------------------------
(* The invariant of the specification.                                     *)

LEMMA InitHolds == Init => IInv
<1> SUFFICES ASSUME Init PROVE IInv
  OBVIOUS
<1>1. /\ ToSet(<<>>) = {} /\ Distinct(<<>>) /\ DOMAIN <<>> = {} /\ Len(<<>>) = 0
      /\ <<>> \in Seq(CallSet) /\ <<>> \in Seq(Link) /\ <<>> \in Seq(Request)
      /\ <<>> \in Seq(Request \X {"ok", "unavailable"})
  BY DEF ToSet, Distinct
<1>2. \A r \in Request : ~InWork(r) /\ ~InQueue(r) /\ ~Committed(r)
  BY <1>1, ServerAssumption DEF Init, InWork, InQueue, Committed
<1>3. TypeOK /\ work \in Seq(CallSet)
  <2>1. Pieces \in 0..Pieces /\ 0 \in 0..MaxFaults
    BY ServerAssumption
  <2>2. /\ future \in [Request -> {"none", "pending", "value", "error", "canceled", "refused"}]
        /\ holder \in [Request -> {"none", "user", "dummy"}]
        /\ unwritten \in [Request -> 0..Pieces]
        /\ socket \in [Link -> {"none", "connecting", "open", "closing", "closed", "stuck"}]
    BY <2>1 DEF Init
  <2>3. /\ queue \in [Link -> Seq(Request)] /\ wire \in [Link -> Seq(Request)]
        /\ inbox \in [Link -> Seq(Request \X {"ok", "unavailable"})]
        /\ links \in Seq(Link) /\ work \in Seq(CallSet)
    BY <1>1 DEF Init
  <2> QED BY <2>1, <2>2, <2>3 DEF Init, TypeOK
<1>4. Stacked /\ Aimed
  BY <1>1 DEF Init, Stacked, Aimed
<1>5. Owned /\ Told /\ Dispersed
  BY <1>1 DEF Init, Owned, Told, Dispersed, Linked
<1>6. Unique /\ Held /\ Emptied
  BY <1>1, <1>2 DEF Init, Unique, Held, Emptied
<1>7. \A l \in Link : TagCommitted(l) = 0
  <2>1. ASSUME NEW l \in Link PROVE TagCommitted(l) = 0
    <3>1. {i \in DOMAIN queue[l] : Committed(queue[l][i])} = {}
      BY <1>1 DEF Init
    <3> QED BY <3>1, FS_EmptySet DEF TagCommitted
  <2> QED BY <2>1
<1>8. Ordered /\ Matched
  BY <1>1, <1>7, ServerAssumption DEF Init, Ordered, Matched
<1>9. Severed /\ Asked
  BY <1>1 DEF Init, Severed, Asked
<1> QED BY <1>3, <1>4, <1>5, <1>6, <1>8, <1>9 DEF IInv

LEMMA StutterHolds == ASSUME IInv, UNCHANGED vars PROVE IInv'
<1>0. TypeOK /\ work \in Seq(CallSet) /\ Stacked /\ Aimed /\ Owned /\ Told /\ Dispersed
      /\ Unique /\ Held /\ Emptied /\ Ordered /\ Matched /\ Severed /\ Asked
  BY DEF IInv
<1>1. /\ UNCHANGED <<future, holder, unwritten, links, queue, socket, opInit, opFini, opWrite>>
      /\ UNCHANGED <<opRead, opResolve, fini, remote, expired, err, closing, run>>
      /\ UNCHANGED <<wire, inbox, answered, faults, work>>
  BY DEF vars, requests, conns, ops, peer, net
<1>2. TypeOK' /\ (work \in Seq(CallSet))'
  BY <1>0, <1>1 DEF TypeOK
<1>3. Stacked'
  BY <1>0, <1>1 DEF Stacked
<1>4. Aimed'
  <2>1. Linked \subseteq Linked'
    BY <1>1 DEF Linked
  <2> QED BY <1>0, <1>1, <2>1, AimedFrame
<1>5. /\ Owned' /\ Told' /\ Dispersed' /\ Unique' /\ Held' /\ Emptied'
      /\ Ordered' /\ Matched' /\ Severed' /\ Asked'
  BY <1>0, <1>1, PeerFrame
<1> QED BY <1>2, <1>3, <1>4, <1>5 DEF IInv

LEMMA Preserved == IInv /\ [Next]_vars => IInv'
<1> SUFFICES ASSUME IInv, [Next]_vars PROVE IInv'
  OBVIOUS
<1>1. CASE Calls
  <2>1. ~Idle
    BY <1>1 DEF Calls
  <2>2. ASSUME NEW r \in Request, RequestCall(r) PROVE IInv'
    BY <2>1, <2>2, SubmitHolds, PlaceHolds DEF RequestCall
  <2>3. ASSUME NEW l \in Link, LinkCall(l) PROVE IInv'
    <3>1. CASE CleanupCall(l) \/ DisperseCall(l) \/ AbortCall(l) \/ NotifyCall(l)
      BY <2>1, <3>1, CleanupHolds, DisperseHolds, AbortHolds, NotifyHolds
    <3>2. CASE CloseCall(l, "close", "notify") \/ CloseCall(l, "reset", "abort")
      BY <2>1, <3>2, CloseHolds
    <3>3. CASE WriteCall(l) \/ WriteFails(l) \/ ReadFails(l)
      BY <2>1, <3>3, WriteHolds, WriteFailsHolds
    <3>4. CASE ReadCall(l) \/ LinkDoneCall(l)
      BY <2>1, <3>4, ReadHolds, LinkDoneHolds
    <3> QED BY <2>3, <3>1, <3>2, <3>3, <3>4 DEF LinkCall
  <2>4. CASE ClosePeerCall \/ FinishedCall
    BY <2>1, <2>4, ClosePeerHolds, FinishedHolds
  <2> QED BY <1>1, <2>2, <2>3, <2>4 DEF Calls
<1>2. ASSUME NEW l \in Link, Handlers(l) PROVE IInv'
  BY <1>2, OpenedHolds, OpenFailsHolds, HandleCloseHolds, StoppedHolds, WaitEndsHolds, AnswerHolds
     DEF Handlers
<1>3. CASE Resolved
  BY <1>3, ResolvedHolds
<1>4. ASSUME NEW r \in Request, Submit(r) \/ Cancel(r) PROVE IInv'
  BY <1>4, BeginSubmitHolds, CancelHolds
<1>5. CASE DeferredClose \/ RemoteExpires \/ ErrorExpires \/ ErrorClear \/ Quit \/ Close
  BY <1>5, TimeHolds
<1>6. CASE Interrupt
  BY <1>6, InterruptHolds
<1>7. CASE UNCHANGED vars
  BY <1>7, StutterHolds
<1> QED BY <1>1, <1>2, <1>3, <1>4, <1>5, <1>6, <1>7 DEF Next

\* Every reachable state satisfies the inductive invariant.
THEOREM ServerInvariance == Spec => []IInv
<1> QED BY InitHolds, Preserved, PTL DEF Spec

\* The state has its type (the fields of ircd::server's tags, links and peers).
THEOREM ServerTypes == Spec => []TypeOK
<1>1. IInv => TypeOK
  BY DEF IInv
<1> QED BY <1>1, ServerInvariance, PTL

\* No request is lost when a link is closed, dispersed or deleted: whoever
\* waits for one waits for a tag in one queue, or for one a handler is about to
\* put there (link::submit(), peer::disperse()).
THEOREM NoRequestForgotten == Spec => []NoneForgotten
<1>1. IInv => NoneForgotten
  <2> SUFFICES ASSUME IInv, NEW r \in Request, future[r] = "pending" PROVE Kept(r)
    BY DEF NoneForgotten
  <2>0. TypeOK /\ work \in Seq(CallSet) /\ Owned /\ Unique /\ Held
    BY DEF IInv
  <2>1. CASE InWork(r)
    <3>1. PICK x \in ToSet(work) : x.op \in RequestOps /\ x.of = r
      BY <2>1 DEF InWork
    <3>2. PICK i \in DOMAIN work : work[i] = x
      BY DEF ToSet
    <3>3. x \in CallSet
      <4>1. DOMAIN work = 1..Len(work)
        BY <2>0, LenProperties
      <4> QED BY <2>0, <3>2, <4>1
    <3>4. x = Call(x.op, r)
      BY <3>1, <3>3, CallTypes
    <3>5. work[i] \in {Call("submit", r), Call("place", r)}
      BY <3>1, <3>2, <3>4 DEF RequestOps
    <3> QED BY <3>5 DEF Kept
  <2>2. CASE InQueue(r)
    <3>1. PICK l \in Link : r \in ToSet(queue[l])
      BY <2>2 DEF InQueue
    <3>2. l \in Linked
      <4>1. queue[l] # <<>>
        BY <3>1 DEF ToSet
      <4> QED BY <2>0, <4>1 DEF Owned
    <3>3. {k \in Linked : r \in ToSet(queue[k])} = {l}
      <4>1. Linked \subseteq Link
        BY <2>0 DEF TypeOK, Linked, ToSet
      <4> QED BY <2>0, <3>1, <3>2, <4>1 DEF Unique
    <3>4. Cardinality({l}) = 1
      BY FS_Singleton
    <3> QED BY <3>3, <3>4 DEF Kept
  <2> QED BY <2>0, <2>1, <2>2 DEF Held
<1> QED BY <1>1, ServerInvariance, PTL

\* The handlers that are pending are those of links that exist, and each link
\* that was closed is still to be told (link::finished(), peer::del()).
THEOREM LinksAreTold == Spec => []HandlersLive
<1>1. IInv => HandlersLive
  <2> SUFFICES ASSUME IInv, Idle PROVE /\ opInit \cup opFini \cup opWrite \cup opRead \subseteq Linked
                                       /\ \A l \in opFini : \/ socket[l] \in {"closing", "stuck"}
                                                            \/ l \in opInit \cup opWrite \cup opRead
    BY DEF HandlersLive
  <2>1. opInit \cup opFini \cup opWrite \cup opRead \subseteq Linked
    BY DEF IInv, Owned
  <2> QED BY <2>1, IdleFacts
<1> QED BY <1>1, ServerInvariance, PTL

\* The answers of a link are, in order, for its committed tags, which come
\* first in its queue and are no more than its pipe takes.
THEOREM AnswersInOrder == Spec => []Pipeline
<1>1. IInv => Pipeline
  <2> SUFFICES ASSUME IInv, NEW l \in Linked, socket[l] = "open", run \in {"RUN", "QUIT"}
               PROVE  /\ l \notin opFini => Due(l) = SubSeq(queue[l], 1, TagCommitted(l))
                      /\ \A i \in DOMAIN queue[l] : Committed(queue[l][i]) <=> i <= TagCommitted(l)
                      /\ TagCommitted(l) <= CommitMax
    BY DEF Pipeline
  <2>0. TypeOK /\ Ordered /\ Matched
    BY DEF IInv
  <2>1. l \in Link
    BY <2>0 DEF TypeOK, Linked, ToSet
  <2>2. ASSUME l \notin opFini PROVE Due(l) = SubSeq(queue[l], 1, TagCommitted(l))
    <3> DEFINE n == TagCommitted(l)
               b == [i \in DOMAIN inbox[l] |-> inbox[l][i][1]]
               w == wire[l]
               tags == queue[l]
               s == SubSeq(tags, 1, n)
    <3>1. /\ n \in 0..Len(tags) /\ Len(inbox[l]) + Len(w) = n
          /\ \A i \in DOMAIN inbox[l] : inbox[l][i][1] = tags[i]
          /\ \A i \in DOMAIN w : w[i] = tags[Len(inbox[l]) + i]
      BY <2>0, <2>1, <2>2 DEF Ordered, Matched
    <3>2. inbox[l] \in Seq(Request \X {"ok", "unavailable"}) /\ w \in Seq(Request) /\ tags \in Seq(Request)
      BY <2>0, <2>1 DEF TypeOK
    <3>3. /\ Len(inbox[l]) \in Nat /\ DOMAIN inbox[l] = 1..Len(inbox[l])
          /\ Len(w) \in Nat /\ DOMAIN w = 1..Len(w) /\ Len(tags) \in Nat /\ DOMAIN tags = 1..Len(tags)
      BY <3>2, LenProperties
    <3> DEFINE m == Len(inbox[l])
    <3>4. b \in Seq(Request) /\ Len(b) = m /\ \A i \in 1..m : b[i] = tags[i]
      <4>1. b = [i \in 1..m |-> inbox[l][i][1]] /\ \A i \in 1..m : inbox[l][i][1] \in Request
        BY <3>2, <3>3
      <4>2. b \in [1..m -> Request] /\ m \in Nat
        BY <3>3, <4>1
      <4> QED BY <3>1, <3>3, <4>1, <4>2
    <3>5. \A i \in 1..Len(w) : w[i] = tags[m + i]
      BY <3>1, <3>3
    <3>a. m \in Nat /\ Len(w) \in Nat /\ Len(tags) \in Nat /\ n \in 0..Len(tags) /\ m + Len(w) = n
      BY <3>1, <3>3
    <3>7. Due(l) = b \o w /\ SubSeq(queue[l], 1, TagCommitted(l)) = s
      BY DEF Due
    <3> HIDE DEF n, b, w, tags, m
    <3>6. m \in Nat /\ n \in Nat /\ m + Len(w) = n /\ n <= Len(tags)
      BY <3>a
    <3>8. /\ s \in Seq(Request) /\ Len(s) = n
          /\ \A i \in 1..n : s[i] = tags[i]
      <4>1. CASE n = 0
        <5>1. s = <<>>
          BY <4>1, <3>2
        <5> QED BY <4>1, <5>1
      <4>2. CASE n # 0
        <5>1. 1 \in 1..(n+1) /\ n \in 0..Len(tags) /\ n - 1 + 1 = n
          BY <3>6, <4>2
        <5> QED BY <3>2, <3>3, <3>6, <4>2, <5>1, SubSeqProperties
      <4> QED BY <4>1, <4>2
    <3> HIDE DEF s
    <3>9. /\ b \o w \in Seq(Request) /\ Len(b \o w) = n
          /\ \A i \in 1..n : (b \o w)[i] = tags[i]
      <4>1. /\ b \o w \in Seq(Request) /\ Len(b \o w) = Len(b) + Len(w)
            /\ \A i \in 1..(Len(b) + Len(w)) :
                 (b \o w)[i] = IF i <= Len(b) THEN b[i] ELSE w[i - Len(b)]
        BY <3>2, <3>4, ConcatProperties
      <4>2. ASSUME NEW i \in 1..n PROVE (b \o w)[i] = tags[i]
        <5>1. (b \o w)[i] = IF i <= m THEN b[i] ELSE w[i - m]
          BY <3>4, <3>6, <4>1
        <5>2. CASE i <= m
          BY <3>4, <3>6, <5>1, <5>2
        <5>3. CASE ~(i <= m)
          <6>1. i - m \in 1..Len(w) /\ m + (i - m) = i
            BY <3>3, <3>6, <5>3
          <6> QED BY <3>5, <5>1, <5>3, <6>1
        <5> QED BY <5>2, <5>3
      <4> QED BY <3>4, <3>6, <4>1, <4>2
    <3>10. b \o w = s
      <4> DEFINE t == b \o w
      <4>1. t \in Seq(Request) /\ Len(t) = n /\ \A i \in 1..n : t[i] = tags[i]
        BY <3>9
      <4> HIDE DEF t
      <4>2. t = s
        BY <3>8, <4>1, SeqEqual
      <4> QED BY <4>2 DEF t
    <3> QED BY <3>7, <3>10
  <2> QED BY <2>0, <2>1, <2>2 DEF Ordered
<1> QED BY <1>1, ServerInvariance, PTL

-----------------------------------------------------------------------------
(* The peer, its links and their queues implement the exchange.            *)

\* Nothing the clients or the remote can tell has happened.
LEMMA Unnoticed ==
  ASSUME UNCHANGED <<future, unwritten, answered>>
  PROVE  UNCHANGED E!vars
BY DEF E!vars, Committed

\* Tags that fail are requests that fail, those that are still waited for.
LEMMA FailsTags ==
  ASSUME NEW S \in SUBSET Request, FailTags(S), UNCHANGED answered
  PROVE  E!Next
<1> DEFINE F == {r \in S : ~Abandoned(r)}
<1>1. F \in SUBSET Request /\ \A r \in F : future[r] = "pending"
  BY DEF Abandoned
<1>2. /\ future' = [r \in Request |-> IF r \in F THEN "error" ELSE future[r]]
      /\ UNCHANGED <<unwritten, answered>>
  BY DEF FailTags
<1> HIDE DEF F
<1>3. E!Fail(F)
  BY <1>1, <1>2 DEF E!Fail, E!Becomes, Committed
<1> QED BY <1>1, <1>3 DEF E!Next

\* A request is turned away, or fails when it is submitted again.
LEMMA Refuses ==
  ASSUME TypeOK, NEW r \in Request, Refuse(r), UNCHANGED answered
  PROVE  E!Next
<1>1. CASE future[r] = "none"
  <2>1. future' = [future EXCEPT ![r] = "refused"] /\ UNCHANGED <<unwritten, answered>>
    BY <1>1 DEF Refuse
  <2>2. future' = [s \in Request |-> IF s \in {r} THEN "refused" ELSE future[s]]
    BY <2>1 DEF TypeOK
  <2>3. E!Refuse(r)
    BY <1>1, <2>1, <2>2 DEF E!Refuse, E!Becomes, Committed
  <2> QED BY <2>3 DEF E!Next
<1>2. CASE future[r] # "none"
  <2>1. FailTags({r}) /\ {r} \in SUBSET Request
    BY <1>2 DEF Refuse
  <2> QED BY <2>1, FailsTags
<1> QED BY <1>1, <1>2

\* A handler places a request: it has been submitted, or is so again.
LEMMA Places ==
  ASSUME IInv, ~Idle, NEW r \in Request, PlaceCall(r)
  PROVE  E!Next \/ UNCHANGED E!vars
<1>0. TypeOK /\ work \in Seq(CallSet) /\ Aimed /\ Unique
  BY DEF IInv
<1>1. UNCHANGED answered
  BY DEF PlaceCall, net
<1>2. CASE Refuse(r)
  BY <1>0, <1>1, <1>2, Refuses
<1>3. CASE \E l \in Link : Enqueue(r, l)
  <2>1. future' = [future EXCEPT ![r] = "pending"] /\ UNCHANGED <<unwritten, answered>>
    BY <1>1, <1>3 DEF Enqueue
  <2>2. future[r] \in {"none", "pending"}
    <3>1. Call("place", r) \in ToSet(work)
      BY <1>0, Working DEF PlaceCall
    <3>2. InWork(r)
      BY <3>1, CallTypes DEF InWork, RequestOps
    <3> QED BY <1>0, <3>2 DEF Unique
  <2>3. CASE future[r] = "none"
    <3>1. future' = [s \in Request |-> IF s \in {r} THEN "pending" ELSE future[s]]
      BY <1>0, <2>1 DEF TypeOK
    <3>2. E!Submit(r)
      BY <2>1, <2>3, <3>1 DEF E!Submit, E!Becomes, Committed
    <3> QED BY <3>2 DEF E!Next
  <2>4. CASE future[r] = "pending"
    <3>1. future' = future
      BY <1>0, <2>1, <2>4 DEF TypeOK
    <3> QED BY <2>1, <3>1, Unnoticed
  <2> QED BY <2>2, <2>3, <2>4
<1>4. Linked \subseteq Link
  BY <1>0 DEF TypeOK, Linked, ToSet
<1> QED BY <1>2, <1>3, <1>4 DEF PlaceCall, Best

\* The writer reveals a request that nobody has given up.
LEMMA Writes ==
  ASSUME IInv, NEW l \in Link, WriteCall(l)
  PROVE  E!Next \/ UNCHANGED E!vars
<1>0. TypeOK /\ Unique /\ Held
  BY DEF IInv
<1> DEFINE left == {r \in ToSet(queue[l]) : unwritten[r] > 0}
           next == First(queue[l], left)
<1>1. UNCHANGED <<future, answered>>
  BY DEF WriteCall
<1>2. CASE unwritten' = unwritten
  BY <1>1, <1>2, Unnoticed
<1>3. CASE unwritten' # unwritten
  <2>1. /\ left # {} /\ ~Discarded(next)
        /\ \E n \in Remaining(next) : unwritten' = [unwritten EXCEPT ![next] = n]
    BY <1>3 DEF WriteCall
  <2>2. left \cap ToSet(queue[l]) # {} /\ queue[l] \in Seq(Request)
    BY <1>0, <2>1 DEF TypeOK
  <2> DEFINE first == next
             T == left
  <2>3. first \in T
    <3> HIDE DEF T
    <3>1. \E k \in DOMAIN queue[l] : First(queue[l], T) = queue[l][k] /\ queue[l][k] \in T
      BY <2>2, FirstProperties DEF T
    <3> QED BY <3>1 DEF T
  <2>4. first \in ToSet(queue[l]) /\ unwritten[first] > 0 /\ first \in Request
    <3>1. ToSet(queue[l]) \subseteq Request
      BY <2>2, LenProperties DEF ToSet
    <3> QED BY <2>3, <3>1
  <2> HIDE DEF next, left, T, first
  <2>5. PICK r \in Request : r = next
    BY <2>4 DEF first
  <2>6. InQueue(r) /\ holder[r] # "none"
    BY <2>1, <2>4, <2>5 DEF InQueue, Discarded, first
  <2>7. PICK n \in Remaining(r) : unwritten' = [unwritten EXCEPT ![r] = n]
    BY <2>1, <2>5
  <2>8. /\ unwritten \in [Request -> 0..Pieces] /\ Pieces \in Nat
        /\ unwritten[r] \in 0..Pieces /\ n \in 0..(unwritten[r] - 1)
    BY <1>0, <2>7, ServerAssumption DEF TypeOK, Remaining
  <2>9. n < Pieces /\ unwritten'[r] = n /\ \A s \in Request : s # r => unwritten'[s] = unwritten[s]
    BY <2>7, <2>8
  <2>10. {s \in Request : Committed(s)}' = {s \in Request : Committed(s)} \cup {r}
    BY <2>9 DEF Committed
  <2>11. CASE Committed(r)
    <3>1. {s \in Request : Committed(s)}' = {s \in Request : Committed(s)}
      BY <2>10, <2>11
    <3> QED BY <1>1, <3>1 DEF E!vars
  <2>12. CASE ~Committed(r)
    <3>1. future[r] = "pending"
      BY <1>0, <2>6, <2>12 DEF Held, TypeOK
    <3>2. E!Reveal(r)
      BY <1>1, <2>10, <2>12, <3>1 DEF E!Reveal
    <3> QED BY <3>2 DEF E!Next
  <2> QED BY <2>11, <2>12
<1> QED BY <1>2, <1>3

\* The reader returns the answer of the request that is first in its queue: it
\* is this request's, although nothing in it says so.
LEMMA Reads ==
  ASSUME IInv, ~Idle, NEW l \in Link, ReadCall(l)
  PROVE  E!Next \/ UNCHANGED E!vars
<1>0. /\ TypeOK /\ work \in Seq(CallSet) /\ Stacked /\ Aimed
      /\ Emptied /\ Matched /\ Asked
  BY DEF IInv
<1>1. UNCHANGED <<unwritten, answered>>
  BY DEF ReadCall, requests, TagDone
<1>2. CASE future' = future
  BY <1>1, <1>2, Unnoticed
<1>3. CASE future' # future
  <2>1. queue[l] # <<>> /\ inbox[l] # <<>> /\ TagDone(l)
    BY <1>3 DEF ReadCall, requests
  <2> DEFINE r == Head(queue[l])
  <2>2. /\ queue[l] \in Seq(Request) /\ r \in Request /\ r = queue[l][1]
        /\ inbox[l] \in Seq(Request \X {"ok", "unavailable"}) /\ 1 \in DOMAIN inbox[l]
    <3>1. queue[l] \in Seq(Request) /\ inbox[l] \in Seq(Request \X {"ok", "unavailable"})
      BY <1>0 DEF TypeOK
    <3> QED BY <2>1, <3>1, HeadInList
  <2>3. Head(work) = Call("read", l) /\ "read" \in Loops
    BY DEF ReadCall, Loops
  <2>4. l \notin opFini
    BY <1>0, <2>3, AloneCall
  <2>5. run \in {"RUN", "QUIT"}
    BY <1>0, <2>1 DEF Emptied
  <2>6. inbox[l][1][1] = queue[l][1] /\ inbox[l][1][1] \in answered
    BY <1>0, <2>2, <2>4, <2>5 DEF Matched, Asked
  <2>7. r \in answered
    BY <2>2, <2>6
  <2>8. future[r] = "pending" /\ future' = [future EXCEPT ![r] = "value"]
    BY <1>3, <2>1 DEF TagDone, Abandoned
  <2> HIDE DEF r
  <2>9. future' = [s \in Request |-> IF s \in {r} THEN "value" ELSE future[s]]
    BY <1>0, <2>2, <2>8 DEF TypeOK
  <2>10. E!Return(r)
    BY <1>1, <2>7, <2>8, <2>9 DEF E!Return, E!Becomes, Committed
  <2> QED BY <2>2, <2>10 DEF E!Next
<1> QED BY <1>2, <1>3

\* Each step of the peer is one of the exchange, or not noticed.
LEMMA StepsAreExchanges ==
  ASSUME IInv, [Next]_vars
  PROVE  E!Next \/ UNCHANGED E!vars
<1>0. TypeOK /\ work \in Seq(CallSet) /\ Unique /\ Held /\ Asked /\ Owned
  BY DEF IInv
<1>1. CASE Calls
  <2>1. ~Idle
    BY <1>1 DEF Calls
  <2>2. ASSUME NEW r \in Request, RequestCall(r) PROVE E!Next \/ UNCHANGED E!vars
    <3>1. CASE SubmitCall(r)
      <4>1. UNCHANGED answered /\ (Refuse(r) \/ UNCHANGED requests)
        BY <3>1 DEF SubmitCall, net
      <4>2. CASE Refuse(r)
        BY <1>0, <4>1, <4>2, Refuses
      <4>3. CASE UNCHANGED requests
        BY <4>1, <4>3, Unnoticed DEF requests
      <4> QED BY <4>1, <4>2, <4>3
    <3>2. CASE PlaceCall(r)
      BY <2>1, <3>2, Places
    <3> QED BY <2>2, <3>1, <3>2 DEF RequestCall
  <2>3. ASSUME NEW l \in Link, LinkCall(l) PROVE E!Next \/ UNCHANGED E!vars
    <3>1. CASE DisperseCall(l)
      <4>1. UNCHANGED answered /\ (FailTags(ToSet(queue[l])) \/ UNCHANGED requests)
        BY <3>1 DEF DisperseCall, net
      <4>2. ToSet(queue[l]) \in SUBSET Request
        <5>1. queue[l] \in Seq(Request)
          BY <1>0 DEF TypeOK
        <5> QED BY <5>1, LenProperties DEF ToSet
      <4>3. CASE FailTags(ToSet(queue[l]))
        BY <4>1, <4>2, <4>3, FailsTags
      <4>4. CASE UNCHANGED requests
        BY <4>1, <4>4, Unnoticed DEF requests
      <4> QED BY <4>1, <4>3, <4>4
    <3>2. CASE WriteCall(l)
      BY <3>2, Writes
    <3>3. CASE ReadCall(l)
      BY <2>1, <3>3, Reads
    <3>4. CASE \/ CleanupCall(l) \/ AbortCall(l) \/ NotifyCall(l) \/ WriteFails(l) \/ ReadFails(l)
               \/ LinkDoneCall(l) \/ CloseCall(l, "close", "notify") \/ CloseCall(l, "reset", "abort")
      <4>1. UNCHANGED requests /\ UNCHANGED answered
        BY <3>4 DEF CleanupCall, AbortCall, NotifyCall, WriteFails, ReadFails, LinkDoneCall,
                    CloseCall, net
      <4> QED BY <4>1, Unnoticed DEF requests
    <3> QED BY <2>3, <3>1, <3>2, <3>3, <3>4 DEF LinkCall
  <2>4. CASE ClosePeerCall \/ FinishedCall
    <3>1. UNCHANGED requests /\ UNCHANGED answered
      BY <2>4 DEF ClosePeerCall, FinishedCall, net
    <3> QED BY <3>1, Unnoticed DEF requests
  <2> QED BY <1>1, <2>2, <2>3, <2>4 DEF Calls
<1>2. ASSUME NEW l \in Link, Handlers(l) PROVE E!Next \/ UNCHANGED E!vars
  <2>1. CASE Answer(l)
    <3> DEFINE r == Head(wire[l])
    <3>1. /\ UNCHANGED <<future, unwritten>> /\ answered' = answered \cup {r} /\ wire[l] # <<>>
      BY <2>1 DEF Answer, requests
    <3>2. r \in Request /\ r \in ToSet(wire[l])
      <4>1. wire[l] \in Seq(Request)
        BY <1>0 DEF TypeOK
      <4> QED BY <3>1, <4>1, HeadInList
    <3>3. Committed(r) /\ r \notin answered
      BY <1>0, <3>2 DEF Asked
    <3> HIDE DEF r
    <3>4. E!Answer(r)
      BY <3>1, <3>2, <3>3 DEF E!Answer, Committed
    <3> QED BY <3>2, <3>4 DEF E!Next
  <2>2. CASE ~Answer(l)
    <3>1. UNCHANGED requests /\ UNCHANGED answered
      BY <1>2, <2>2 DEF Handlers, Opened, OpenFails, HandleClose, Stopped, Writable, Readable, net
    <3> QED BY <3>1, Unnoticed DEF requests
  <2> QED BY <2>1, <2>2
<1>3. ASSUME NEW r \in Request, Submit(r) \/ Cancel(r) PROVE E!Next \/ UNCHANGED E!vars
  <2>1. CASE Submit(r)
    <3>1. UNCHANGED requests /\ UNCHANGED answered
      BY <2>1 DEF Submit, net
    <3> QED BY <3>1, Unnoticed DEF requests
  <2>2. CASE Cancel(r)
    <3>1. /\ future[r] = "pending" /\ future' = [future EXCEPT ![r] = "canceled"]
          /\ UNCHANGED <<unwritten, answered>>
      BY <2>2 DEF Cancel, net
    <3>2. future' = [s \in Request |-> IF s \in {r} THEN "canceled" ELSE future[s]]
      BY <1>0, <3>1 DEF TypeOK
    <3>3. E!Cancel(r)
      BY <3>1, <3>2 DEF E!Cancel, E!Becomes, Committed
    <3> QED BY <3>3 DEF E!Next
  <2> QED BY <1>3, <2>1, <2>2
<1>4. CASE Interrupt
  <2> DEFINE S == UNION {ToSet(queue[l]) : l \in Linked}
  <2>1. FailTags(S) /\ UNCHANGED answered
    BY <1>4 DEF Interrupt, net
  <2>2. S \in SUBSET Request
    <3>1. ASSUME NEW l \in Linked PROVE ToSet(queue[l]) \subseteq Request
      <4>1. l \in Link
        BY <1>0 DEF TypeOK, Linked, ToSet
      <4>2. queue[l] \in Seq(Request)
        BY <1>0, <4>1 DEF TypeOK
      <4> QED BY <4>2, LenProperties DEF ToSet
    <3> QED BY <3>1
  <2> HIDE DEF S
  <2> QED BY <2>1, <2>2, FailsTags
<1>5. CASE Resolved \/ DeferredClose \/ RemoteExpires \/ ErrorExpires \/ ErrorClear \/ Quit \/ Close
  <2>1. UNCHANGED requests /\ UNCHANGED answered
    BY <1>5 DEF Resolved, DeferredClose, RemoteExpires, ErrorExpires, ErrorClear, Quit, Close, net
  <2> QED BY <2>1, Unnoticed DEF requests
<1>6. CASE UNCHANGED vars
  BY <1>6, Unnoticed DEF vars, requests, net
<1> QED BY <1>1, <1>2, <1>3, <1>4, <1>5, <1>6 DEF Next

\* The clients of a remote are promised what module Exchange says: a request is
\* revealed once and never after it was given up, it gets its own answer or an
\* error, and is settled once.
THEOREM PeersExchange == Spec => ImplementsExchange
<1>1. Init => E!Init
  <2> SUFFICES ASSUME Init PROVE E!Init
    OBVIOUS
  <2>1. \A r \in Request : ~Committed(r)
    BY ServerAssumption DEF Init, Committed
  <2> QED BY <2>1 DEF Init, E!Init
<1>2. IInv /\ [Next]_vars => [E!Next]_(E!vars)
  BY StepsAreExchanges
<1> QED BY <1>1, <1>2, ServerInvariance, PTL DEF Spec, ImplementsExchange, E!Spec

=============================================================================
