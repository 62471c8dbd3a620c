---------------------------- MODULE SharedProofs ----------------------------
(***************************************************************************)
(* What contexts share.                                                    *)
(*                                                                         *)
(* First the state shared by promises and futures (shared_state.h), for any*)
(* places: nothing dangles, and the pointers implement the sets of module  *)
(* Promises.  Then the shared mutex (shared_mutex.h), for any number of    *)
(* contexts and any calls but those of a caller who takes the place of an  *)
(* upgrade owner: owners exclude each other, and the count is the number of*)
(* readers.  Init, Next and Spec are those of SharedMutex.                 *)
(***************************************************************************)
EXTENDS Futures, SharedMutex, FiniteSetTheorems, TLAPS

-----------------------------------------------------------------------------
(* Chains of pointers.                                                     *)

\* Objects, and what each points to.
Links(D) == [D -> D \cup {Null}]

\* What starts at o ends: it is a list.
Ends(next, o) == \E l \in Chain(next, o) : next[l] = Null

\* Induction: what has o, and what its objects in the chain point to, has the chain.
LEMMA ChainIn ==
  ASSUME NEW D, NEW next \in Links(D), NEW o \in D, NEW S,
         o \in S, \A y \in S \cap Chain(next, o) : next[y] \in S \cup {Null}
  PROVE  Chain(next, o) \subseteq S
<1> SUFFICES ASSUME NEW x \in Chain(next, o) PROVE x \in S
  OBVIOUS
<1> DEFINE C == Chain(next, o)
<1>2. o \in C /\ C \subseteq D /\ \A y \in C : next[y] \in C \cup {Null}
  BY DEF Chain, Links
<1>3. /\ S \cap C \in SUBSET DOMAIN next /\ o \in S \cap C
      /\ \A y \in S \cap C : next[y] \in (S \cap C) \cup {Null}
  BY <1>2 DEF Links
<1>4. \A T \in SUBSET DOMAIN next :
        o \in T /\ (\A y \in T : next[y] \in T \cup {Null}) => x \in T
  BY DEF Chain
<1> QED BY <1>3, <1>4

\* A chain has its first object, and with an object what it points to.
LEMMA ChainClosed ==
  ASSUME NEW D, NEW next \in Links(D), NEW o \in D
  PROVE  /\ o \in Chain(next, o) /\ Chain(next, o) \subseteq D
         /\ \A y \in Chain(next, o) : next[y] \in Chain(next, o) \cup {Null}
BY DEF Chain, Links

\* A chain is that of its first object's successor, and that object.
LEMMA ChainStep ==
  ASSUME NEW D, NEW next \in Links(D), NEW o \in D
  PROVE  /\ next[o] = Null => Chain(next, o) = {o}
         /\ next[o] # Null => /\ next[o] \in D
                              /\ Chain(next, o) = {o} \cup Chain(next, next[o])
<1>1. /\ o \in Chain(next, o) /\ Chain(next, o) \subseteq D
      /\ \A y \in Chain(next, o) : next[y] \in Chain(next, o) \cup {Null}
  BY ChainClosed
<1>2. ASSUME next[o] = Null PROVE Chain(next, o) = {o}
  <2>1. Chain(next, o) \subseteq {o}
    BY <1>2, ChainIn
  <2> QED BY <1>1, <2>1
<1>3. ASSUME next[o] # Null
      PROVE  next[o] \in D /\ Chain(next, o) = {o} \cup Chain(next, next[o])
  <2> DEFINE n == next[o]
  <2>1. n \in D /\ n \in Chain(next, o)
    BY <1>1, <1>3
  <2> HIDE DEF n
  <2>2. /\ n \in Chain(next, n) /\ Chain(next, n) \subseteq D
        /\ \A y \in Chain(next, n) : next[y] \in Chain(next, n) \cup {Null}
    BY <2>1, ChainClosed
  <2>3. Chain(next, n) \subseteq Chain(next, o)
    BY <1>1, <2>1, ChainIn
  <2>4. Chain(next, o) \subseteq {o} \cup Chain(next, n)
    <3> DEFINE S == {o} \cup Chain(next, n)
    <3>1. o \in S /\ \A y \in S : next[y] \in S \cup {Null}
      BY <2>2 DEF n
    <3> HIDE DEF S
    <3>2. Chain(next, o) \subseteq S
      BY <3>1, ChainIn
    <3> QED BY <3>2 DEF S
  <2>5. Chain(next, o) = {o} \cup Chain(next, n)
    BY <1>1, <2>3, <2>4
  <2> QED BY <2>1, <2>5 DEF n
<1> QED BY <1>2, <1>3

\* Only the links of the chain itself matter.
LEMMA ChainSame ==
  ASSUME NEW D, NEW next \in Links(D), NEW other \in Links(D), NEW o \in D,
         \A y \in Chain(next, o) : other[y] = next[y]
  PROVE  /\ Chain(other, o) = Chain(next, o)
         /\ Ends(next, o) => Ends(other, o)
<1>1. /\ o \in Chain(next, o)
      /\ \A y \in Chain(next, o) : next[y] \in Chain(next, o) \cup {Null}
  BY ChainClosed
<1>2. /\ o \in Chain(other, o)
      /\ \A y \in Chain(other, o) : other[y] \in Chain(other, o) \cup {Null}
  BY ChainClosed
<1>3. Chain(other, o) \subseteq Chain(next, o)
  BY <1>1, ChainIn
<1>4. Chain(next, o) \subseteq Chain(other, o)
  BY <1>2, ChainIn
<1> QED BY <1>3, <1>4 DEF Ends

\* The end of a list is reached from everywhere in it, and is one.
LEMMA EndReached ==
  ASSUME NEW D, NEW next \in Links(D), NEW o \in D,
         NEW l \in Chain(next, o), next[l] = Null, NEW x \in Chain(next, o)
  PROVE  x \in D /\ l \in Chain(next, x)
<1>1. /\ o \in Chain(next, o) /\ Chain(next, o) \subseteq D
  BY ChainClosed
<1> DEFINE S == {y \in Chain(next, o) : l \in Chain(next, y)}
<1>2. o \in S
  BY <1>1
<1>3. ASSUME NEW y \in S, next[y] # Null PROVE next[y] \in S
  <2>1. y \in D /\ next[y] \in Chain(next, o)
    BY <1>1, <1>3, ChainClosed
  <2>2. Chain(next, y) = {y} \cup Chain(next, next[y])
    BY <2>1, <1>3, ChainStep
  <2> QED BY <2>1, <2>2, <1>3
<1>4. Chain(next, o) \subseteq S
  <2> HIDE DEF S
  <2>1. \A y \in S : next[y] \in S \cup {Null}
    BY <1>3
  <2> QED BY <1>2, <2>1, ChainIn
<1> QED BY <1>1, <1>4

\* append() finds the end from wherever it starts.
LEMMA EndOfList ==
  ASSUME NEW D, NEW next \in Links(D), NEW o \in D, Ends(next, o),
         NEW x \in Chain(next, o)
  PROVE  /\ EndOf(next, x) \in Chain(next, o) /\ next[EndOf(next, x)] = Null
         /\ \A y \in Chain(next, o) : next[y] = Null => y = EndOf(next, x)
<1>1. PICK l \in Chain(next, o) : next[l] = Null
  BY DEF Ends
<1>2. x \in D /\ l \in Chain(next, x)
  BY <1>1, EndReached
<1>3. Chain(next, x) \subseteq Chain(next, o)
  <2>1. \A y \in Chain(next, o) : next[y] \in Chain(next, o) \cup {Null}
    BY ChainClosed
  <2> QED BY <1>2, <2>1, ChainIn
<1>4. \E y \in Chain(next, x) : next[y] = Null
  BY <1>1, <1>2
<1>5. EndOf(next, x) \in Chain(next, x) /\ next[EndOf(next, x)] = Null
  BY <1>4 DEF EndOf
<1>6. ASSUME NEW y \in Chain(next, o), NEW z \in Chain(next, o), next[y] = Null, next[z] = Null
      PROVE  y = z
  <2>1. y \in D /\ z \in Chain(next, y)
    BY <1>6, EndReached
  <2> QED BY <1>6, <2>1, ChainStep
<1> QED BY <1>3, <1>5, <1>6

\* Nobody in a list points to its head, or to himself.
LEMMA HeadUnlinked ==
  ASSUME NEW D, NEW next \in Links(D), Null \notin D, NEW o \in D, Ends(next, o),
         NEW x \in Chain(next, o)
  PROVE  next[x] # o /\ next[x] # x
<1>1. PICK l \in Chain(next, o) : next[l] = Null
  BY DEF Ends
<1>2. ASSUME NEW h \in Chain(next, o), NEW y \in Chain(next, h), next[y] = h PROVE FALSE
  <2>0. h \in D /\ l \in Chain(next, h)
    BY <1>1, EndReached
  <2> DEFINE S == {z \in Chain(next, h) : h \in Chain(next, z)}
  <2>1. y \in D /\ Chain(next, y) = {y} \cup Chain(next, h)
    BY <1>2, <2>0, ChainClosed, ChainStep
  <2>2. h \in S
    BY <2>0, ChainClosed
  <2>3. ASSUME NEW z \in S, next[z] # Null PROVE next[z] \in S
    <3>1. z \in D /\ next[z] \in Chain(next, h) /\ next[z] \in D
      BY <2>0, <2>3, ChainClosed
    <3>2. Chain(next, z) = {z} \cup Chain(next, next[z])
      BY <3>1, <2>3, ChainStep
    <3>3. CASE h \in Chain(next, next[z])
      BY <3>1, <3>3
    <3>4. CASE z = h /\ h \notin Chain(next, next[z])
      <4>1. y \in Chain(next, next[h]) \/ y = h
        BY <1>2, <3>2, <3>4
      <4>2. CASE y = h
        BY <1>2, <3>1, <3>4, <4>2, ChainClosed
      <4>3. CASE y \in Chain(next, next[h])
        <5>1. next[y] \in Chain(next, next[h]) \cup {Null}
          BY <3>1, <3>4, <4>3, ChainClosed
        <5> QED BY <1>2, <2>0, <3>4, <5>1
      <4> QED BY <4>1, <4>2, <4>3
    <3> QED BY <2>3, <3>2, <3>3, <3>4
  <2>4. Chain(next, h) \subseteq S
    <3> HIDE DEF S
    <3>1. \A z \in S : next[z] \in S \cup {Null}
      BY <2>3
    <3> QED BY <2>0, <2>2, <3>1, ChainIn
  <2>5. l \in D /\ h \in Chain(next, l)
    BY <2>0, <2>4, ChainClosed
  <2>6. h = l
    BY <1>1, <2>5, ChainStep
  <2> QED BY <1>1, <1>2, <2>0, <2>6, ChainStep
<1>3. next[x] # o
  BY <1>2, ChainClosed
<1>4. x \in D
  BY ChainClosed
<1> QED BY <1>2, <1>3, <1>4, ChainClosed

-----------------------------------------------------------------------------
(* What the operations do to a list.                                       *)

\* append() of an object that is in no list.
LEMMA ListAppend ==
  ASSUME NEW D, NEW next \in Links(D), Null \notin D, NEW o \in D, Ends(next, o),
         NEW x \in Chain(next, o), NEW b \in D \ Chain(next, o), next[b] = Null,
         NEW other \in Links(D),
         \A y \in D : other[y] = IF y = EndOf(next, x) THEN b ELSE next[y]
  PROVE  Ends(other, o) /\ Chain(other, o) = Chain(next, o) \cup {b}
<1> DEFINE C == Chain(next, o)
           A == Chain(other, o)
           N == C \cup {b}
           l == EndOf(next, x)
<1>1. /\ l \in C /\ next[l] = Null
      /\ \A y \in C : next[y] = Null => y = l
  BY EndOfList
<1>2. o \in C /\ C \subseteq D /\ \A y \in C : next[y] \in C \cup {Null}
  BY ChainClosed
<1>3. o \in A /\ A \subseteq D /\ \A y \in A : other[y] \in A \cup {Null}
  BY ChainClosed
<1>4. \A y \in D : other[y] = IF y = l THEN b ELSE next[y]
  OBVIOUS
<1>5. b \in D /\ b \notin C
  OBVIOUS
<1>6. \A S : o \in S /\ (\A y \in S \cap A : other[y] \in S \cup {Null}) => A \subseteq S
  BY ChainIn
<1>7. \A S : o \in S /\ (\A y \in S \cap C : next[y] \in S \cup {Null}) => C \subseteq S
  BY ChainIn
<1> HIDE DEF C, A, N, l
<1>8. A \subseteq N
  <2>1. o \in N /\ \A y \in N : other[y] \in N \cup {Null}
    BY <1>1, <1>2, <1>4, <1>5 DEF N
  <2> QED BY <1>6, <2>1
<1>9. C \subseteq A
  <2>1. \A y \in A \cap C : next[y] \in A \cup {Null}
    BY <1>1, <1>2, <1>3, <1>4
  <2> QED BY <1>3, <1>7, <2>1
<1>10. b \in A /\ other[b] = Null
  BY <1>1, <1>2, <1>3, <1>4, <1>5, <1>9
<1>11. A = N
  BY <1>8, <1>9, <1>10 DEF N
<1> QED BY <1>10, <1>11 DEF Ends, C, A, N

\* update(): b takes the place of x in the list.
LEMMA ListReplace ==
  ASSUME NEW D, NEW next \in Links(D), Null \notin D, NEW o \in D, Ends(next, o),
         NEW x \in Chain(next, o), NEW b \in D \ Chain(next, o),
         NEW other \in Links(D),
         \A y \in D : other[y] = IF y = x THEN Null
                                ELSE IF y = b THEN next[x]
                                ELSE IF y \in Chain(next, o) /\ next[y] = x THEN b
                                ELSE next[y],
         NEW h, h = (IF x = o THEN b ELSE o)
  PROVE  /\ h \in D /\ Ends(other, h)
         /\ Chain(other, h) = (Chain(next, o) \ {x}) \cup {b}
<1> DEFINE C == Chain(next, o)
           A == Chain(other, h)
           N == (C \ {x}) \cup {b}
<1>1. o \in C /\ C \subseteq D /\ \A y \in C : next[y] \in C \cup {Null}
  BY ChainClosed
<1>2. \A y \in C : next[y] # o /\ next[y] # y
  BY HeadUnlinked
<1>3. PICK l \in C : next[l] = Null
  BY DEF Ends
<1>a. \A S : o \in S /\ (\A y \in S \cap C : next[y] \in S \cup {Null}) => C \subseteq S
  BY ChainIn
<1>4. \A y \in D : other[y] = IF y = x THEN Null
                              ELSE IF y = b THEN next[x]
                              ELSE IF y \in C /\ next[y] = x THEN b ELSE next[y]
  OBVIOUS
<1> HIDE DEF C
<1>5. h \in D /\ h \in N
  BY <1>1 DEF C
<1>6. h \in A /\ \A y \in A : other[y] \in A \cup {Null}
  BY <1>5, ChainClosed
<1>b. \A S : h \in S /\ (\A y \in S \cap A : other[y] \in S \cup {Null}) => A \subseteq S
  BY <1>5, ChainIn
<1> HIDE DEF A, N
<1>7. A \subseteq N
  <2>1. b \notin C /\ x \in C
    BY DEF C
  <2>2. \A y \in N : other[y] \in N \cup {Null}
    BY <1>1, <1>2, <1>4, <2>1 DEF N
  <2> QED BY <1>5, <1>b, <2>2
<1>8. C \subseteq {y \in C : IF y = x THEN b \in A ELSE y \in A}
  <2> DEFINE S == {y \in C : IF y = x THEN b \in A ELSE y \in A}
  <2>0. b \notin C /\ x \in C /\ b \in D
    BY DEF C
  <2>1. o \in S
    BY <1>1, <1>6
  <2>2. ASSUME NEW y \in S, next[y] # Null PROVE next[y] \in S
    <3>1. y \in C /\ y \in D /\ next[y] \in C
      BY <1>1, <2>2
    <3>2. CASE y = x
      <4>1. other[b] = next[x] /\ next[x] # x /\ b \in A
        BY <1>2, <1>4, <2>0, <2>2, <3>2
      <4> QED BY <1>6, <2>2, <3>1, <3>2, <4>1
    <3>3. CASE y # x
      <4>1. other[y] = (IF next[y] = x THEN b ELSE next[y]) /\ y \in A
        BY <1>4, <2>0, <2>2, <3>1, <3>3
      <4> QED BY <1>6, <2>0, <2>2, <3>1, <4>1
    <3> QED BY <3>2, <3>3
  <2> HIDE DEF S
  <2>3. C \subseteq S
    <3>1. \A y \in S : next[y] \in S \cup {Null}
      BY <2>2
    <3> QED BY <1>a, <2>1, <3>1
  <2> QED BY <2>3 DEF S
<1>9. A = N
  <2>1. x \in C
    BY DEF C
  <2> QED BY <1>7, <1>8, <2>1 DEF N
<1>10. Ends(other, h)
  <2>1. CASE l = x
    BY <1>1, <1>3, <1>4, <1>9, <2>1 DEF Ends, A, N
  <2>2. CASE l # x
    <3>1. x \in C /\ b \notin C
      BY DEF C
    <3>2. other[l] = Null /\ l \in A
      BY <1>1, <1>3, <1>4, <1>9, <2>2, <3>1 DEF N
    <3> QED BY <3>2 DEF Ends, A
  <2> QED BY <2>1, <2>2
<1> QED BY <1>5, <1>9, <1>10 DEF A, C, N

\* remove(): x leaves the list.
LEMMA ListRemove ==
  ASSUME NEW D, NEW next \in Links(D), Null \notin D, NEW o \in D, Ends(next, o),
         NEW x \in Chain(next, o), x = o => next[x] # Null,
         NEW other \in Links(D),
         \A y \in D : other[y] = IF y = x THEN Null
                                ELSE IF y \in Chain(next, o) /\ next[y] = x THEN next[x]
                                ELSE next[y],
         NEW h, h = (IF x = o THEN next[x] ELSE o)
  PROVE  /\ h \in D /\ Ends(other, h)
         /\ Chain(other, h) = Chain(next, o) \ {x}
<1> DEFINE C == Chain(next, o)
           A == Chain(other, h)
           N == C \ {x}
<1>1. o \in C /\ C \subseteq D /\ \A y \in C : next[y] \in C \cup {Null}
  BY ChainClosed
<1>2. \A y \in C : next[y] # o /\ next[y] # y
  BY HeadUnlinked
<1>3. PICK l \in C : next[l] = Null
  BY DEF Ends
<1>0. x \in C
  OBVIOUS
<1>a. \A S : o \in S /\ (\A y \in S \cap C : next[y] \in S \cup {Null}) => C \subseteq S
  BY ChainIn
<1>4. \A y \in D : other[y] = IF y = x THEN Null
                              ELSE IF y \in C /\ next[y] = x THEN next[x] ELSE next[y]
  OBVIOUS
<1> HIDE DEF C
<1>5. h \in D /\ h \in N
  BY <1>0, <1>1, <1>2
<1>6. h \in A /\ \A y \in A : other[y] \in A \cup {Null}
  BY <1>5, ChainClosed
<1>b. \A S : h \in S /\ (\A y \in S \cap A : other[y] \in S \cup {Null}) => A \subseteq S
  BY <1>5, ChainIn
<1> HIDE DEF A, N
<1>7. A \subseteq N
  <2>2. \A y \in N : other[y] \in N \cup {Null}
    BY <1>0, <1>1, <1>2, <1>4 DEF N
  <2> QED BY <1>5, <1>b, <2>2
<1>8. C \subseteq {y \in C : IF y = x THEN next[x] \in A \cup {Null}
                             ELSE y \in A}
  <2> DEFINE S == {y \in C : IF y = x THEN next[x] \in A \cup {Null}
                             ELSE y \in A}
  <2>1. o \in S
    BY <1>1, <1>6
  <2>2. ASSUME NEW y \in S, next[y] # Null PROVE next[y] \in S
    <3>1. y \in C /\ y \in D /\ next[y] \in C
      BY <1>1, <2>2
    <3>2. CASE y = x
      BY <1>2, <2>2, <3>1, <3>2
    <3>3. CASE y # x
      <4>1. other[y] = (IF next[y] = x THEN next[x] ELSE next[y]) /\ y \in A
        BY <1>4, <2>2, <3>1, <3>3
      <4> QED BY <1>6, <2>2, <3>1, <4>1
    <3> QED BY <3>2, <3>3
  <2> HIDE DEF S
  <2>3. C \subseteq S
    <3>1. \A y \in S : next[y] \in S \cup {Null}
      BY <2>2
    <3> QED BY <1>a, <2>1, <3>1
  <2> QED BY <2>3 DEF S
<1>9. A = N
  BY <1>0, <1>7, <1>8 DEF N
<1>10. Ends(other, h)
  <2>1. CASE l # x
    <3>1. other[l] = Null /\ l \in A
      BY <1>0, <1>1, <1>3, <1>4, <1>9, <2>1 DEF N
    <3> QED BY <3>1 DEF Ends, A
  <2>2. CASE l = x
    <3>1. x # o
      BY <1>3, <2>2
    <3>2. \E y \in C : y # x /\ next[y] = x
      <4>1. SUFFICES ASSUME \A y \in C : y # x => next[y] # x PROVE FALSE
        OBVIOUS
      <4>2. C \subseteq C \ {x}
        <5>1. o \in C \ {x} /\ \A y \in C \ {x} : next[y] \in (C \ {x}) \cup {Null}
          BY <1>1, <3>1, <4>1
        <5> QED BY <1>a, <5>1
      <4> QED BY <1>0, <4>2
    <3>3. PICK y \in C : y # x /\ next[y] = x
      BY <3>2
    <3>4. other[y] = Null
      BY <1>1, <1>3, <1>4, <2>2, <3>3
    <3> QED BY <1>9, <3>3, <3>4 DEF Ends, A, N
  <2> QED BY <2>1, <2>2
<1> QED BY <1>5, <1>9, <1>10 DEF A, C, N

-----------------------------------------------------------------------------
(* The inductive invariant.                                                *)

\* A place without an object is as the constructor and the destructor leave it.
Cleared == /\ \A a \in Promise \ alive : st[a] = Null /\ pnext[a] = Null
           /\ \A f \in Future \ alive : p[f] = Null /\ fnext[f] = Null

\* Who of A points into B has a list, linked by next, of just those who point to
\* the same head in B, and that head points back to the head of the list.
Groups(A, B, to, back, next) ==
  \A x \in A : to[x] \in B =>
    /\ back[to[x]] \in A /\ to[back[to[x]]] = to[x]
    /\ Ends(next, back[to[x]])
    /\ Chain(next, back[to[x]]) = {y \in A : to[y] = to[x]}

FuturesInv == /\ FuturesTypeOK /\ Cleared
              /\ Groups(Promise, Future, st, p, pnext)
              /\ Groups(Future, Promise, p, st, fnext)

\* What a valid promise finds, and a pending future.
LEMMA Found ==
  FuturesInv =>
    /\ \A a \in Promise : st[a] # Null =>
         /\ a \in alive /\ st[a] \in Future /\ Pending(st[a]) /\ p[st[a]] \in Promise
         /\ st[p[st[a]]] = st[a]
         /\ HeadPromise(a) = p[st[a]]
         /\ Futures(a) = {g \in Future : p[g] = p[st[a]]}
         /\ Promises(st[a]) = {b \in Promise : st[b] = st[a]}
    /\ \A f \in Future : Pending(f) =>
         /\ f \in alive /\ p[f] \in Promise /\ st[p[f]] \in Future /\ st[p[f]] # Null
         /\ p[st[p[f]]] = p[f]
         /\ HeadFuture(f) = st[p[f]]
         /\ Promises(f) = {b \in Promise : st[b] = st[p[f]]}
<1> SUFFICES ASSUME FuturesInv
             PROVE  /\ \A a \in Promise : st[a] # Null =>
                         /\ a \in alive /\ st[a] \in Future /\ Pending(st[a])
                         /\ p[st[a]] \in Promise
                         /\ st[p[st[a]]] = st[a]
                         /\ HeadPromise(a) = p[st[a]]
                         /\ Futures(a) = {g \in Future : p[g] = p[st[a]]}
                         /\ Promises(st[a]) = {b \in Promise : st[b] = st[a]}
                    /\ \A f \in Future : Pending(f) =>
                         /\ f \in alive /\ p[f] \in Promise
                         /\ st[p[f]] \in Future /\ st[p[f]] # Null
                         /\ p[st[p[f]]] = p[f]
                         /\ HeadFuture(f) = st[p[f]]
                         /\ Promises(f) = {b \in Promise : st[b] = st[p[f]]}
  OBVIOUS
<1>1. ASSUME NEW f \in Future, Pending(f)
      PROVE  /\ f \in alive /\ p[f] \in Promise /\ st[p[f]] \in Future /\ st[p[f]] # Null
             /\ p[st[p[f]]] = p[f]
             /\ HeadFuture(f) = st[p[f]]
             /\ Promises(f) = {b \in Promise : st[b] = st[p[f]]}
  <2>1. p[f] \in Promise /\ st[p[f]] \in Future /\ p[st[p[f]]] = p[f]
    BY <1>1 DEF FuturesInv, Groups, Pending
  <2>2. f \in alive /\ st[p[f]] # Null
    BY <2>1, FuturesAssumption DEF FuturesInv, Cleared
  <2>3. HeadFuture(f) = st[p[f]]
    BY <1>1, <2>2 DEF HeadFuture
  <2>4. Chain(pnext, p[f]) = {b \in Promise : st[b] = st[p[f]]}
    BY <2>1 DEF FuturesInv, Groups
  <2> QED BY <1>1, <2>1, <2>2, <2>3, <2>4 DEF Promises
<1>2. ASSUME NEW a \in Promise, st[a] # Null
      PROVE  /\ a \in alive /\ st[a] \in Future /\ Pending(st[a]) /\ p[st[a]] \in Promise
             /\ st[p[st[a]]] = st[a]
             /\ HeadPromise(a) = p[st[a]]
             /\ Futures(a) = {g \in Future : p[g] = p[st[a]]}
             /\ Promises(st[a]) = {b \in Promise : st[b] = st[a]}
  <2>1. a \in alive /\ st[a] \in Future
    BY <1>2 DEF FuturesInv, FuturesTypeOK, Cleared
  <2>2. /\ p[st[a]] \in Promise /\ Pending(st[a]) /\ st[p[st[a]]] = st[a]
        /\ Chain(pnext, p[st[a]]) = {b \in Promise : st[b] = st[a]}
    BY <2>1 DEF FuturesInv, Groups, Pending
  <2>3. HeadPromise(a) = p[st[a]]
    BY <1>2, <2>2 DEF HeadPromise
  <2>4. Chain(fnext, st[a]) = {g \in Future : p[g] = p[st[a]]}
    BY <2>1, <2>2 DEF FuturesInv, Groups
  <2> QED BY <1>2, <2>1, <2>2, <2>3, <2>4 DEF Futures, Promises
<1> QED BY <1>1, <1>2

\* An invalid promise, or a future that is not pending, finds only itself.
LEMMA FoundAlone ==
  /\ \A a \in Promise : st[a] = Null => HeadPromise(a) = a /\ Futures(a) = {}
  /\ \A f \in Future : ~Pending(f) => HeadFuture(f) = f /\ Promises(f) = {}
BY DEF HeadPromise, Futures, HeadFuture, Promises

\* The invariant says what the properties say.
LEMMA InvMeans == FuturesInv => NoDangling /\ Kept /\ Mutual
<1> SUFFICES ASSUME FuturesInv PROVE NoDangling /\ Kept /\ Mutual
  OBVIOUS
<1>1. \A f \in Future : p[f] \in Promise => f \in alive
  BY Found DEF Pending
<1>2. NoDangling
  BY <1>1, Found, FuturesAssumption DEF NoDangling
<1>3. Kept
  BY Found DEF Kept
<1>4. Mutual
  <2> SUFFICES ASSUME NEW f \in alive \cap Future, Pending(f)
               PROVE  Promises(f) = {a \in alive \cap Promise : f \in Futures(a)}
    BY DEF Mutual
  <2>1. /\ Promises(f) = {b \in Promise : st[b] = st[p[f]]} /\ st[p[f]] # Null
        /\ p[st[p[f]]] = p[f]
    BY Found
  <2>2. ASSUME NEW a \in Promise, st[a] = st[p[f]] PROVE a \in alive /\ f \in Futures(a)
    BY <2>1, <2>2, Found
  <2>3. ASSUME NEW a \in Promise, f \in Futures(a) PROVE st[a] = st[p[f]]
    <3>1. st[a] # Null
      BY <2>3, FoundAlone
    <3>2. p[f] = p[st[a]] /\ st[p[st[a]]] = st[a]
      BY <2>3, <3>1, Found
    <3> QED BY <3>2
  <2> QED BY <2>1, <2>2, <2>3
<1> QED BY <1>2, <1>3, <1>4

\* Nothing is anywhere at first.
LEMMA InvInit == FuturesInit => FuturesInv
<1> SUFFICES ASSUME FuturesInit PROVE FuturesInv
  OBVIOUS
<1>1. FuturesTypeOK
  BY DEF FuturesInit, FuturesTypeOK
<1>2. (\A a \in Promise : st[a] \notin Future) /\ \A f \in Future : p[f] \notin Promise
  BY FuturesAssumption DEF FuturesInit
<1> QED BY <1>1, <1>2 DEF FuturesInit, FuturesInv, Cleared, Groups

-----------------------------------------------------------------------------
(* What the operations do to the groups: F is the head in B of a group, H  *)
(* its head in A.                                                          *)

\* Its head in A is h now, and other members of A may have come and gone.
NewHead(A, B, to, back, next, F, H, to2, back2, next2, h) ==
  /\ next \in Links(A) /\ next2 \in Links(A)
  /\ F \in B /\ H \in A /\ to[H] = F /\ back[F] = H /\ h \in A
  /\ \A c \in A : to2[c] = to[c] \/ (to[c] \notin B \ {F} /\ to2[c] \notin B \ {F})
  /\ \A g \in B : back2[g] = IF back[g] = H THEN h ELSE back[g]
  /\ h = H \/ \A g \in B : back[g] # h
  /\ \A c \in A : to[c] \in B \ {F} => next2[c] = next[c]
  /\ Ends(next2, h) /\ Chain(next2, h) = {c \in A : to2[c] = F}

\* Such a change keeps the groups, its own and the others.
LEMMA Regroup ==
  ASSUME NEW A, NEW B, NEW to, NEW back, NEW next, NEW bnext,
         Groups(A, B, to, back, next), Groups(B, A, back, to, bnext),
         NEW F, NEW H, NEW to2, NEW back2, NEW next2, NEW h,
         NewHead(A, B, to, back, next, F, H, to2, back2, next2, h)
  PROVE  Groups(A, B, to2, back2, next2) /\ Groups(B, A, back2, to2, bnext)
<1> USE DEF NewHead
<1>1. to2[h] = F /\ back2[F] = h
  BY ChainClosed
<1>2. ASSUME NEW x \in A, to2[x] \in B
      PROVE  /\ back2[to2[x]] \in A /\ to2[back2[to2[x]]] = to2[x]
             /\ Ends(next2, back2[to2[x]])
             /\ Chain(next2, back2[to2[x]]) = {y \in A : to2[y] = to2[x]}
  <2>1. CASE to2[x] = F
    BY <1>1, <2>1
  <2>2. CASE to2[x] # F
    <3>1. to2[x] = to[x] /\ to[x] \in B /\ to[x] # F
      BY <1>2, <2>2
    <3> DEFINE o == back[to[x]]
    <3>2. /\ o \in A /\ to[o] = to[x] /\ Ends(next, o)
          /\ Chain(next, o) = {y \in A : to[y] = to[x]}
      BY <3>1 DEF Groups
    <3>3. o # H /\ back2[to[x]] = o
      BY <3>1, <3>2
    <3>4. to2[o] = to[x]
      BY <3>1, <3>2
    <3>5. \A y \in A : to2[y] = to[x] <=> to[y] = to[x]
      BY <3>1
    <3>6. \A y \in Chain(next, o) : next2[y] = next[y]
      BY <3>1, <3>2
    <3> HIDE DEF o
    <3>7. Chain(next2, o) = Chain(next, o) /\ Ends(next2, o)
      BY <3>2, <3>6, ChainSame
    <3> QED BY <3>1, <3>2, <3>3, <3>4, <3>5, <3>7
  <2> QED BY <2>1, <2>2
<1>3. ASSUME NEW g \in B, back2[g] \in A
      PROVE  /\ to2[back2[g]] \in B /\ back2[to2[back2[g]]] = back2[g]
             /\ Ends(bnext, to2[back2[g]])
             /\ Chain(bnext, to2[back2[g]]) = {y \in B : back2[y] = back2[g]}
  <2>1. CASE back[g] = H
    <3>1. back2[g] = h
      BY <2>1
    <3>2. Ends(bnext, F) /\ Chain(bnext, F) = {y \in B : back[y] = H}
      BY <2>1 DEF Groups
    <3>3. \A y \in B : back2[y] = h <=> back[y] = H
      OBVIOUS
    <3> QED BY <1>1, <3>1, <3>2, <3>3
  <2>2. CASE back[g] # H
    <3>1. back2[g] = back[g] /\ back[g] \in A /\ back[g] # h
      BY <1>3, <2>2
    <3>2. /\ to[back[g]] \in B /\ back[to[back[g]]] = back[g]
          /\ Ends(bnext, to[back[g]])
          /\ Chain(bnext, to[back[g]]) = {y \in B : back[y] = back[g]}
      BY <3>1 DEF Groups
    <3>3. to[back[g]] # F
      BY <2>2, <3>2
    <3>4. to2[back[g]] = to[back[g]]
      BY <3>1, <3>2, <3>3
    <3>5. back2[to[back[g]]] = back[g]
      BY <2>2, <3>2
    <3>6. \A y \in B : back2[y] = back[g] <=> back[y] = back[g]
      BY <2>2, <3>1
    <3> QED BY <3>1, <3>2, <3>4, <3>5, <3>6
  <2> QED BY <2>1, <2>2
<1> QED BY <1>2, <1>3 DEF Groups

\* The group is gone, and nothing of the others has changed.
Gone(A, B, to, back, next, F, H, to2, back2, next2) ==
  /\ next \in Links(A) /\ next2 \in Links(A)
  /\ F \in B /\ H \in A /\ to[H] = F /\ back[F] = H
  /\ \A c \in A : IF to[c] = F THEN to2[c] \notin B
                               ELSE to2[c] = to[c] /\ next2[c] = next[c]
  /\ \A g \in B : IF back[g] = H THEN back2[g] \notin A ELSE back2[g] = back[g]

\* The others stay groups.
LEMMA Dissolve ==
  ASSUME NEW A, NEW B, NEW to, NEW back, NEW next, Groups(A, B, to, back, next),
         NEW F, NEW H, NEW to2, NEW back2, NEW next2,
         Gone(A, B, to, back, next, F, H, to2, back2, next2)
  PROVE  Groups(A, B, to2, back2, next2)
<1> USE DEF Gone
<1> SUFFICES ASSUME NEW x \in A, to2[x] \in B
             PROVE  /\ back2[to2[x]] \in A /\ to2[back2[to2[x]]] = to2[x]
                    /\ Ends(next2, back2[to2[x]])
                    /\ Chain(next2, back2[to2[x]]) = {y \in A : to2[y] = to2[x]}
  BY DEF Groups
<1>1. to2[x] = to[x] /\ to[x] \in B /\ to[x] # F
  OBVIOUS
<1> DEFINE o == back[to[x]]
<1>2. /\ o \in A /\ to[o] = to[x] /\ Ends(next, o)
      /\ Chain(next, o) = {y \in A : to[y] = to[x]}
  BY <1>1 DEF Groups
<1>3. o # H /\ back2[to[x]] = o
  BY <1>1, <1>2
<1>4. to2[o] = to[x]
  BY <1>1, <1>2
<1>5. \A y \in A : to2[y] = to[x] <=> to[y] = to[x]
  BY <1>1
<1>6. \A y \in Chain(next, o) : next2[y] = next[y]
  BY <1>1, <1>2
<1> HIDE DEF o
<1>7. Chain(next2, o) = Chain(next, o) /\ Ends(next2, o)
  BY <1>2, <1>6, ChainSame
<1> QED BY <1>1, <1>2, <1>3, <1>4, <1>5, <1>7

\* Two that were in no group are one.
Begun(A, B, to, back, next, F, H, to2, back2) ==
  /\ next \in Links(A) /\ F \in B /\ H \in A
  /\ to[H] \notin B /\ back[F] \notin A /\ next[H] = Null
  /\ \A c \in A : to2[c] = IF c = H THEN F ELSE to[c]
  /\ \A g \in B : back2[g] = IF g = F THEN H ELSE back[g]

\* They are a group, and the others stay ones.
LEMMA NewGroup ==
  ASSUME NEW A, NEW B, NEW to, NEW back, NEW next, Groups(A, B, to, back, next),
         NEW F, NEW H, NEW to2, NEW back2,
         Begun(A, B, to, back, next, F, H, to2, back2)
  PROVE  Groups(A, B, to2, back2, next)
<1> USE DEF Begun
<1>1. \A c \in A : to[c] # F
  BY DEF Groups
<1>2. ASSUME NEW x \in A, to2[x] \in B
      PROVE  /\ back2[to2[x]] \in A /\ to2[back2[to2[x]]] = to2[x]
             /\ Ends(next, back2[to2[x]])
             /\ Chain(next, back2[to2[x]]) = {y \in A : to2[y] = to2[x]}
  <2>1. CASE x = H
    <3>1. Chain(next, H) = {H} /\ Ends(next, H)
      BY ChainStep DEF Ends
    <3>2. {y \in A : to2[y] = F} = {H}
      BY <1>1
    <3> QED BY <2>1, <3>1, <3>2
  <2>2. CASE x # H
    <3>1. to2[x] = to[x] /\ to[x] # F /\ to[x] \in B
      BY <1>1, <1>2, <2>2
    <3>2. /\ back[to[x]] \in A /\ to[back[to[x]]] = to[x] /\ Ends(next, back[to[x]])
          /\ Chain(next, back[to[x]]) = {y \in A : to[y] = to[x]}
      BY <3>1 DEF Groups
    <3>3. back[to[x]] # H /\ back2[to[x]] = back[to[x]] /\ to2[back[to[x]]] = to[x]
      BY <3>1, <3>2
    <3>4. \A y \in A : to2[y] = to[x] <=> to[y] = to[x]
      BY <1>2, <3>1
    <3> QED BY <3>1, <3>2, <3>3, <3>4
  <2> QED BY <2>1, <2>2
<1> QED BY <1>2 DEF Groups

\* Links outside the groups say nothing.
LEMMA GroupsSame ==
  ASSUME NEW A, NEW B, NEW to, NEW back, NEW next \in Links(A), NEW next2 \in Links(A),
         Groups(A, B, to, back, next),
         \A c \in A : to[c] \in B => next2[c] = next[c]
  PROVE  Groups(A, B, to, back, next2)
<1> SUFFICES ASSUME NEW x \in A, to[x] \in B
             PROVE  /\ back[to[x]] \in A /\ to[back[to[x]]] = to[x]
                    /\ Ends(next2, back[to[x]])
                    /\ Chain(next2, back[to[x]]) = {y \in A : to[y] = to[x]}
  BY DEF Groups
<1> DEFINE o == back[to[x]]
<1>1. /\ o \in A /\ to[o] = to[x] /\ Ends(next, o)
      /\ Chain(next, o) = {y \in A : to[y] = to[x]}
  BY DEF Groups
<1>2. \A y \in Chain(next, o) : next2[y] = next[y]
  BY <1>1
<1> HIDE DEF o
<1>3. Chain(next2, o) = Chain(next, o) /\ Ends(next2, o)
  BY <1>1, <1>2, ChainSame
<1> QED BY <1>1, <1>3 DEF o

\* Nor do pointers from outside the groups to nobody in B.
LEMMA OthersPoint ==
  ASSUME NEW A, NEW B, NEW to, NEW back, NEW next, NEW to2, Groups(A, B, to, back, next),
         \A x \in A : to[x] \in B => to2[x] = to[x],
         \A x \in A : to[x] \notin B => to2[x] \notin B
  PROVE  Groups(A, B, to2, back, next)
BY DEF Groups

\* Nor do pointers back to nobody in A.
LEMMA OthersPointBack ==
  ASSUME NEW A, NEW B, NEW to, NEW back, NEW next, NEW back2, Groups(A, B, to, back, next),
         \A g \in B : back[g] \in A => back2[g] = back[g]
  PROVE  Groups(A, B, to, back2, next)
BY DEF Groups

-----------------------------------------------------------------------------
(* The invariant's parts after an operation on promises, or on futures.    *)

\* The links of the type invariant, as the lemmas on chains take them.
LEMMA LinksType ==
  FuturesTypeOK => /\ pnext \in Links(Promise) /\ fnext \in Links(Future)
                   /\ Null \notin Promise /\ Null \notin Future
BY FuturesAssumption DEF FuturesTypeOK, Links


\* Both sides of the invariant, when the promises of a group change.
LEMMA PromisesRegroup ==
  ASSUME FuturesInv, fnext' = fnext, NEW F, NEW H, NEW h,
         NewHead(Promise, Future, st, p, pnext, F, H, st', p', pnext', h)
  PROVE  /\ Groups(Promise, Future, st, p, pnext)'
         /\ Groups(Future, Promise, p, st, fnext)'
BY Regroup DEF FuturesInv

\* The same when the futures of a group change.
LEMMA FuturesRegroup ==
  ASSUME FuturesInv, pnext' = pnext, NEW F, NEW H, NEW h,
         NewHead(Future, Promise, p, st, fnext, F, H, p', st', fnext', h)
  PROVE  /\ Groups(Promise, Future, st, p, pnext)'
         /\ Groups(Future, Promise, p, st, fnext)'
BY Regroup DEF FuturesInv

-----------------------------------------------------------------------------
(* Promises.                                                               *)

\* A group as the lists of both its heads.
LEMMA GroupOf ==
  ASSUME FuturesInv, NEW a \in Promise, st[a] # Null
  PROVE  /\ st[a] \in Future /\ p[st[a]] \in Promise /\ st[p[st[a]]] = st[a]
         /\ a \in Chain(pnext, p[st[a]]) /\ st[a] \in Chain(fnext, st[a])
         /\ Ends(pnext, p[st[a]]) /\ Ends(fnext, st[a])
         /\ Chain(pnext, p[st[a]]) = {b \in Promise : st[b] = st[a]}
         /\ Chain(fnext, st[a]) = {g \in Future : p[g] = p[st[a]]}
BY Found DEF FuturesInv, Groups

\* The copy is appended to the list.
LEMMA CopyPromiseKeeps ==
  ASSUME FuturesInv, NEW a \in Promise, NEW b \in Promise, CopyPromise(a, b)
  PROVE  FuturesInv'
<1> DEFINE F == st[a]
           H == p[st[a]]
<1>1. /\ F \in Future /\ H \in Promise /\ st[H] = F /\ p[F] = H
      /\ a \in Chain(pnext, H) /\ Ends(pnext, H)
      /\ Chain(pnext, H) = {c \in Promise : st[c] = F}
  BY GroupOf DEF CopyPromise
<1>2. pnext \in Links(Promise) /\ Null \notin Promise /\ Null \notin Future
  BY LinksType DEF FuturesInv
<1>3. st[b] = Null /\ pnext[b] = Null /\ b \notin Chain(pnext, H)
  BY <1>1, <1>2 DEF CopyPromise, Empty, FuturesInv, Cleared
<1>4. EndOf(pnext, a) \in Chain(pnext, H) /\ EndOf(pnext, a) \in Promise
  <2> HIDE DEF F, H
  <2> QED BY <1>1, <1>2, EndOfList
<1>5. FuturesTypeOK'
  BY <1>4 DEF CopyPromise, FuturesInv, FuturesTypeOK
<1>6. pnext' \in Links(Promise)
  BY <1>5 DEF FuturesTypeOK, Links
<1>7. \A y \in Promise : pnext'[y] = IF y = EndOf(pnext, a) THEN b ELSE pnext[y]
  BY <1>2 DEF CopyPromise, Links
<1>8. \A c \in Promise : st'[c] = IF c = b THEN F ELSE st[c]
  BY DEF CopyPromise, FuturesInv, FuturesTypeOK
<1>9. p' = p /\ fnext' = fnext
  BY DEF CopyPromise
<1> HIDE DEF F, H
<1>10. Ends(pnext', H) /\ Chain(pnext', H) = Chain(pnext, H) \cup {b}
  BY <1>1, <1>2, <1>3, <1>6, <1>7, ListAppend
<1>11. NewHead(Promise, Future, st, p, pnext, F, H, st', p', pnext', H)
  <2>1. Chain(pnext', H) = {c \in Promise : st'[c] = F}
    BY <1>1, <1>8, <1>10
  <2>2. \A c \in Promise : st'[c] = st[c] \/ /\ st[c] \notin Future \ {F}
                                             /\ st'[c] \notin Future \ {F}
    BY <1>2, <1>3, <1>8
  <2>3. \A c \in Promise : st[c] \in Future \ {F} => pnext'[c] = pnext[c]
    BY <1>1, <1>4, <1>7
  <2>4. \A g \in Future : p'[g] = IF p[g] = H THEN H ELSE p[g]
    BY <1>9
  <2> QED BY <1>1, <1>2, <1>6, <1>10, <2>1, <2>2, <2>3, <2>4 DEF NewHead
<1>12. Cleared'
  <2>1. alive' = alive \cup {b}
    BY DEF CopyPromise
  <2>2. EndOf(pnext, a) \in alive
    BY <1>1, <1>2, <1>4 DEF FuturesInv, Cleared
  <2> QED BY <1>7, <1>8, <1>9, <2>1, <2>2 DEF FuturesInv, Cleared
<1> QED BY <1>5, <1>9, <1>11, <1>12, PromisesRegroup DEF FuturesInv

\* update() in one form, whether or not the promise is the head: nobody points to a
\* head within the list, and no future points to another.
LEMMA MovePromiseMeans ==
  ASSUME FuturesInv, NEW a \in Promise, NEW b \in Promise, MovePromise(a, b)
  PROVE  /\ a # b /\ st[b] = Null /\ pnext[b] = Null /\ a \in alive /\ b \notin alive
         /\ \A c \in Promise : st'[c] = IF c = a THEN Null ELSE IF c = b THEN st[a] ELSE st[c]
         /\ st[a] = Null =>
              /\ p' = p
              /\ \A c \in Promise \ {a, b} : pnext'[c] = pnext[c]
         /\ st[a] # Null =>
              /\ \A g \in Future : p'[g] = IF p[g] = a THEN b ELSE p[g]
              /\ \A c \in Promise : pnext'[c] =
                   IF c = a THEN Null
                   ELSE IF c = b THEN pnext[a]
                   ELSE IF c \in Chain(pnext, p[st[a]]) /\ pnext[c] = a THEN b
                   ELSE pnext[c]
<1>1. /\ pnext \in Links(Promise) /\ Null \notin Promise /\ Null \notin Future
  BY LinksType DEF FuturesInv
<1>2. a # b /\ st[b] = Null /\ pnext[b] = Null /\ a \in alive /\ b \notin alive
  BY DEF MovePromise, Empty, FuturesInv, Cleared
<1>3. \A c \in Promise : st'[c] = IF c = a THEN Null ELSE IF c = b THEN st[a] ELSE st[c]
  BY <1>2 DEF MovePromise, FuturesInv, FuturesTypeOK
<1>4. ASSUME st[a] = Null
      PROVE  p' = p /\ \A c \in Promise \ {a, b} : pnext'[c] = pnext[c]
  <2>1. HeadPromise(a) = a /\ Futures(a) = {}
    BY <1>4, FoundAlone
  <2>2. p' = p
    BY <2>1 DEF MovePromise, Point, FuturesInv, FuturesTypeOK
  <2>3. \A c \in Promise \ {a, b} : pnext'[c] = pnext[c]
    BY <2>1, <1>1 DEF MovePromise, Links
  <2> QED BY <2>2, <2>3
<1>5. ASSUME st[a] # Null
      PROVE  /\ \A g \in Future : p'[g] = IF p[g] = a THEN b ELSE p[g]
             /\ \A c \in Promise : pnext'[c] =
                   IF c = a THEN Null
                   ELSE IF c = b THEN pnext[a]
                   ELSE IF c \in Chain(pnext, p[st[a]]) /\ pnext[c] = a THEN b
                   ELSE pnext[c]
  <2>1. /\ HeadPromise(a) = p[st[a]] /\ Futures(a) = {g \in Future : p[g] = p[st[a]]}
        /\ p[st[a]] \in Promise /\ st[p[st[a]]] = st[a]
    BY <1>5, Found
  <2>2. p \in [Future -> Promise \cup {Null} \cup FutureState]
    BY DEF FuturesInv, FuturesTypeOK
  <2>3. CASE HeadPromise(a) = a
    <3>1. p' = Point(p, Futures(a), b) /\ pnext' = [pnext EXCEPT ![b] = pnext[a], ![a] = Null]
      BY <2>3 DEF MovePromise
    <3>2. \A c \in Chain(pnext, a) : pnext[c] # a
      <4>1. Ends(pnext, a)
        BY <1>5, <2>1, <2>3, GroupOf
      <4> QED BY <1>1, <4>1, HeadUnlinked
    <3> QED BY <1>1, <1>2, <2>1, <2>2, <2>3, <3>1, <3>2 DEF Point, Links
  <2>4. CASE HeadPromise(a) # a
    <3>1. /\ p' = p
          /\ pnext' = [Relink(pnext, HeadPromise(a), a, b) EXCEPT ![b] = pnext[a], ![a] = Null]
      BY <2>4 DEF MovePromise
    <3>2. \A g \in Future : p[g] # a
      <4>1. \A g \in Future : p[g] = a => p[st[a]] = a
        BY Found DEF Pending
      <4> QED BY <4>1, <2>1, <2>4
    <3> QED BY <1>1, <1>2, <2>1, <3>1, <3>2 DEF Relink, Links
  <2> QED BY <2>3, <2>4
<1> QED BY <1>2, <1>3, <1>4, <1>5

\* The new place takes over in the list, as its head too.
LEMMA MovePromiseKeeps ==
  ASSUME FuturesInv, NEW a \in Promise, NEW b \in Promise, MovePromise(a, b)
  PROVE  FuturesInv'
<1>1. /\ pnext \in Links(Promise) /\ Null \notin Promise /\ Null \notin Future
  BY LinksType DEF FuturesInv
<1>2. /\ a # b /\ st[b] = Null /\ pnext[b] = Null /\ a \in alive /\ b \notin alive
      /\ \A c \in Promise : st'[c] = IF c = a THEN Null ELSE IF c = b THEN st[a] ELSE st[c]
  BY MovePromiseMeans
<1>3. fnext' = fnext /\ eptr' = eptr /\ alive' = alive \cup {b}
  BY DEF MovePromise
<1>4. /\ pnext' \in [Promise -> Promise \cup {Null}]
      /\ p' \in [Future -> Promise \cup {Null} \cup FutureState]
  <2>1. p \in [Future -> Promise \cup {Null} \cup FutureState]
    BY DEF FuturesInv, FuturesTypeOK
  <2>2. CASE HeadPromise(a) = a
    BY <1>1, <2>1, <2>2 DEF MovePromise, Point, Links
  <2>3. CASE HeadPromise(a) # a
    <3>1. Relink(pnext, HeadPromise(a), a, b) \in [Promise -> Promise \cup {Null}]
      BY <1>1 DEF Relink, Links
    <3> QED BY <1>1, <2>1, <2>3, <3>1 DEF MovePromise, Links
  <2> QED BY <2>2, <2>3
<1>5. pnext' \in Links(Promise)
  BY <1>4 DEF Links
<1>6. \A f \in Future : p[f] \in FutureState => p'[f] = p[f]
  BY MovePromiseMeans, FuturesAssumption
<1>7. FuturesTypeOK'
  BY <1>3, <1>4, <1>6 DEF MovePromise, FuturesInv, FuturesTypeOK
<1>8. Cleared'
  <2>1. \A c \in Promise \ alive' : st'[c] = Null /\ pnext'[c] = Null
    <3>1. ASSUME NEW c \in Promise \ alive' PROVE st'[c] = Null /\ pnext'[c] = Null
      <4>1. c # a /\ c # b /\ c \notin alive /\ st[c] = Null /\ pnext[c] = Null
        BY <1>2, <1>3, <3>1 DEF FuturesInv, Cleared
      <4> QED BY <1>1, <1>2, <4>1, MovePromiseMeans
    <3> QED BY <3>1
  <2>2. \A f \in Future \ alive' : p'[f] = Null /\ fnext'[f] = Null
    <3>1. \A f \in Future \ alive' : p[f] = Null /\ fnext'[f] = Null
      BY <1>3 DEF FuturesInv, Cleared
    <3> QED BY <1>1, <3>1, MovePromiseMeans
  <2> QED BY <2>1, <2>2 DEF Cleared
<1>9. Groups(Promise, Future, st, p, pnext)' /\ Groups(Future, Promise, p, st, fnext)'
  <2>1. CASE st[a] = Null
    <3>1. p' = p /\ \A c \in Promise \ {a, b} : pnext'[c] = pnext[c]
      BY <2>1, MovePromiseMeans
    <3>2. st' = st
      BY <1>2, <2>1, <1>7 DEF FuturesInv, FuturesTypeOK
    <3>3. Groups(Promise, Future, st, p, pnext) /\ Groups(Future, Promise, p, st, fnext)
      BY DEF FuturesInv
    <3>4. \A c \in Promise : st[c] \in Future => pnext'[c] = pnext[c]
      BY <1>1, <1>2, <2>1, <3>1
    <3>5. Groups(Promise, Future, st, p, pnext')
      BY <1>1, <1>5, <3>3, <3>4, GroupsSame
    <3> QED BY <1>3, <3>1, <3>2, <3>3, <3>5
  <2>2. CASE st[a] # Null
    <3> DEFINE F == st[a]
               H == p[st[a]]
               h == IF a = H THEN b ELSE H
    <3>1. /\ F \in Future /\ H \in Promise /\ st[H] = F /\ p[F] = H
          /\ a \in Chain(pnext, H) /\ Ends(pnext, H)
          /\ Chain(pnext, H) = {c \in Promise : st[c] = F}
      BY <2>2, GroupOf
    <3>2. /\ \A g \in Future : p'[g] = IF p[g] = a THEN b ELSE p[g]
          /\ \A c \in Promise : pnext'[c] =
                   IF c = a THEN Null
                   ELSE IF c = b THEN pnext[a]
                   ELSE IF c \in Chain(pnext, H) /\ pnext[c] = a THEN b
                   ELSE pnext[c]
      BY <2>2, MovePromiseMeans
    <3>3. \A g \in Future : p[g] # b /\ (p[g] = a => a = H)
      <4>1. \A g \in Future : p[g] \in Promise => st[p[g]] # Null /\ p[st[p[g]]] = p[g]
        BY Found DEF Pending
      <4> QED BY <1>2, <4>1
    <3>4. b \in Promise \ Chain(pnext, H) /\ h = (IF a = H THEN b ELSE H)
      BY <1>1, <1>2, <3>1
    <3> HIDE DEF F, H, h
    <3>5. /\ h \in Promise /\ Ends(pnext', h)
          /\ Chain(pnext', h) = (Chain(pnext, H) \ {a}) \cup {b}
      BY <1>1, <1>5, <3>1, <3>2, <3>4, ListReplace
    <3>6. Chain(pnext', h) = {c \in Promise : st'[c] = F}
      BY <1>1, <1>2, <3>1, <3>5 DEF F
    <3>7. \A c \in Promise : st'[c] = st[c] \/ (st[c] \notin Future \ {F} /\ st'[c] \notin Future \ {F})
      <4>1. F = st[a] /\ F # Null
        BY <2>2 DEF F
      <4>2. ASSUME NEW c \in Promise
            PROVE  st'[c] = st[c] \/ (st[c] \notin Future \ {F} /\ st'[c] \notin Future \ {F})
        <5>1. CASE c = a
          BY <1>1, <1>2, <4>1, <5>1
        <5>2. CASE c # a
          BY <1>1, <1>2, <4>1, <5>2
        <5> QED BY <5>1, <5>2
      <4> QED BY <4>2
    <3>8. \A g \in Future : p'[g] = IF p[g] = H THEN h ELSE p[g]
      BY <3>2, <3>3 DEF h
    <3>9. h = H \/ \A g \in Future : p[g] # h
      BY <3>3 DEF h
    <3>10. \A c \in Promise : st[c] \in Future \ {F} => pnext'[c] = pnext[c]
      BY <1>1, <1>2, <3>1, <3>2
    <3>11. NewHead(Promise, Future, st, p, pnext, F, H, st', p', pnext', h)
      BY <1>1, <1>5, <3>1, <3>5, <3>6, <3>7, <3>8, <3>9, <3>10 DEF NewHead
    <3> QED BY <1>3, <3>11, PromisesRegroup
  <2> QED BY <2>1, <2>2
<1> QED BY <1>7, <1>8, <1>9 DEF FuturesInv

\* remove() in one form; a head that is not alone has a next promise.
LEMMA RemovePromiseMeans ==
  ASSUME FuturesInv, NEW a \in Promise, RemovePromise(a)
  PROVE  /\ st[a] # Null /\ a \in alive
         /\ a = p[st[a]] => pnext[a] # Null
         /\ \A c \in Promise : st'[c] = IF c = a THEN Null ELSE st[c]
         /\ \A g \in Future : p'[g] = IF p[g] = a THEN pnext[a] ELSE p[g]
         /\ \A c \in Promise : pnext'[c] =
              IF c = a THEN Null
              ELSE IF c \in Chain(pnext, p[st[a]]) /\ pnext[c] = a THEN pnext[a]
              ELSE pnext[c]
<1>1. /\ pnext \in Links(Promise) /\ Null \notin Promise /\ Null \notin Future
  BY LinksType DEF FuturesInv
<1>2. st[a] # Null /\ a \in alive
  BY DEF RemovePromise
<1>3. \A c \in Promise : st'[c] = IF c = a THEN Null ELSE st[c]
  BY DEF RemovePromise, FuturesInv, FuturesTypeOK
<1>4. /\ HeadPromise(a) = p[st[a]] /\ Futures(a) = {g \in Future : p[g] = p[st[a]]}
      /\ p[st[a]] \in Promise /\ st[p[st[a]]] = st[a]
      /\ Promises(st[a]) = Chain(pnext, p[st[a]])
  BY <1>2, Found, GroupOf
<1>5. ASSUME a = p[st[a]] PROVE pnext[a] # Null
  <2>1. pnext[a] = Null => Promises(st[a]) = {a}
    BY <1>1, <1>4, <1>5, ChainStep
  <2>2. Cardinality({a}) = 1
    BY FS_Singleton
  <2>3. Cardinality(Promises(st[a])) > 1
    BY DEF RemovePromise
  <2> QED BY <2>1, <2>2, <2>3
<1>6. p \in [Future -> Promise \cup {Null} \cup FutureState]
  BY DEF FuturesInv, FuturesTypeOK
<1>7. /\ \A g \in Future : p'[g] = IF p[g] = a THEN pnext[a] ELSE p[g]
      /\ \A c \in Promise : pnext'[c] =
           IF c = a THEN Null
           ELSE IF c \in Chain(pnext, p[st[a]]) /\ pnext[c] = a THEN pnext[a]
           ELSE pnext[c]
  <2>1. CASE HeadPromise(a) = a
    <3>1. p' = Point(p, Futures(a), pnext[a]) /\ pnext' = [pnext EXCEPT ![a] = Null]
      BY <2>1 DEF RemovePromise
    <3>2. \A c \in Chain(pnext, a) : pnext[c] # a
      <4>1. Ends(pnext, a)
        BY <1>2, <1>4, <2>1, GroupOf
      <4> QED BY <1>1, <4>1, HeadUnlinked
    <3> QED BY <1>1, <1>4, <1>6, <2>1, <3>1, <3>2 DEF Point, Links
  <2>2. CASE HeadPromise(a) # a
    <3>1. /\ p' = p
          /\ pnext' = [Relink(pnext, HeadPromise(a), a, pnext[a]) EXCEPT ![a] = Null]
      BY <2>2 DEF RemovePromise
    <3>2. \A g \in Future : p[g] # a
      <4>1. \A g \in Future : p[g] = a => p[st[a]] = a
        BY Found DEF Pending
      <4> QED BY <4>1, <1>4, <2>2
    <3> QED BY <1>1, <1>4, <3>1, <3>2 DEF Relink, Links
  <2> QED BY <2>1, <2>2
<1> QED BY <1>2, <1>3, <1>5, <1>7

\* The promise leaves the list, and the next is the head if it was.
LEMMA RemovePromiseKeeps ==
  ASSUME FuturesInv, NEW a \in Promise, RemovePromise(a)
  PROVE  FuturesInv'
<1> DEFINE F == st[a]
           H == p[st[a]]
           h == IF a = H THEN pnext[a] ELSE H
<1>1. /\ pnext \in Links(Promise) /\ Null \notin Promise /\ Null \notin Future
  BY LinksType DEF FuturesInv
<1>2. /\ a \in alive
      /\ a = H => pnext[a] # Null
      /\ \A c \in Promise : st'[c] = IF c = a THEN Null ELSE st[c]
      /\ \A g \in Future : p'[g] = IF p[g] = a THEN pnext[a] ELSE p[g]
      /\ \A c \in Promise : pnext'[c] =
           IF c = a THEN Null
           ELSE IF c \in Chain(pnext, H) /\ pnext[c] = a THEN pnext[a]
           ELSE pnext[c]
  BY RemovePromiseMeans
<1>3. fnext' = fnext /\ eptr' = eptr /\ alive' = alive \ {a}
  BY DEF RemovePromise
<1>4. /\ F \in Future /\ H \in Promise /\ st[H] = F /\ p[F] = H
      /\ a \in Chain(pnext, H) /\ Ends(pnext, H)
      /\ Chain(pnext, H) = {c \in Promise : st[c] = F}
  BY GroupOf DEF RemovePromise
<1>5. /\ pnext' \in [Promise -> Promise \cup {Null}]
      /\ p' \in [Future -> Promise \cup {Null} \cup FutureState]
  <2>1. p \in [Future -> Promise \cup {Null} \cup FutureState]
    BY DEF FuturesInv, FuturesTypeOK
  <2>2. CASE HeadPromise(a) = a
    BY <1>1, <2>1, <2>2 DEF RemovePromise, Point, Links
  <2>3. CASE HeadPromise(a) # a
    <3>1. Relink(pnext, HeadPromise(a), a, pnext[a]) \in [Promise -> Promise \cup {Null}]
      BY <1>1 DEF Relink, Links
    <3> QED BY <1>1, <2>1, <2>3, <3>1 DEF RemovePromise, Links
  <2> QED BY <2>2, <2>3
<1>6. pnext' \in Links(Promise)
  BY <1>5 DEF Links
<1>7. FuturesTypeOK'
  <2>1. \A f \in Future : p[f] \in FutureState => p'[f] = p[f]
    BY <1>2, FuturesAssumption
  <2> QED BY <1>3, <1>5, <2>1 DEF RemovePromise, FuturesInv, FuturesTypeOK
<1>8. \A g \in Future : p[g] = a => a = H
  <2>1. \A g \in Future : p[g] \in Promise => p[st[p[g]]] = p[g]
    BY Found DEF Pending
  <2> QED BY <2>1
<1>9. h = (IF a = H THEN pnext[a] ELSE H) /\ F = st[a] /\ F # Null
  BY <1>1, <1>4
<1> HIDE DEF F, H, h
<1>10. /\ h \in Promise /\ Ends(pnext', h)
       /\ Chain(pnext', h) = Chain(pnext, H) \ {a}
  BY <1>1, <1>2, <1>4, <1>6, <1>9, ListRemove
<1>11. NewHead(Promise, Future, st, p, pnext, F, H, st', p', pnext', h)
  <2>1. Chain(pnext', h) = {c \in Promise : st'[c] = F}
    BY <1>2, <1>4, <1>9, <1>10
  <2>2. \A c \in Promise : st'[c] = st[c] \/ (st[c] \notin Future \ {F} /\ st'[c] \notin Future \ {F})
    BY <1>1, <1>2, <1>9
  <2>3. \A g \in Future : p'[g] = IF p[g] = H THEN h ELSE p[g]
    BY <1>2, <1>8, <1>9
  <2>4. h = H \/ \A g \in Future : p[g] # h
    <3>1. ASSUME a = H, NEW g \in Future, p[g] = h PROVE FALSE
      <4>1. h \in Chain(pnext', h)
        BY <1>6, <1>10, ChainClosed
      <4>2. st[h] = F /\ h # a
        BY <1>4, <1>10, <4>1
      <4>3. p[st[p[g]]] = p[g]
        BY <1>10, <3>1, Found DEF Pending
      <4> QED BY <1>4, <3>1, <4>2, <4>3
    <3> QED BY <1>9, <3>1
  <2>5. \A c \in Promise : st[c] \in Future \ {F} => pnext'[c] = pnext[c]
    BY <1>2, <1>4, <1>9
  <2> QED BY <1>1, <1>4, <1>6, <1>10, <2>1, <2>2, <2>3, <2>4, <2>5 DEF NewHead
<1>12. Cleared'
  <2>1. \A c \in Promise \ alive' : st'[c] = Null /\ pnext'[c] = Null
    BY <1>2, <1>1, <1>3, <1>4, <1>9 DEF FuturesInv, Cleared
  <2>2. \A f \in Future \ alive' : p'[f] = Null /\ fnext'[f] = Null
    BY <1>1, <1>2, <1>3, FuturesAssumption DEF FuturesInv, Cleared
  <2> QED BY <2>1, <2>2 DEF Cleared
<1> QED BY <1>3, <1>7, <1>11, <1>12, PromisesRegroup DEF FuturesInv

\* The outcome reaches the members of the group.
LEMMA ReadyMeans ==
  ASSUME FuturesInv, NEW a \in Promise, st[a] # Null, NEW r \in {"none", "error", "broken"},
         Ready(a, r)
  PROVE  /\ \A c \in Promise : st'[c] = IF st[c] = st[a] THEN Null ELSE st[c]
         /\ \A g \in Future : p'[g] = IF p[g] = p[st[a]] THEN "READY" ELSE p[g]
         /\ \A g \in Future : eptr'[g] = IF p[g] = p[st[a]] THEN r ELSE eptr[g]
         /\ st' \in [Promise -> Future \cup {Null}]
         /\ p' \in [Future -> Promise \cup {Null} \cup FutureState]
         /\ eptr' \in [Future -> {"none", "error", "broken"}]
         /\ \A f \in Future : eptr'[f] # "none" => p'[f] \in FutureState
<1>1. /\ Futures(a) = {g \in Future : p[g] = p[st[a]]}
      /\ Promises(st[a]) = {b \in Promise : st[b] = st[a]}
  BY Found
<1>2. /\ st \in [Promise -> Future \cup {Null}]
      /\ p \in [Future -> Promise \cup {Null} \cup FutureState]
      /\ eptr \in [Future -> {"none", "error", "broken"}]
      /\ \A f \in Future : eptr[f] # "none" => p[f] \in FutureState
  BY DEF FuturesInv, FuturesTypeOK
<1>3. /\ st' = [c \in Promise |-> IF st[c] = st[a] THEN Null ELSE st[c]]
      /\ p' = [g \in Future |-> IF p[g] = p[st[a]] THEN "READY" ELSE p[g]]
      /\ eptr' = [g \in Future |-> IF p[g] = p[st[a]] THEN r ELSE eptr[g]]
  BY <1>1, <1>2 DEF Ready, Point
<1> QED BY <1>2, <1>3 DEF FutureState

\* The group is gone, with the promise that was destroyed for it or without.
LEMMA ReadyKeeps ==
  ASSUME FuturesInv, NEW a \in Promise, st[a] # Null, NEW r \in {"none", "error", "broken"},
         Ready(a, r), fnext' = fnext,
         \/ alive' = alive /\ pnext' = pnext
         \/ /\ alive' = alive \ {a} /\ pnext' = [pnext EXCEPT ![a] = Null]
  PROVE  FuturesInv'
<1> DEFINE F == st[a]
           H == p[st[a]]
<1>1. /\ pnext \in Links(Promise) /\ Null \notin Promise /\ Null \notin Future
      /\ fnext \in Links(Future)
  BY LinksType DEF FuturesInv
<1>2. F \in Future /\ H \in Promise /\ st[H] = F /\ p[F] = H /\ F = st[a]
  BY GroupOf
<1>3. /\ \A c \in Promise : st'[c] = IF st[c] = F THEN Null ELSE st[c]
      /\ \A g \in Future : p'[g] = IF p[g] = H THEN "READY" ELSE p[g]
  BY ReadyMeans
<1>4. pnext' \in Links(Promise) /\ \A c \in Promise : c # a => pnext'[c] = pnext[c]
  BY <1>1 DEF Links
<1>5. FuturesTypeOK'
  <2>1. alive' \in SUBSET (Promise \cup Future) /\ pnext' \in [Promise -> Promise \cup {Null}]
    BY <1>4 DEF FuturesInv, FuturesTypeOK, Links
  <2> QED BY <2>1, ReadyMeans DEF FuturesInv, FuturesTypeOK
<1> HIDE DEF F, H
<1>6. "READY" \notin Promise
  BY FuturesAssumption DEF FutureState
<1>7. Gone(Promise, Future, st, p, pnext, F, H, st', p', pnext')
  BY <1>1, <1>2, <1>3, <1>4, <1>6 DEF Gone
<1>8. Gone(Future, Promise, p, st, fnext, H, F, p', st', fnext')
  BY <1>1, <1>2, <1>3, <1>6 DEF Gone
<1>9. Groups(Promise, Future, st, p, pnext)' /\ Groups(Future, Promise, p, st, fnext)'
  BY <1>7, <1>8, Dissolve DEF FuturesInv
<1>10. Cleared'
  <2>1. ASSUME NEW c \in Promise \ alive' PROVE st'[c] = Null /\ pnext'[c] = Null
    <3>1. c = a \/ (st[c] = Null /\ pnext[c] = Null)
      BY <2>1 DEF FuturesInv, Cleared
    <3>2. c = a => c \notin alive' /\ a \in alive
      BY <2>1, Found
    <3> QED BY <1>1, <1>2, <1>3, <1>4, <3>1, <3>2 DEF Links
  <2>2. \A f \in Future \ alive' : p'[f] = Null /\ fnext'[f] = Null
    BY <1>1, <1>2, <1>3, FuturesAssumption DEF FuturesInv, Cleared
  <2> QED BY <2>1, <2>2 DEF Cleared
<1> QED BY <1>5, <1>9, <1>10 DEF FuturesInv

\* An outcome is set.
LEMMA SetKeeps ==
  ASSUME FuturesInv, NEW a \in Promise, NEW r \in {"none", "error"}, Set(a, r)
  PROVE  FuturesInv'
BY ReadyKeeps DEF Set

\* The last promise is destroyed.
LEMMA BreakPromiseKeeps ==
  ASSUME FuturesInv, NEW a \in Promise, BreakPromise(a)
  PROVE  FuturesInv'
BY ReadyKeeps DEF BreakPromise

\* A promise without a future is in no group.
LEMMA NewPromiseKeeps ==
  ASSUME FuturesInv, NEW a \in Promise, NewPromise(a)
  PROVE  FuturesInv'
BY DEF NewPromise, FuturesInv, FuturesTypeOK, Cleared

\* A promise that is in no group can go.
LEMMA DestroyPromiseKeeps ==
  ASSUME FuturesInv, NEW a \in Promise, DestroyPromise(a)
  PROVE  FuturesInv'
<1>1. pnext \in Links(Promise) /\ Null \notin Future
  BY LinksType DEF FuturesInv
<1>2. /\ a \in alive /\ st[a] = Null /\ alive' = alive \ {a}
      /\ pnext' = [pnext EXCEPT ![a] = Null]
      /\ st' = st /\ p' = p /\ fnext' = fnext /\ eptr' = eptr
  BY DEF DestroyPromise
<1>3. pnext' \in Links(Promise) /\ \A c \in Promise : c # a => pnext'[c] = pnext[c]
  BY <1>1, <1>2 DEF Links
<1>4. FuturesTypeOK'
  BY <1>2, <1>3 DEF FuturesInv, FuturesTypeOK, Links
<1>5. Groups(Promise, Future, st, p, pnext')
  <2>1. \A c \in Promise : st[c] \in Future => pnext'[c] = pnext[c]
    BY <1>1, <1>2, <1>3
  <2>2. Groups(Promise, Future, st, p, pnext)
    BY DEF FuturesInv
  <2> QED BY <1>1, <1>3, <2>1, <2>2, GroupsSame
<1>6. Cleared'
  BY <1>1, <1>2, <1>3, FuturesAssumption DEF FuturesInv, Cleared, Links
<1> QED BY <1>2, <1>4, <1>5, <1>6 DEF FuturesInv

-----------------------------------------------------------------------------
(* Futures.                                                                *)

\* The list of futures that a pending future is in.
LEMMA FutureGroupOf ==
  ASSUME FuturesInv, NEW f \in Future, Pending(f)
  PROVE  /\ p[f] \in Promise /\ st[p[f]] \in Future /\ p[st[p[f]]] = p[f]
         /\ f \in Chain(fnext, st[p[f]]) /\ Ends(fnext, st[p[f]])
         /\ Chain(fnext, st[p[f]]) = {g \in Future : p[g] = p[f]}
BY Found DEF FuturesInv, Groups

\* append() of g behind a member x of the group of F and H.
LEMMA AppendFuture ==
  ASSUME FuturesInv, NEW F, NEW H, F \in Future, H \in Promise, st[H] = F, p[F] = H,
         NEW x \in Chain(fnext, F), NEW g \in Future \ alive,
         alive' = alive \cup {g}, p' = [p EXCEPT ![g] = H],
         fnext' = [fnext EXCEPT ![EndOf(fnext, x)] = g],
         eptr' = [eptr EXCEPT ![g] = "none"], st' = st, pnext' = pnext
  PROVE  FuturesInv'
<1>1. fnext \in Links(Future) /\ Null \notin Promise /\ Null \notin Future
  BY LinksType DEF FuturesInv
<1>2. Ends(fnext, F) /\ Chain(fnext, F) = {k \in Future : p[k] = H}
  BY DEF FuturesInv, Groups
<1>3. p[g] = Null /\ fnext[g] = Null /\ g \notin Chain(fnext, F)
  BY <1>1, <1>2 DEF FuturesInv, Cleared
<1>4. EndOf(fnext, x) \in Chain(fnext, F) /\ EndOf(fnext, x) \in Future
  BY <1>1, <1>2, EndOfList
<1>5. FuturesTypeOK'
  BY <1>4 DEF FuturesInv, FuturesTypeOK
<1>6. fnext' \in Links(Future)
  BY <1>5 DEF FuturesTypeOK, Links
<1>7. \A y \in Future : fnext'[y] = IF y = EndOf(fnext, x) THEN g ELSE fnext[y]
  BY <1>1 DEF Links
<1>8. \A k \in Future : p'[k] = IF k = g THEN H ELSE p[k]
  BY DEF FuturesInv, FuturesTypeOK
<1>9. F \in Future /\ x \in Chain(fnext, F) /\ g \in Future \ Chain(fnext, F)
  BY <1>3
<1>10. Ends(fnext', F) /\ Chain(fnext', F) = Chain(fnext, F) \cup {g}
  BY ONLY <1>1, <1>2, <1>3, <1>6, <1>7, <1>9, ListAppend
<1>11. NewHead(Future, Promise, p, st, fnext, H, F, p', st', fnext', F)
  <2>1. Chain(fnext', F) = {k \in Future : p'[k] = H}
    BY <1>2, <1>8, <1>10
  <2>2. \A k \in Future : p'[k] = p[k] \/ (p[k] \notin Promise \ {H} /\ p'[k] \notin Promise \ {H})
    BY <1>1, <1>3, <1>8
  <2>3. \A k \in Future : p[k] \in Promise \ {H} => fnext'[k] = fnext[k]
    BY <1>2, <1>4, <1>7
  <2>4. \A c \in Promise : st'[c] = IF st[c] = F THEN F ELSE st[c]
    OBVIOUS
  <2> QED BY <1>1, <1>2, <1>6, <1>10, <2>1, <2>2, <2>3, <2>4 DEF NewHead
<1>12. Cleared'
  <2>1. EndOf(fnext, x) \in alive
    BY <1>1, <1>2, <1>4 DEF FuturesInv, Cleared
  <2> QED BY <1>7, <1>8, <2>1 DEF FuturesInv, Cleared
<1> QED BY <1>5, <1>11, <1>12, FuturesRegroup DEF FuturesInv

\* The copy is appended to the list.
LEMMA CopyFutureKeeps ==
  ASSUME FuturesInv, NEW f \in Future, NEW g \in Future, CopyFuture(f, g)
  PROVE  FuturesInv'
<1>1. /\ p[f] \in Promise /\ st[p[f]] \in Future /\ p[st[p[f]]] = p[f]
      /\ f \in Chain(fnext, st[p[f]])
  BY FutureGroupOf DEF CopyFuture
<1> QED BY <1>1, AppendFuture DEF CopyFuture, Empty

\* A future is appended to the list of the promise, or the two begin a group.
LEMMA NewFutureKeeps ==
  ASSUME FuturesInv, NEW f \in Future, NEW a \in Promise, NewFuture(f, a)
  PROVE  FuturesInv'
<1>1. CASE st[a] # Null
  <2>1. /\ st[a] \in Future /\ p[st[a]] \in Promise /\ st[p[st[a]]] = st[a]
        /\ st[a] \in Chain(fnext, st[a])
    BY <1>1, GroupOf
  <2>2. HeadPromise(a) = p[st[a]]
    BY <1>1, Found
  <2>3. /\ f \in Future \ alive /\ alive' = alive \cup {f} /\ p' = [p EXCEPT ![f] = p[st[a]]]
        /\ fnext' = [fnext EXCEPT ![EndOf(fnext, st[a])] = f]
        /\ eptr' = [eptr EXCEPT ![f] = "none"] /\ st' = st /\ pnext' = pnext
    BY <1>1, <2>2 DEF NewFuture, Empty
  <2> QED BY <2>1, <2>3, AppendFuture
<1>2. CASE st[a] = Null
  <2>1. /\ pnext \in Links(Promise) /\ Null \notin Promise /\ Null \notin Future
        /\ fnext \in Links(Future)
    BY LinksType DEF FuturesInv
  <2>2. HeadPromise(a) = a
    BY <1>2, FoundAlone
  <2>3. /\ f \notin alive /\ a \in alive /\ pnext[a] = Null
        /\ alive' = alive \cup {f} /\ p' = [p EXCEPT ![f] = a]
        /\ st' = [st EXCEPT ![a] = f] /\ eptr' = [eptr EXCEPT ![f] = "none"]
        /\ fnext' = fnext /\ pnext' = pnext
    BY <1>2, <2>2 DEF NewFuture, Empty
  <2>4. p[f] = Null /\ fnext[f] = Null
    BY <2>3 DEF FuturesInv, Cleared
  <2>5. FuturesTypeOK'
    BY <2>3 DEF FuturesInv, FuturesTypeOK
  <2>6. /\ \A c \in Promise : st'[c] = IF c = a THEN f ELSE st[c]
        /\ \A g \in Future : p'[g] = IF g = f THEN a ELSE p[g]
    BY <2>3 DEF FuturesInv, FuturesTypeOK
  <2>7. Begun(Promise, Future, st, p, pnext, f, a, st', p')
    BY <1>2, <2>1, <2>3, <2>4, <2>6 DEF Begun
  <2>8. Begun(Future, Promise, p, st, fnext, a, f, p', st')
    BY <1>2, <2>1, <2>3, <2>4, <2>6 DEF Begun
  <2>9. Groups(Promise, Future, st', p', pnext) /\ Groups(Future, Promise, p', st', fnext)
    BY <2>7, <2>8, NewGroup DEF FuturesInv
  <2>10. Cleared'
    BY <2>3, <2>6 DEF FuturesInv, Cleared
  <2> QED BY <2>3, <2>5, <2>9, <2>10 DEF FuturesInv
<1> QED BY <1>1, <1>2

\* update() of a future in one form, whether pending or not and the head or not.
LEMMA MoveFutureMeans ==
  ASSUME FuturesInv, NEW f \in Future, NEW g \in Future, MoveFuture(f, g)
  PROVE  /\ f # g /\ p[g] = Null /\ fnext[g] = Null /\ f \in alive /\ g \notin alive
         /\ \A k \in Future : p'[k] = IF k = f THEN Null ELSE IF k = g THEN p[f] ELSE p[k]
         /\ \A k \in Future : eptr'[k] =
              IF k = f THEN "none" ELSE IF k = g THEN eptr[f] ELSE eptr[k]
         /\ \A c \in Promise : st'[c] = IF st[c] = f THEN g ELSE st[c]
         /\ fnext' \in Links(Future)
         /\ \A k \in Future : fnext'[k] =
              IF k = f THEN Null
              ELSE IF k = g THEN fnext[f]
              ELSE IF k \in Chain(fnext, HeadFuture(f)) /\ fnext[k] = f THEN g
              ELSE fnext[k]
<1>1. /\ fnext \in Links(Future) /\ Null \notin Promise /\ Null \notin Future
  BY LinksType DEF FuturesInv
<1>2. f # g /\ p[g] = Null /\ fnext[g] = Null /\ f \in alive /\ g \notin alive
  BY DEF MoveFuture, Empty, FuturesInv, Cleared
<1>3. /\ p' = [p EXCEPT ![g] = p[f], ![f] = Null]
      /\ eptr' = [eptr EXCEPT ![g] = eptr[f], ![f] = "none"]
      /\ fnext' = [Relink(fnext, HeadFuture(f), f, g) EXCEPT ![g] = fnext[f], ![f] = Null]
      /\ st' = IF HeadFuture(f) = f THEN Point(st, Promises(f), g) ELSE st
  BY DEF MoveFuture
<1>4. /\ st \in [Promise -> Future \cup {Null}]
      /\ p \in [Future -> Promise \cup {Null} \cup FutureState]
      /\ eptr \in [Future -> {"none", "error", "broken"}]
  BY DEF FuturesInv, FuturesTypeOK
<1>5. \A k \in Future : p'[k] = IF k = f THEN Null ELSE IF k = g THEN p[f] ELSE p[k]
  BY <1>2, <1>3, <1>4
<1>6. \A k \in Future : eptr'[k] = IF k = f THEN "none" ELSE IF k = g THEN eptr[f] ELSE eptr[k]
  BY <1>2, <1>3, <1>4
<1>7. /\ fnext' \in Links(Future)
      /\ \A k \in Future : fnext'[k] =
              IF k = f THEN Null
              ELSE IF k = g THEN fnext[f]
              ELSE IF k \in Chain(fnext, HeadFuture(f)) /\ fnext[k] = f THEN g
              ELSE fnext[k]
  <2>1. Relink(fnext, HeadFuture(f), f, g) \in Links(Future)
    BY <1>1 DEF Relink, Links
  <2> QED BY <1>1, <1>2, <1>3, <2>1 DEF Relink, Links
<1>8. \A c \in Promise : st'[c] = IF st[c] = f THEN g ELSE st[c]
  <2>0. \A c \in Promise : st[c] = f => Pending(f) /\ st[p[f]] = f
    BY <1>1, Found
  <2>1. CASE Pending(f)
    <3>1. Promises(f) = {b \in Promise : st[b] = st[p[f]]} /\ HeadFuture(f) = st[p[f]]
      BY <2>1, Found
    <3> QED BY <1>3, <1>4, <2>0, <3>1 DEF Point
  <2>2. CASE ~Pending(f)
    <3>1. Promises(f) = {}
      BY <2>2, FoundAlone
    <3> QED BY <1>3, <1>4, <2>0, <2>2, <3>1 DEF Point
  <2> QED BY <2>1, <2>2
<1> QED BY <1>2, <1>5, <1>6, <1>7, <1>8

\* Who is pending points to nobody outside its own group.
LEMMA PendingLinks ==
  ASSUME FuturesInv, NEW k \in Future, Pending(k)
  PROVE  fnext[k] = Null \/ (fnext[k] \in Future /\ p[fnext[k]] = p[k])
<1>1. fnext \in Links(Future)
  BY LinksType DEF FuturesInv
<1>2. /\ st[p[k]] \in Future /\ k \in Chain(fnext, st[p[k]])
      /\ Chain(fnext, st[p[k]]) = {g \in Future : p[g] = p[k]}
  BY FutureGroupOf
<1>3. fnext[k] \in Chain(fnext, st[p[k]]) \cup {Null}
  BY <1>1, <1>2, ChainClosed
<1> QED BY <1>2, <1>3

\* The new place takes over in the list; a future that is not pending is in none.
LEMMA MoveFutureKeeps ==
  ASSUME FuturesInv, NEW f \in Future, NEW g \in Future, MoveFuture(f, g)
  PROVE  FuturesInv'
<1>1. /\ fnext \in Links(Future) /\ Null \notin Promise /\ Null \notin Future
  BY LinksType DEF FuturesInv
<1>2. /\ f # g /\ p[g] = Null /\ fnext[g] = Null /\ f \in alive /\ g \notin alive
      /\ \A k \in Future : p'[k] = IF k = f THEN Null ELSE IF k = g THEN p[f] ELSE p[k]
      /\ \A k \in Future : eptr'[k] =
              IF k = f THEN "none" ELSE IF k = g THEN eptr[f] ELSE eptr[k]
      /\ \A c \in Promise : st'[c] = IF st[c] = f THEN g ELSE st[c]
      /\ fnext' \in Links(Future)
      /\ \A k \in Future : fnext'[k] =
              IF k = f THEN Null
              ELSE IF k = g THEN fnext[f]
              ELSE IF k \in Chain(fnext, HeadFuture(f)) /\ fnext[k] = f THEN g
              ELSE fnext[k]
  BY MoveFutureMeans
<1>3. alive' = alive \cup {g} /\ pnext' = pnext
  BY DEF MoveFuture
<1>4. FuturesTypeOK'
  <2>1. /\ st \in [Promise -> Future \cup {Null}]
        /\ p \in [Future -> Promise \cup {Null} \cup FutureState]
        /\ eptr \in [Future -> {"none", "error", "broken"}]
        /\ \A k \in Future : eptr[k] # "none" => p[k] \in FutureState
    BY DEF FuturesInv, FuturesTypeOK
  <2>2. st' \in [Promise -> Future \cup {Null}]
    BY <2>1 DEF MoveFuture, Point
  <2>3. /\ p' \in [Future -> Promise \cup {Null} \cup FutureState]
        /\ eptr' \in [Future -> {"none", "error", "broken"}]
    BY <2>1 DEF MoveFuture
  <2>4. \A k \in Future : eptr'[k] # "none" => p'[k] \in FutureState
    BY <1>2, <2>1
  <2> QED BY <1>2, <1>3, <2>2, <2>3, <2>4 DEF FuturesInv, FuturesTypeOK, Links
<1>5. Cleared'
  <2>1. ASSUME NEW k \in Future \ alive' PROVE p'[k] = Null /\ fnext'[k] = Null
    <3>1. k # f /\ k # g /\ p[k] = Null /\ fnext[k] = Null
      BY <1>2, <1>3, <2>1 DEF FuturesInv, Cleared
    <3> QED BY <1>1, <1>2, <3>1
  <2>2. \A c \in Promise \ alive' : st'[c] = Null /\ pnext'[c] = Null
    BY <1>1, <1>2, <1>3 DEF FuturesInv, Cleared
  <2> QED BY <2>1, <2>2 DEF Cleared
<1>6. CASE Pending(f)
  <2> DEFINE H == p[f]
             F == st[p[f]]
             h == IF f = F THEN g ELSE F
  <2>1. /\ H \in Promise /\ F \in Future /\ p[F] = H /\ st[H] = F
        /\ f \in Chain(fnext, F) /\ Ends(fnext, F)
        /\ Chain(fnext, F) = {k \in Future : p[k] = H}
    BY <1>6, FutureGroupOf
  <2>2. HeadFuture(f) = F
    BY <1>6, Found
  <2>3. \A c \in Promise : st[c] # g /\ (st[c] = f => f = F)
    BY <1>1, <1>2, Found DEF Pending
  <2>4. g \in Future \ Chain(fnext, F) /\ h = (IF f = F THEN g ELSE F) /\ H = p[f]
    BY <1>1, <1>2, <2>1
  <2> HIDE DEF F, H, h
  <2>5. /\ h \in Future /\ Ends(fnext', h)
        /\ Chain(fnext', h) = (Chain(fnext, F) \ {f}) \cup {g}
    BY <1>1, <1>2, <2>1, <2>2, <2>4, ListReplace
  <2>6. Chain(fnext', h) = {k \in Future : p'[k] = H}
    BY <1>1, <1>2, <2>1, <2>4, <2>5
  <2>7. \A k \in Future : p'[k] = p[k] \/ (p[k] \notin Promise \ {H} /\ p'[k] \notin Promise \ {H})
    <3>1. ASSUME NEW k \in Future
          PROVE  p'[k] = p[k] \/ (p[k] \notin Promise \ {H} /\ p'[k] \notin Promise \ {H})
      <4>1. CASE k = f
        BY <1>1, <1>2, <2>4, <4>1
      <4>2. CASE k # f
        BY <1>1, <1>2, <2>4, <4>2
      <4> QED BY <4>1, <4>2
    <3> QED BY <3>1
  <2>8. \A c \in Promise : st'[c] = IF st[c] = F THEN h ELSE st[c]
    BY <1>2, <2>3, <2>4
  <2>9. h = F \/ \A c \in Promise : st[c] # h
    BY <2>3, <2>4
  <2>10. \A k \in Future : p[k] \in Promise \ {H} => fnext'[k] = fnext[k]
    BY <1>1, <1>2, <2>1, <2>2, <2>4
  <2>11. NewHead(Future, Promise, p, st, fnext, H, F, p', st', fnext', h)
    BY <1>1, <1>2, <2>1, <2>5, <2>6, <2>7, <2>8, <2>9, <2>10 DEF NewHead
  <2> QED BY <1>3, <1>4, <1>5, <2>11, FuturesRegroup DEF FuturesInv
<1>7. CASE ~Pending(f)
  <2>1. \A c \in Promise : st[c] # f
    BY <1>1, <1>7, Found
  <2>2. st' = st
    BY <1>2, <1>4, <2>1 DEF FuturesInv, FuturesTypeOK
  <2>3. \A k \in Future : p[k] \in Promise => k # f /\ k # g /\ p'[k] = p[k] /\ fnext'[k] = fnext[k]
    BY <1>1, <1>2, <1>7, PendingLinks DEF Pending
  <2>4. \A k \in Future : p[k] \notin Promise => p'[k] \notin Promise
    BY <1>1, <1>2, <1>7 DEF Pending
  <2>5. Groups(Promise, Future, st, p, pnext) /\ Groups(Future, Promise, p, st, fnext)
    BY DEF FuturesInv
  <2>6. \A k \in Future : p[k] \in Promise => fnext'[k] = fnext[k]
    BY <2>3
  <2>7. Groups(Future, Promise, p, st, fnext')
    BY <1>1, <1>2, <2>5, <2>6, GroupsSame
  <2>8. Groups(Future, Promise, p', st, fnext')
    BY <2>3, <2>4, <2>7, OthersPoint
  <2>9. Groups(Promise, Future, st, p', pnext)
    BY <2>3, <2>5, OthersPointBack
  <2> QED BY <1>3, <1>4, <1>5, <2>2, <2>8, <2>9 DEF FuturesInv
<1> QED BY <1>6, <1>7

\* The destructor in one form.
LEMMA DestroyFutureMeans ==
  ASSUME FuturesInv, NEW f \in Future, DestroyFuture(f)
  PROVE  /\ f \in alive /\ alive' = alive \ {f} /\ pnext' = pnext
         /\ \A k \in Future : p'[k] = IF k = f THEN Null ELSE p[k]
         /\ \A k \in Future : eptr'[k] = IF k = f THEN "none" ELSE eptr[k]
         /\ \A c \in Promise : st'[c] = IF st[c] = f THEN fnext[f] ELSE st[c]
         /\ fnext' \in Links(Future)
         /\ \A k \in Future : fnext'[k] =
              IF k = f THEN Null
              ELSE IF Pending(f) /\ k \in Chain(fnext, HeadFuture(f)) /\ fnext[k] = f
                   THEN fnext[f]
              ELSE fnext[k]
<1>1. /\ fnext \in Links(Future) /\ Null \notin Promise /\ Null \notin Future
  BY LinksType DEF FuturesInv
<1>2. /\ f \in alive /\ alive' = alive \ {f} /\ pnext' = pnext
      /\ p' = [p EXCEPT ![f] = Null] /\ eptr' = [eptr EXCEPT ![f] = "none"]
      /\ fnext' = (IF Pending(f)
                   THEN [Relink(fnext, HeadFuture(f), f, fnext[f]) EXCEPT ![f] = Null]
                   ELSE [fnext EXCEPT ![f] = Null])
      /\ st' = IF HeadFuture(f) = f THEN Point(st, Promises(f), fnext[f]) ELSE st
  BY DEF DestroyFuture
<1>3. /\ st \in [Promise -> Future \cup {Null}]
      /\ p \in [Future -> Promise \cup {Null} \cup FutureState]
      /\ eptr \in [Future -> {"none", "error", "broken"}]
  BY DEF FuturesInv, FuturesTypeOK
<1>4. /\ \A k \in Future : p'[k] = IF k = f THEN Null ELSE p[k]
      /\ \A k \in Future : eptr'[k] = IF k = f THEN "none" ELSE eptr[k]
  BY <1>2, <1>3
<1>5. /\ fnext' \in Links(Future)
      /\ \A k \in Future : fnext'[k] =
              IF k = f THEN Null
              ELSE IF Pending(f) /\ k \in Chain(fnext, HeadFuture(f)) /\ fnext[k] = f
                   THEN fnext[f]
              ELSE fnext[k]
  <2>1. CASE Pending(f)
    <3>1. Relink(fnext, HeadFuture(f), f, fnext[f]) \in Links(Future)
      BY <1>1 DEF Relink, Links
    <3> QED BY <1>1, <1>2, <2>1, <3>1 DEF Relink, Links
  <2>2. CASE ~Pending(f)
    BY <1>1, <1>2, <2>2 DEF Links
  <2> QED BY <2>1, <2>2
<1>6. \A c \in Promise : st'[c] = IF st[c] = f THEN fnext[f] ELSE st[c]
  <2>0. \A c \in Promise : st[c] = f => Pending(f) /\ st[p[f]] = f
    BY <1>1, Found
  <2>1. CASE Pending(f)
    <3>1. Promises(f) = {b \in Promise : st[b] = st[p[f]]} /\ HeadFuture(f) = st[p[f]]
      BY <2>1, Found
    <3> QED BY <1>2, <1>3, <2>0, <3>1 DEF Point
  <2>2. CASE ~Pending(f)
    <3>1. Promises(f) = {}
      BY <2>2, FoundAlone
    <3> QED BY <1>2, <1>3, <2>0, <2>2, <3>1 DEF Point
  <2> QED BY <2>1, <2>2
<1> QED BY <1>2, <1>4, <1>5, <1>6

\* The future leaves the list, which is gone if it was the last.
LEMMA DestroyFutureKeeps ==
  ASSUME FuturesInv, NEW f \in Future, DestroyFuture(f)
  PROVE  FuturesInv'
<1>1. /\ fnext \in Links(Future) /\ Null \notin Promise /\ Null \notin Future
      /\ pnext \in Links(Promise)
  BY LinksType DEF FuturesInv
<1>2. /\ f \in alive /\ alive' = alive \ {f} /\ pnext' = pnext
      /\ \A k \in Future : p'[k] = IF k = f THEN Null ELSE p[k]
      /\ \A k \in Future : eptr'[k] = IF k = f THEN "none" ELSE eptr[k]
      /\ \A c \in Promise : st'[c] = IF st[c] = f THEN fnext[f] ELSE st[c]
      /\ fnext' \in Links(Future)
      /\ \A k \in Future : fnext'[k] =
              IF k = f THEN Null
              ELSE IF Pending(f) /\ k \in Chain(fnext, HeadFuture(f)) /\ fnext[k] = f
                   THEN fnext[f]
              ELSE fnext[k]
  BY DestroyFutureMeans
<1>3. FuturesTypeOK'
  <2>1. /\ st \in [Promise -> Future \cup {Null}]
        /\ p \in [Future -> Promise \cup {Null} \cup FutureState]
        /\ eptr \in [Future -> {"none", "error", "broken"}]
        /\ \A k \in Future : eptr[k] # "none" => p[k] \in FutureState
    BY DEF FuturesInv, FuturesTypeOK
  <2>2. fnext[f] \in Future \cup {Null}
    BY <1>1 DEF Links
  <2>3. st' \in [Promise -> Future \cup {Null}]
    BY <2>1, <2>2 DEF DestroyFuture, Point
  <2>4. /\ p' \in [Future -> Promise \cup {Null} \cup FutureState]
        /\ eptr' \in [Future -> {"none", "error", "broken"}]
    BY <2>1 DEF DestroyFuture
  <2>5. \A k \in Future : eptr'[k] # "none" => p'[k] \in FutureState
    BY <1>2, <2>1
  <2> QED BY <1>2, <2>3, <2>4, <2>5 DEF FuturesInv, FuturesTypeOK, Links
<1>4. Cleared'
  <2>1. ASSUME NEW k \in Future \ alive' PROVE p'[k] = Null /\ fnext'[k] = Null
    <3>1. k = f \/ (p[k] = Null /\ fnext[k] = Null)
      BY <1>2, <2>1 DEF FuturesInv, Cleared
    <3> QED BY <1>1, <1>2, <3>1
  <2>2. \A c \in Promise \ alive' : st'[c] = Null /\ pnext'[c] = Null
    BY <1>1, <1>2, FuturesAssumption DEF FuturesInv, Cleared
  <2> QED BY <2>1, <2>2 DEF Cleared
<1>5. CASE Pending(f)
  <2> DEFINE H == p[f]
             F == st[p[f]]
  <2>1. /\ H \in Promise /\ F \in Future /\ p[F] = H /\ st[H] = F
        /\ f \in Chain(fnext, F) /\ Ends(fnext, F)
        /\ Chain(fnext, F) = {k \in Future : p[k] = H}
    BY <1>5, FutureGroupOf
  <2>2. HeadFuture(f) = F
    BY <1>5, Found
  <2>3. \A c \in Promise : (st[c] = f => f = F) /\ (st[c] # Null => st[p[st[c]]] = st[c])
    BY <1>1, Found
  <2>4. H = p[f]
    OBVIOUS
  <2> HIDE DEF F, H
  <2>5. CASE f = F /\ fnext[f] = Null
    <3>1. Chain(fnext, F) = {f}
      BY <1>1, <2>1, <2>5, ChainStep
    <3>2. \A k \in Future : p[k] = H <=> k = f
      BY <2>1, <2>4, <3>1
    <3>3. Gone(Promise, Future, st, p, pnext, F, H, st', p', pnext')
      BY <1>1, <1>2, <2>1, <2>5, <3>2 DEF Gone
    <3>4. \A k \in Future : IF p[k] = H THEN p'[k] \notin Promise
                            ELSE p'[k] = p[k] /\ fnext'[k] = fnext[k]
      <4>1. \A k \in Chain(fnext, F) : fnext[k] # f
        BY <1>1, <2>5, <3>1
      <4> QED BY <1>1, <1>2, <2>2, <3>2, <4>1
    <3>5. \A c \in Promise : IF st[c] = F THEN st'[c] \notin Future ELSE st'[c] = st[c]
      BY <1>1, <1>2, <2>5
    <3>6. Gone(Future, Promise, p, st, fnext, H, F, p', st', fnext')
      BY <1>1, <1>2, <2>1, <3>4, <3>5 DEF Gone
    <3>7. Groups(Promise, Future, st', p', pnext') /\ Groups(Future, Promise, p', st', fnext')
      BY <3>3, <3>6, Dissolve DEF FuturesInv
    <3> QED BY <1>3, <1>4, <3>7 DEF FuturesInv
  <2>6. CASE ~(f = F /\ fnext[f] = Null)
    <3> DEFINE h == IF f = F THEN fnext[f] ELSE F
    <3>1. h = (IF f = F THEN fnext[f] ELSE F) /\ (f = F => fnext[f] # Null)
      BY <2>6
    <3> HIDE DEF h
    <3>2. \A k \in Future : fnext'[k] =
            IF k = f THEN Null
            ELSE IF k \in Chain(fnext, F) /\ fnext[k] = f THEN fnext[f]
            ELSE fnext[k]
      BY <1>2, <1>5, <2>2
    <3>3. /\ h \in Future /\ Ends(fnext', h)
          /\ Chain(fnext', h) = Chain(fnext, F) \ {f}
      BY <1>1, <1>2, <2>1, <3>1, <3>2, ListRemove
    <3>4. Chain(fnext', h) = {k \in Future : p'[k] = H}
      BY <1>1, <1>2, <2>1, <3>3
    <3>5. \A k \in Future : p'[k] = p[k] \/ (p[k] \notin Promise \ {H} /\ p'[k] \notin Promise \ {H})
      BY <1>1, <1>2, <2>4
    <3>6. \A c \in Promise : st'[c] = IF st[c] = F THEN h ELSE st[c]
      BY <1>2, <2>3, <3>1
    <3>7. h = F \/ \A c \in Promise : st[c] # h
      <4>1. ASSUME f = F, NEW c \in Promise, st[c] = h PROVE FALSE
        <5>1. h \in Chain(fnext', h)
          BY <1>2, <3>3, ChainClosed
        <5>2. p[h] = H /\ h # f
          BY <2>1, <3>3, <5>1
        <5>3. st[p[st[c]]] = st[c]
          BY <1>1, <2>3, <3>3, <4>1
        <5> QED BY <2>1, <4>1, <5>2, <5>3
      <4> QED BY <3>1, <4>1
    <3>8. \A k \in Future : p[k] \in Promise \ {H} => fnext'[k] = fnext[k]
      BY <2>1, <2>4, <3>2
    <3>9. NewHead(Future, Promise, p, st, fnext, H, F, p', st', fnext', h)
      BY <1>1, <1>2, <2>1, <3>3, <3>4, <3>5, <3>6, <3>7, <3>8 DEF NewHead
    <3> QED BY <1>2, <1>3, <1>4, <3>9, FuturesRegroup DEF FuturesInv
  <2> QED BY <2>5, <2>6
<1>6. CASE ~Pending(f)
  <2>1. \A c \in Promise : st[c] # f
    BY <1>1, <1>6, Found
  <2>2. st' = st
    BY <1>2, <1>3, <2>1 DEF FuturesInv, FuturesTypeOK
  <2>3. /\ \A k \in Future : p[k] \in Promise => p'[k] = p[k]
        /\ \A k \in Future : p[k] \in Promise => fnext'[k] = fnext[k]
        /\ \A k \in Future : p[k] \notin Promise => p'[k] \notin Promise
    BY <1>1, <1>2, <1>6 DEF Pending
  <2>4. Groups(Promise, Future, st, p, pnext) /\ Groups(Future, Promise, p, st, fnext)
    BY DEF FuturesInv
  <2>5. Groups(Future, Promise, p, st, fnext')
    BY <1>1, <1>2, <2>3, <2>4, GroupsSame
  <2>6. Groups(Future, Promise, p', st, fnext')
    BY <2>3, <2>5, OthersPoint
  <2>7. Groups(Promise, Future, st, p', pnext)
    BY <2>3, <2>4, OthersPointBack
  <2> QED BY <1>2, <1>3, <1>4, <2>2, <2>6, <2>7 DEF FuturesInv
<1> QED BY <1>5, <1>6

\* Who is ready is in no group.
LEMMA RetrieveKeeps ==
  ASSUME FuturesInv, NEW f \in Future, Retrieve(f)
  PROVE  FuturesInv'
<1>1. /\ p[f] = "READY" /\ p' = [p EXCEPT ![f] = "RETRIEVED"]
      /\ alive' = alive /\ st' = st /\ pnext' = pnext /\ fnext' = fnext /\ eptr' = eptr
  BY DEF Retrieve
<1>2. /\ "READY" \notin Promise /\ "RETRIEVED" \notin Promise
      /\ "READY" # Null /\ {"READY", "RETRIEVED"} \subseteq FutureState
  BY FuturesAssumption DEF FutureState
<1>3. \A k \in Future : p'[k] = IF k = f THEN "RETRIEVED" ELSE p[k]
  BY <1>1 DEF FuturesInv, FuturesTypeOK
<1>4. FuturesTypeOK'
  BY <1>1, <1>2 DEF FuturesInv, FuturesTypeOK
<1>5. Cleared'
  BY <1>1, <1>2, <1>3 DEF FuturesInv, Cleared
<1>6. /\ \A k \in Future : p[k] \in Promise => p'[k] = p[k]
      /\ \A k \in Future : p[k] \notin Promise => p'[k] \notin Promise
  BY <1>1, <1>2, <1>3
<1>7. Groups(Promise, Future, st, p, pnext) /\ Groups(Future, Promise, p, st, fnext)
  BY DEF FuturesInv
<1>8. Groups(Future, Promise, p', st, fnext)
  BY <1>6, <1>7, OthersPoint
<1>9. Groups(Promise, Future, st, p', pnext)
  BY <1>6, <1>7, OthersPointBack
<1> QED BY <1>1, <1>4, <1>5, <1>8, <1>9 DEF FuturesInv

-----------------------------------------------------------------------------
(* The invariant.                                                          *)

\* Every step keeps the invariant.
LEMMA StepKeeps == FuturesInv /\ [FuturesNext]_futuresVars => FuturesInv'
<1> SUFFICES ASSUME FuturesInv, [FuturesNext]_futuresVars PROVE FuturesInv'
  OBVIOUS
<1>1. CASE UNCHANGED futuresVars
  BY <1>1 DEF futuresVars, FuturesInv, FuturesTypeOK, Cleared
<1>2. ASSUME NEW a \in Promise, NewPromise(a) PROVE FuturesInv'
  BY <1>2, NewPromiseKeeps
<1>3. ASSUME NEW a \in Promise, BreakPromise(a) PROVE FuturesInv'
  BY <1>3, BreakPromiseKeeps
<1>4. ASSUME NEW a \in Promise, RemovePromise(a) PROVE FuturesInv'
  BY <1>4, RemovePromiseKeeps
<1>5. ASSUME NEW a \in Promise, DestroyPromise(a) PROVE FuturesInv'
  BY <1>5, DestroyPromiseKeeps
<1>6. ASSUME NEW a \in Promise, NEW r \in {"none", "error"}, Set(a, r) PROVE FuturesInv'
  BY <1>6, SetKeeps
<1>7. ASSUME NEW a \in Promise, NEW b \in Promise, CopyPromise(a, b) PROVE FuturesInv'
  BY <1>7, CopyPromiseKeeps
<1>8. ASSUME NEW a \in Promise, NEW b \in Promise, MovePromise(a, b) PROVE FuturesInv'
  BY <1>8, MovePromiseKeeps
<1>9. ASSUME NEW f \in Future, DestroyFuture(f) PROVE FuturesInv'
  BY <1>9, DestroyFutureKeeps
<1>10. ASSUME NEW f \in Future, Retrieve(f) PROVE FuturesInv'
  BY <1>10, RetrieveKeeps
<1>11. ASSUME NEW f \in Future, NEW a \in Promise, NewFuture(f, a) PROVE FuturesInv'
  BY <1>11, NewFutureKeeps
<1>12. ASSUME NEW f \in Future, NEW g \in Future, CopyFuture(f, g) PROVE FuturesInv'
  BY <1>12, CopyFutureKeeps
<1>13. ASSUME NEW f \in Future, NEW g \in Future, MoveFuture(f, g) PROVE FuturesInv'
  BY <1>13, MoveFutureKeeps
<1> QED BY <1>1, <1>2, <1>3, <1>4, <1>5, <1>6, <1>7, <1>8, <1>9, <1>10, <1>11, <1>12, <1>13
        DEF FuturesNext

\* The invariant holds after any sequence of operations on any number of promises
\* and futures (every member function of promise_base and shared_state_base).
THEOREM FuturesInvariance == FuturesSpec => []FuturesInv
BY InvInit, StepKeeps, PTL DEF FuturesSpec

\* The shared state holds a promise, or what set_value() and get() leave there, and
\* an exception only when there is an outcome.
THEOREM FuturesTypes == FuturesSpec => []FuturesTypeOK
BY FuturesInvariance, PTL DEF FuturesInv

\* No list that a valid promise or a pending future starts has a place in it whose
\* object was moved or destroyed (update(), append(), remove()).
THEOREM NothingDangles == FuturesSpec => []NoDangling
<1>1. FuturesInv => NoDangling
  BY InvMeans
<1> QED BY <1>1, FuturesInvariance, PTL

\* Nobody waits for a promise that does not exist (~promise_base()), and both lists
\* agree on who belongs together.
THEOREM FuturesKept == FuturesSpec => [](Kept /\ Mutual)
<1>1. FuturesInv => Kept /\ Mutual
  BY InvMeans
<1> QED BY <1>1, FuturesInvariance, PTL

-----------------------------------------------------------------------------
(* Refinement.                                                             *)

\* What the pointers mean to module Promises.
Mapping ==
  /\ makes \in [Promise -> SUBSET Future]
  /\ is = [f \in Future |-> is[f]]
  /\ \A a \in Promise :
       makes[a] = IF st[a] = Null THEN {} ELSE {g \in Future : p[g] = p[st[a]]}
  /\ \A f \in Future : /\ p[f] = Null => is[f] = "invalid"
                       /\ p[f] \in Promise => is[f] = "pending"
                       /\ p[f] = "RETRIEVED" => is[f] = "retrieved"
                       /\ p[f] = "READY" => is[f] = IF eptr[f] = "none" THEN "value" ELSE eptr[f]

\* It is what the definitions of makes and is say under the invariant.
LEMMA Mapped == FuturesInv => Mapping
<1> SUFFICES ASSUME FuturesInv PROVE Mapping
  OBVIOUS
<1>1. \A a \in Promise :
        makes[a] = IF st[a] = Null THEN {} ELSE {g \in Future : p[g] = p[st[a]]}
  BY Found, FoundAlone DEF makes
<1>2. makes \in [Promise -> SUBSET Future]
  BY <1>1 DEF makes
<1>3. is = [f \in Future |-> is[f]]
  BY DEF is
<1>4. ASSUME NEW f \in Future
      PROVE  /\ p[f] = Null => is[f] = "invalid"
             /\ p[f] \in Promise => is[f] = "pending"
             /\ p[f] = "RETRIEVED" => is[f] = "retrieved"
             /\ p[f] = "READY" => is[f] = IF eptr[f] = "none" THEN "value" ELSE eptr[f]
  <2>1. /\ Null \notin Promise /\ Null # "READY" /\ Null # "RETRIEVED"
        /\ "READY" \notin Promise /\ "RETRIEVED" \notin Promise
    BY FuturesAssumption DEF FutureState
  <2>2. f \notin alive => p[f] = Null
    BY DEF FuturesInv, Cleared
  <2> QED BY <2>1, <2>2 DEF is, Pending
<1> QED BY <1>1, <1>2, <1>3, <1>4 DEF Mapping

\* After a step as well.
LEMMA MappedNext == FuturesInv' => Mapping'
BY Mapped, PTL

\* Promises are copies of each other, for module Promises, when they are in one group.
LEMMA CopiesAre ==
  ASSUME FuturesInv, NEW a \in Promise
  PROVE  /\ makes[a] # {} <=> st[a] # Null
         /\ st[a] # Null => Abstract!Copies(a) = {c \in Promise : st[c] = st[a]}
         /\ st[a] = Null => Abstract!Copies(a) = {}
<1>1. \A c \in Promise : makes[c] = IF st[c] = Null THEN {} ELSE {g \in Future : p[g] = p[st[c]]}
  BY Mapped DEF Mapping
<1>2. \A c \in Promise : st[c] # Null => st[c] \in Future /\ st[p[st[c]]] = st[c]
  BY Found
<1>3. \A c \in Promise : makes[c] # {} <=> st[c] # Null
  BY <1>1, <1>2
<1>4. ASSUME st[a] # Null, NEW c \in Promise PROVE makes[c] \cap makes[a] # {} <=> st[c] = st[a]
  <2>1. ASSUME makes[c] \cap makes[a] # {} PROVE st[c] = st[a]
    BY <1>1, <1>2, <1>4, <2>1
  <2>2. ASSUME st[c] = st[a] PROVE makes[c] \cap makes[a] # {}
    <3>1. makes[c] = makes[a]
      BY <1>1, <2>2
    <3> QED BY <1>3, <1>4, <3>1
  <2> QED BY <2>1, <2>2
<1> QED BY <1>1, <1>3, <1>4 DEF Abstract!Copies

\* A future that keeps its state, here or in another place.
LEMMA SameBeing ==
  ASSUME FuturesInv, FuturesInv', NEW f \in Future, NEW k \in Future,
         p'[k] = p[f] \/ (p'[k] \in Promise /\ p[f] \in Promise), eptr'[k] = eptr[f]
  PROVE  is'[k] = is[f]
<1>1. Mapping /\ Mapping'
  BY Mapped, MappedNext
<1>2. p[f] \in Promise \cup {Null} \cup {"READY", "RETRIEVED"}
  BY DEF FuturesInv, FuturesTypeOK, FutureState
<1>3. CASE p[f] \in Promise
  BY <1>1, <1>3 DEF Mapping
<1>4. CASE p[f] \notin Promise
  <2>1. p'[k] = p[f]
    BY <1>4
  <2> QED BY <1>1, <1>2, <1>4, <2>1 DEF Mapping
<1> QED BY <1>3, <1>4

\* What changes only who is alive, or links outside the groups, changes no promise.
LEMMA SameMapping ==
  ASSUME FuturesInv, FuturesInv', st' = st, p' = p, eptr' = eptr
  PROVE  makes' = makes /\ is' = is
<1>1. Mapping /\ Mapping'
  BY Mapped, MappedNext
<1>2. \A f \in Future : is'[f] = is[f]
  BY SameBeing
<1>3. is' = is
  BY <1>1, <1>2 DEF Mapping
<1>4. \A a \in Promise : makes'[a] = makes[a]
  BY <1>1 DEF Mapping
<1> QED BY <1>1, <1>3, <1>4 DEF Mapping

\* A promise with the futures of another, or still with its own.
LEMMA SameMakes ==
  ASSUME FuturesInv, FuturesInv', NEW a \in Promise, NEW c \in Promise, st'[c] = st[a],
         st[a] # Null => \A g \in Future : p'[g] = p'[st[a]] <=> p[g] = p[st[a]]
  PROVE  makes'[c] = makes[a]
<1>1. Mapping /\ Mapping'
  BY Mapped, MappedNext
<1>2. /\ makes[a] = IF st[a] = Null THEN {} ELSE {g \in Future : p[g] = p[st[a]]}
      /\ makes'[c] = IF st'[c] = Null THEN {} ELSE {g \in Future : p'[g] = p'[st'[c]]}
  BY <1>1 DEF Mapping
<1> QED BY <1>2

\* What is not told of a state stays what it is.
LEMMA SameIs ==
  ASSUME FuturesInv, FuturesInv', eptr' = eptr,
         \A g \in Future : p'[g] = p[g] \/ (p'[g] \in Promise /\ p[g] \in Promise)
  PROVE  is' = is
<1>1. Mapping /\ Mapping'
  BY Mapped, MappedNext
<1>2. \A g \in Future : is'[g] = is[g]
  BY SameBeing
<1> QED BY <1>1, <1>2 DEF Mapping

\* The copy makes the same promise.
LEMMA MapCopyPromise ==
  ASSUME FuturesInv, FuturesInv', NEW a \in Promise, NEW b \in Promise, CopyPromise(a, b)
  PROVE  Abstract!CopyPromise(a, b)
<1>1. /\ st[a] # Null /\ b \notin alive /\ st' = [st EXCEPT ![b] = st[a]]
      /\ p' = p /\ eptr' = eptr
  BY DEF CopyPromise, Empty
<1>2. st[b] = Null
  BY <1>1 DEF FuturesInv, Cleared
<1>3. \A c \in Promise : st'[c] = IF c = b THEN st[a] ELSE st[c]
  BY <1>1 DEF FuturesInv, FuturesTypeOK
<1>4. makes'[b] = makes[a]
  BY <1>1, <1>3, SameMakes
<1>5. \A c \in Promise \ {b} : makes'[c] = makes[c]
  BY <1>1, <1>3, SameMakes
<1>6. is' = is
  BY <1>1, SameIs
<1>7. makes[a] # {} /\ makes[b] = {}
  BY <1>1, <1>2, CopiesAre
<1>8. makes' = [makes EXCEPT ![b] = makes[a]]
  <2>1. makes \in [Promise -> SUBSET Future] /\ makes' \in [Promise -> SUBSET Future]
    BY Mapped, MappedNext DEF Mapping
  <2> QED BY <1>4, <1>5, <2>1
<1> QED BY <1>6, <1>7, <1>8 DEF Abstract!CopyPromise

\* Only heads are pointed to.
LEMMA HeadsOnly ==
  ASSUME FuturesInv, NEW a \in Promise, st[a] # Null, NEW g \in Future
  PROVE  /\ p[st[a]] # a => p[g] # a
         /\ \A c \in Promise : st[c] = st[a] /\ p[g] = c => c = p[st[a]]
BY Found DEF Pending

\* The promise moves; one without futures leaves no trace.
LEMMA MapMovePromise ==
  ASSUME FuturesInv, FuturesInv', NEW a \in Promise, NEW b \in Promise, MovePromise(a, b)
  PROVE  Abstract!MovePromise(a, b) \/ (makes' = makes /\ is' = is)
<1>1. /\ a # b /\ st[b] = Null
      /\ \A c \in Promise : st'[c] = IF c = a THEN Null ELSE IF c = b THEN st[a] ELSE st[c]
      /\ st[a] = Null => p' = p
      /\ st[a] # Null => \A g \in Future : p'[g] = IF p[g] = a THEN b ELSE p[g]
  BY MovePromiseMeans
<1>2. eptr' = eptr
  BY DEF MovePromise
<1>3. CASE st[a] = Null
  <2>1. st' = st
    BY <1>1, <1>3 DEF FuturesInv, FuturesTypeOK
  <2> QED BY <1>1, <1>2, <1>3, <2>1, SameMapping
<1>4. CASE st[a] # Null
  <2>1. \A g \in Future : p[g] # b
    BY <1>1, Found DEF Pending
  <2>2. \A g, k \in Future : p'[g] = p'[k] <=> p[g] = p[k]
    BY <1>1, <1>4, <2>1
  <2>3. \A c \in Promise : st[c] # Null => st[c] \in Future
    BY Found
  <2>4. makes'[b] = makes[a]
    BY <1>1, <1>4, <2>2, <2>3, SameMakes
  <2>5. \A c \in Promise \ {a, b} : makes'[c] = makes[c]
    <3>1. ASSUME NEW c \in Promise \ {a, b} PROVE makes'[c] = makes[c]
      <4>1. st'[c] = st[c]
        BY <1>1
      <4>2. st[c] # Null => \A g \in Future : p'[g] = p'[st[c]] <=> p[g] = p[st[c]]
        BY <2>2, <2>3
      <4> QED BY <4>1, <4>2, SameMakes
    <3> QED BY <3>1
  <2>6. makes'[a] = {}
    BY <1>1, MappedNext DEF Mapping
  <2>7. is' = is
    <3>1. \A g \in Future : p'[g] = p[g] \/ (p'[g] \in Promise /\ p[g] \in Promise)
      BY <1>1, <1>4
    <3> QED BY <1>2, <3>1, SameIs
  <2>8. makes[a] # {} /\ makes[b] = {}
    BY <1>1, <1>4, CopiesAre
  <2>9. makes' = [makes EXCEPT ![b] = makes[a], ![a] = {}]
    <3>1. makes \in [Promise -> SUBSET Future] /\ makes' \in [Promise -> SUBSET Future]
      BY Mapped, MappedNext DEF Mapping
    <3> QED BY <1>1, <2>4, <2>5, <2>6, <3>1
  <2> QED BY <2>7, <2>8, <2>9 DEF Abstract!MovePromise
<1> QED BY <1>3, <1>4

\* The futures of the promise, and no others, get the outcome.
LEMMA MapReady ==
  ASSUME FuturesInv, FuturesInv', NEW a \in Promise, st[a] # Null,
         NEW r \in {"none", "error", "broken"}, Ready(a, r)
  PROVE  Abstract!Resolve(a, IF r = "none" THEN "value" ELSE r)
<1> DEFINE o == IF r = "none" THEN "value" ELSE r
<1>1. /\ \A c \in Promise : st'[c] = IF st[c] = st[a] THEN Null ELSE st[c]
      /\ \A g \in Future : p'[g] = IF p[g] = p[st[a]] THEN "READY" ELSE p[g]
      /\ \A g \in Future : eptr'[g] = IF p[g] = p[st[a]] THEN r ELSE eptr[g]
  BY ReadyMeans
<1>2. Mapping /\ Mapping'
  BY Mapped, MappedNext
<1>3. makes[a] = {g \in Future : p[g] = p[st[a]]}
  BY <1>2 DEF Mapping
<1>4. ASSUME NEW f \in Future PROVE is'[f] = IF f \in makes[a] THEN o ELSE is[f]
  <2>1. CASE f \in makes[a]
    <3>1. p'[f] = "READY" /\ eptr'[f] = r
      BY <1>1, <1>3, <2>1
    <3> QED BY <1>2, <2>1, <3>1 DEF Mapping
  <2>2. CASE f \notin makes[a]
    BY <1>1, <1>3, <2>2, SameBeing
  <2> QED BY <2>1, <2>2
<1>5. ASSUME NEW c \in Promise
      PROVE  makes'[c] = IF c \in Abstract!Copies(a) THEN {} ELSE makes[c]
  <2>0. Abstract!Copies(a) = {b \in Promise : st[b] = st[a]}
    BY CopiesAre
  <2>1. CASE st[c] = st[a]
    <3>1. st'[c] = Null
      BY <1>1, <2>1
    <3> QED BY <1>2, <2>0, <2>1, <3>1 DEF Mapping
  <2>2. CASE st[c] # st[a]
    <3>1. st'[c] = st[c]
      BY <1>1, <2>2
    <3>2. ASSUME st[c] # Null, NEW g \in Future PROVE p'[g] = p'[st[c]] <=> p[g] = p[st[c]]
      <4>1. st[c] \in Future /\ p[st[c]] \in Promise /\ st[p[st[c]]] = st[c] /\ st[p[st[a]]] = st[a]
        BY <3>2, Found
      <4>2. p[st[c]] # p[st[a]] /\ p'[st[c]] = p[st[c]]
        BY <1>1, <2>2, <4>1
      <4>3. "READY" \notin Promise
        BY FuturesAssumption DEF FutureState
      <4> QED BY <1>1, <4>1, <4>2, <4>3
    <3> QED BY <2>0, <2>2, <3>1, <3>2, SameMakes
  <2> QED BY <2>1, <2>2
<1>6. makes[a] # {}
  BY CopiesAre
<1>7. is' = [f \in Future |-> IF f \in makes[a] THEN o ELSE is[f]]
  BY <1>2, <1>4 DEF Mapping
<1>8. makes' = [c \in Promise |-> IF c \in Abstract!Copies(a) THEN {} ELSE makes[c]]
  BY <1>2, <1>5 DEF Mapping
<1> QED BY <1>6, <1>7, <1>8 DEF Abstract!Resolve

\* It was the only one to make its promise: its futures are told.
LEMMA MapBreakPromise ==
  ASSUME FuturesInv, FuturesInv', NEW a \in Promise, BreakPromise(a)
  PROVE  Abstract!DropPromise(a)
<1>1. st[a] # Null /\ Cardinality(Promises(st[a])) = 1 /\ Ready(a, "broken")
  BY DEF BreakPromise
<1>2. Abstract!Resolve(a, "broken")
  BY <1>1, MapReady
<1>3. Promises(st[a]) = {c \in Promise : st[c] = st[a]}
  BY <1>1, Found
<1>4. PICK x : Promises(st[a]) = {x}
  <2>1. IsFiniteSet(Promises(st[a]))
    BY <1>3, FuturesAssumption, FS_Subset
  <2> QED BY <1>1, <2>1, FS_Singleton
<1>5. Abstract!Copies(a) = {a}
  BY <1>1, <1>3, <1>4, CopiesAre
<1> QED BY <1>2, <1>5 DEF Abstract!DropPromise

\* There are copies, and their futures do not notice.
LEMMA MapRemovePromise ==
  ASSUME FuturesInv, FuturesInv', NEW a \in Promise, RemovePromise(a)
  PROVE  Abstract!DropPromise(a)
<1>1. /\ st[a] # Null
      /\ a = p[st[a]] => pnext[a] # Null
      /\ \A c \in Promise : st'[c] = IF c = a THEN Null ELSE st[c]
      /\ \A g \in Future : p'[g] = IF p[g] = a THEN pnext[a] ELSE p[g]
  BY RemovePromiseMeans
<1>2. /\ pnext \in Links(Promise) /\ Null \notin Promise
  BY LinksType DEF FuturesInv
<1>3. Abstract!Copies(a) = {c \in Promise : st[c] = st[a]}
  BY <1>1, CopiesAre
<1>4. Abstract!Copies(a) # {a}
  <2>1. Cardinality(Promises(st[a])) > 1 /\ Promises(st[a]) = {c \in Promise : st[c] = st[a]}
    BY <1>1, Found DEF RemovePromise
  <2>2. Cardinality({a}) = 1
    BY FS_Singleton
  <2> QED BY <1>3, <2>1, <2>2
<1>5. \A c \in Promise : st[c] # Null => st[c] \in Future
  BY Found
<1>6. /\ \A g \in Future : p'[g] = p[g] \/ (p'[g] \in Promise /\ p[g] \in Promise)
      /\ \A g, k \in Future : p'[g] = p'[k] <=> p[g] = p[k]
  <2>1. CASE p[st[a]] # a
    <3>1. \A g \in Future : p[g] # a
      BY <1>1, <2>1, HeadsOnly
    <3> QED BY <1>1, <3>1
  <2>2. CASE p[st[a]] = a
    <3>1. pnext[a] \in Promise /\ pnext[a] # a /\ st[pnext[a]] = st[a]
      <4>1. /\ a \in Chain(pnext, a) /\ Ends(pnext, a)
            /\ Chain(pnext, a) = {b \in Promise : st[b] = st[a]}
        BY <1>1, <2>2, GroupOf
      <4>2. pnext[a] \in Chain(pnext, a)
        BY <1>1, <1>2, <2>2, <4>1, ChainClosed
      <4>3. pnext[a] # a
        BY <1>2, <4>1, HeadUnlinked
      <4> QED BY <4>1, <4>2, <4>3
    <3>2. \A g \in Future : p[g] # pnext[a]
      BY <1>1, <2>2, <3>1, HeadsOnly
    <3> QED BY <1>1, <3>1, <3>2
  <2> QED BY <2>1, <2>2
<1>7. is' = is
  <2>1. eptr' = eptr
    BY DEF RemovePromise
  <2> QED BY <1>6, <2>1, SameIs
<1>8. makes'[a] = {}
  BY <1>1, MappedNext DEF Mapping
<1>9. ASSUME NEW c \in Promise, c # a PROVE makes'[c] = makes[c]
  BY <1>1, <1>5, <1>6, <1>9, SameMakes
<1>10. makes' = [makes EXCEPT ![a] = {}]
  <2>1. makes \in [Promise -> SUBSET Future] /\ makes' \in [Promise -> SUBSET Future]
    BY Mapped, MappedNext DEF Mapping
  <2> QED BY <1>8, <1>9, <2>1
<1> QED BY <1>4, <1>7, <1>10 DEF Abstract!DropPromise

\* The futures of every promise that resolves x get y as well.
LEMMA MapAppend ==
  ASSUME FuturesInv, FuturesInv', NEW H \in Promise, NEW g \in Future, st[H] # Null,
         p[st[H]] = H, p[g] = Null, st' = st,
         \A k \in Future : p'[k] = IF k = g THEN H ELSE p[k],
         \A k \in Future : eptr'[k] = IF k = g THEN "none" ELSE eptr[k]
  PROVE  /\ is[g] = "invalid" /\ is' = [is EXCEPT ![g] = "pending"]
         /\ \A c \in Promise : makes'[c] = IF st[c] = st[H] THEN makes[c] \cup {g} ELSE makes[c]
<1>1. Mapping /\ Mapping'
  BY Mapped, MappedNext
<1>2. Null \notin Promise
  BY FuturesAssumption
<1>3. is[g] = "invalid" /\ is'[g] = "pending"
  BY <1>1 DEF Mapping
<1>4. \A k \in Future \ {g} : is'[k] = is[k]
  BY SameBeing
<1>5. is' = [is EXCEPT ![g] = "pending"]
  BY <1>1, <1>3, <1>4 DEF Mapping
<1>6. ASSUME NEW c \in Promise
      PROVE  makes'[c] = IF st[c] = st[H] THEN makes[c] \cup {g} ELSE makes[c]
  <2>1. CASE st[c] = Null
    BY <1>1, <2>1 DEF Mapping
  <2>2. CASE st[c] # Null
    <3>1. /\ st[c] \in Future /\ p[st[c]] \in Promise /\ st[p[st[c]]] = st[c]
          /\ makes[c] = {k \in Future : p[k] = p[st[c]]}
          /\ makes'[c] = {k \in Future : p'[k] = p'[st[c]]}
      BY <1>1, <2>2, Found DEF Mapping
    <3>2. st[c] # g /\ p'[st[c]] = p[st[c]] /\ (p[st[c]] = H <=> st[c] = st[H])
      BY <1>2, <3>1
    <3> QED BY <1>2, <3>1, <3>2
  <2> QED BY <2>1, <2>2
<1> QED BY <1>3, <1>5, <1>6

\* All copies of the promise resolve the new future.
LEMMA MapNewFuture ==
  ASSUME FuturesInv, FuturesInv', NEW f \in Future, NEW a \in Promise, NewFuture(f, a)
  PROVE  Abstract!Attach(f, a)
<1>1. Mapping /\ Mapping'
  BY Mapped, MappedNext
<1>2. p[f] = Null /\ p' = [p EXCEPT ![f] = HeadPromise(a)] /\ eptr' = [eptr EXCEPT ![f] = "none"]
  BY DEF NewFuture, Empty, FuturesInv, Cleared
<1>3. /\ \A k \in Future : p'[k] = IF k = f THEN HeadPromise(a) ELSE p[k]
      /\ \A k \in Future : eptr'[k] = IF k = f THEN "none" ELSE eptr[k]
  BY <1>2 DEF FuturesInv, FuturesTypeOK
<1>4. CASE st[a] # Null
  <2>1. st' = st /\ HeadPromise(a) = p[st[a]] /\ p[st[a]] \in Promise /\ st[p[st[a]]] = st[a]
    BY <1>4, Found DEF NewFuture
  <2> DEFINE H == p[st[a]]
  <2>2. /\ H \in Promise /\ st[H] = st[a] /\ p[st[H]] = H
        /\ \A k \in Future : p'[k] = IF k = f THEN H ELSE p[k]
    BY <1>3, <2>1
  <2> HIDE DEF H
  <2>3. /\ is[f] = "invalid" /\ is' = [is EXCEPT ![f] = "pending"]
        /\ \A c \in Promise : makes'[c] = IF st[c] = st[H] THEN makes[c] \cup {f} ELSE makes[c]
    BY <1>2, <1>3, <1>4, <2>1, <2>2, MapAppend
  <2>4. Abstract!Copies(a) = {c \in Promise : st[c] = st[a]}
    BY <1>4, CopiesAre
  <2>5. makes' = [c \in Promise |-> IF c \in Abstract!Copies(a) \cup {a}
                                    THEN makes[c] \cup {f} ELSE makes[c]]
    BY <1>1, <2>2, <2>3, <2>4 DEF Mapping
  <2> QED BY <2>3, <2>5 DEF Abstract!Attach
<1>5. CASE st[a] = Null
  <2>1. /\ HeadPromise(a) = a /\ st' = [st EXCEPT ![a] = f]
    BY <1>5, FoundAlone DEF NewFuture
  <2>2. \A c \in Promise : st'[c] = IF c = a THEN f ELSE st[c]
    BY <2>1 DEF FuturesInv, FuturesTypeOK
  <2>3. Null \notin Promise /\ Null \notin Future
    BY FuturesAssumption
  <2>4. \A k \in Future : p[k] # a
    BY <1>5, Found DEF Pending
  <2>5. is[f] = "invalid" /\ is' = [is EXCEPT ![f] = "pending"]
    <3>1. is[f] = "invalid" /\ is'[f] = "pending"
      BY <1>1, <1>2, <1>3, <2>1 DEF Mapping
    <3>2. \A k \in Future \ {f} : is'[k] = is[k]
      BY <1>3, SameBeing
    <3> QED BY <1>1, <3>1, <3>2 DEF Mapping
  <2>6. ASSUME NEW c \in Promise
        PROVE  makes'[c] = IF c = a THEN makes[c] \cup {f} ELSE makes[c]
    <3>1. CASE c = a
      <4>1. makes[a] = {} /\ makes'[a] = {k \in Future : p'[k] = p'[f]}
        BY <1>1, <1>5, <2>2, <2>3 DEF Mapping
      <4> QED BY <1>3, <2>1, <2>4, <3>1, <4>1
    <3>2. CASE c # a
      <4>1. st'[c] = st[c]
        BY <2>2, <3>2
      <4>2. ASSUME st[c] # Null, NEW k \in Future PROVE p'[k] = p'[st[c]] <=> p[k] = p[st[c]]
        <5>1. st[c] \in Future /\ p[st[c]] \in Promise
          BY <4>2, Found
        <5> QED BY <1>2, <1>3, <2>1, <2>3, <2>4, <5>1
      <4> QED BY <3>2, <4>1, <4>2, SameMakes
    <3> QED BY <3>1, <3>2
  <2>7. Abstract!Copies(a) = {}
    BY <1>5, CopiesAre
  <2>8. makes' = [c \in Promise |-> IF c \in Abstract!Copies(a) \cup {a}
                                    THEN makes[c] \cup {f} ELSE makes[c]]
    BY <1>1, <2>6, <2>7 DEF Mapping
  <2> QED BY <2>5, <2>8 DEF Abstract!Attach
<1> QED BY <1>4, <1>5

\* All promises that resolve one resolve the other.
LEMMA MapCopyFuture ==
  ASSUME FuturesInv, FuturesInv', NEW f \in Future, NEW g \in Future, CopyFuture(f, g)
  PROVE  Abstract!CopyFuture(f, g)
<1>1. Mapping /\ Mapping'
  BY Mapped, MappedNext
<1>2. /\ Pending(f) /\ p[g] = Null /\ st' = st
      /\ p' = [p EXCEPT ![g] = p[f]] /\ eptr' = [eptr EXCEPT ![g] = "none"]
  BY DEF CopyFuture, Empty, FuturesInv, Cleared
<1> DEFINE H == p[f]
<1>3. /\ H \in Promise /\ st[H] # Null /\ p[st[H]] = H /\ H = p[f]
      /\ \A k \in Future : p'[k] = IF k = g THEN H ELSE p[k]
      /\ \A k \in Future : eptr'[k] = IF k = g THEN "none" ELSE eptr[k]
  BY <1>2, Found DEF FuturesInv, FuturesTypeOK
<1> HIDE DEF H
<1>4. /\ is[g] = "invalid" /\ is' = [is EXCEPT ![g] = "pending"]
      /\ \A c \in Promise : makes'[c] = IF st[c] = st[H] THEN makes[c] \cup {g} ELSE makes[c]
  BY <1>2, <1>3, MapAppend
<1>5. \A c \in Promise : f \in makes[c] <=> st[c] = st[H]
  <2>1. \A c \in Promise : st[c] # Null => st[p[st[c]]] = st[c]
    BY Found
  <2> QED BY <1>1, <1>3, <2>1 DEF Mapping
<1>6. is[f] = "pending"
  BY <1>1, <1>3 DEF Mapping
<1>7. makes' = [c \in Promise |-> IF f \in makes[c] THEN makes[c] \cup {g} ELSE makes[c]]
  BY <1>1, <1>4, <1>5 DEF Mapping
<1> QED BY <1>4, <1>6, <1>7 DEF Abstract!CopyFuture

\* All promises that resolve one resolve the other instead.
LEMMA MapMoveFuture ==
  ASSUME FuturesInv, FuturesInv', NEW f \in Future, NEW g \in Future, MoveFuture(f, g)
  PROVE  Abstract!MoveFuture(f, g)
<1>1. Mapping /\ Mapping'
  BY Mapped, MappedNext
<1>2. /\ f # g /\ p[g] = Null
      /\ \A k \in Future : p'[k] = IF k = f THEN Null ELSE IF k = g THEN p[f] ELSE p[k]
      /\ \A k \in Future : eptr'[k] =
              IF k = f THEN "none" ELSE IF k = g THEN eptr[f] ELSE eptr[k]
      /\ \A c \in Promise : st'[c] = IF st[c] = f THEN g ELSE st[c]
  BY MoveFutureMeans
<1>3. Null \notin Promise /\ Null \notin Future
  BY FuturesAssumption
<1>4. is[g] = "invalid" /\ is'[f] = "invalid" /\ is'[g] = is[f]
  <2>1. is[g] = "invalid" /\ is'[f] = "invalid"
    BY <1>1, <1>2 DEF Mapping
  <2>2. p'[g] = p[f] /\ eptr'[g] = eptr[f]
    BY <1>2
  <2> QED BY <2>1, <2>2, SameBeing
<1>5. \A k \in Future \ {f, g} : is'[k] = is[k]
  BY <1>2, SameBeing
<1>6. is' = [is EXCEPT ![g] = is[f], ![f] = "invalid"]
  BY <1>1, <1>2, <1>4, <1>5 DEF Mapping
<1>7. ASSUME NEW c \in Promise
      PROVE  makes'[c] = IF f \in makes[c] THEN (makes[c] \ {f}) \cup {g} ELSE makes[c]
  <2>1. CASE st[c] = Null
    BY <1>1, <1>2, <1>3, <2>1 DEF Mapping
  <2>2. CASE st[c] # Null
    <3>1. st[c] \in Future /\ p[st[c]] \in Promise /\ makes[c] = {k \in Future : p[k] = p[st[c]]}
      BY <1>1, <2>2, Found DEF Mapping
    <3>2. st'[c] \in Future /\ p'[st'[c]] = p[st[c]]
      BY <1>2, <1>3, <3>1
    <3>3. makes'[c] = {k \in Future : p'[k] = p[st[c]]}
      BY <1>1, <1>3, <3>2 DEF Mapping
    <3> QED BY <1>2, <1>3, <3>1, <3>3
  <2> QED BY <2>1, <2>2
<1>8. makes' = [c \in Promise |-> IF f \in makes[c] THEN (makes[c] \ {f}) \cup {g} ELSE makes[c]]
  BY <1>1, <1>7 DEF Mapping
<1> QED BY <1>4, <1>6, <1>8 DEF Abstract!MoveFuture

\* No promise resolves it any more, and the others still resolve the same.
LEMMA MapDestroyFuture ==
  ASSUME FuturesInv, FuturesInv', NEW f \in Future, DestroyFuture(f)
  PROVE  Abstract!DropFuture(f)
<1>1. Mapping /\ Mapping'
  BY Mapped, MappedNext
<1>2. /\ \A k \in Future : p'[k] = IF k = f THEN Null ELSE p[k]
      /\ \A k \in Future : eptr'[k] = IF k = f THEN "none" ELSE eptr[k]
      /\ \A c \in Promise : st'[c] = IF st[c] = f THEN fnext[f] ELSE st[c]
  BY DestroyFutureMeans
<1>3. Null \notin Promise /\ Null \notin Future /\ fnext \in Links(Future)
  BY LinksType DEF FuturesInv
<1>4. is' = [is EXCEPT ![f] = "invalid"]
  <2>1. is'[f] = "invalid"
    BY <1>1, <1>2 DEF Mapping
  <2>2. \A k \in Future \ {f} : is'[k] = is[k]
    BY <1>2, SameBeing
  <2> QED BY <1>1, <2>1, <2>2 DEF Mapping
<1>5. ASSUME NEW c \in Promise PROVE makes'[c] = makes[c] \ {f}
  <2>1. CASE st[c] = Null
    BY <1>1, <1>2, <1>3, <2>1 DEF Mapping
  <2>2. CASE st[c] # Null
    <3>1. /\ st[c] \in Future /\ p[st[c]] \in Promise /\ Pending(st[c])
          /\ makes[c] = {k \in Future : p[k] = p[st[c]]}
      BY <1>1, <2>2, Found DEF Mapping
    <3>2. CASE st[c] = f /\ fnext[f] = Null
      <4>1. Chain(fnext, f) = {f} /\ Chain(fnext, f) = {k \in Future : p[k] = p[f]}
        BY <1>3, <2>2, <3>2, GroupOf, ChainStep
      <4>2. makes[c] = {f}
        BY <3>1, <3>2, <4>1
      <4>3. makes'[c] = {}
        BY <1>1, <1>2, <3>2 DEF Mapping
      <4> QED BY <4>2, <4>3
    <3>3. CASE ~(st[c] = f /\ fnext[f] = Null)
      <4>1. st'[c] \in Future /\ st'[c] # f /\ p[st'[c]] = p[st[c]]
        <5>1. CASE st[c] # f
          BY <1>2, <3>1, <5>1
        <5>2. CASE st[c] = f
          <6>1. fnext[f] \in Future /\ p[fnext[f]] = p[f]
            BY <3>1, <3>3, <5>2, PendingLinks
          <6>2. fnext[f] # f
            <7>1. Ends(fnext, f) /\ f \in Chain(fnext, f)
              BY <2>2, <5>2, GroupOf
            <7> QED BY <1>3, <7>1, HeadUnlinked
          <6> QED BY <1>2, <5>2, <6>1, <6>2
        <5> QED BY <5>1, <5>2
      <4>2. makes'[c] = {k \in Future : p'[k] = p[st[c]]}
        BY <1>1, <1>2, <1>3, <4>1 DEF Mapping
      <4> QED BY <1>2, <1>3, <3>1, <4>2
    <3> QED BY <3>2, <3>3
  <2> QED BY <2>1, <2>2
<1>6. makes' = [c \in Promise |-> makes[c] \ {f}]
  BY <1>1, <1>5 DEF Mapping
<1> QED BY <1>4, <1>6 DEF Abstract!DropFuture

\* The outcome is there to be taken.
LEMMA MapRetrieve ==
  ASSUME FuturesInv, FuturesInv', NEW f \in Future, Retrieve(f)
  PROVE  Abstract!Retrieve(f)
<1>1. Mapping /\ Mapping'
  BY Mapped, MappedNext
<1>2. /\ p[f] = "READY" /\ p' = [p EXCEPT ![f] = "RETRIEVED"]
      /\ st' = st /\ eptr' = eptr
  BY DEF Retrieve
<1>3. \A k \in Future : p'[k] = IF k = f THEN "RETRIEVED" ELSE p[k]
  BY <1>2 DEF FuturesInv, FuturesTypeOK
<1>4. "READY" \notin Promise /\ "RETRIEVED" \notin Promise
  BY FuturesAssumption DEF FutureState
<1>5. is[f] \in Abstract!Outcome
  <2>1. eptr[f] \in {"none", "error", "broken"}
    BY DEF FuturesInv, FuturesTypeOK
  <2> QED BY <1>1, <1>2, <2>1 DEF Mapping, Abstract!Outcome
<1>6. is' = [is EXCEPT ![f] = "retrieved"]
  <2>1. is'[f] = "retrieved"
    BY <1>1, <1>3 DEF Mapping
  <2>2. \A k \in Future \ {f} : is'[k] = is[k]
    BY <1>2, <1>3, SameBeing
  <2> QED BY <1>1, <2>1, <2>2 DEF Mapping
<1>7. ASSUME NEW c \in Promise PROVE makes'[c] = makes[c]
  <2>1. ASSUME st[c] # Null, NEW k \in Future PROVE p'[k] = p'[st[c]] <=> p[k] = p[st[c]]
    <3>1. st[c] \in Future /\ p[st[c]] \in Promise
      BY <2>1, Found
    <3> QED BY <1>2, <1>3, <1>4, <3>1
  <2> QED BY <1>2, <2>1, SameMakes
<1>8. makes' = makes
  BY <1>1, <1>7 DEF Mapping
<1> QED BY <1>5, <1>6, <1>8 DEF Abstract!Retrieve

\* No promise is made at first.
LEMMA MapInit == FuturesInit => Abstract!Init
<1> SUFFICES ASSUME FuturesInit PROVE Abstract!Init
  OBVIOUS
<1>1. Mapping
  BY InvInit, Mapped
<1>2. (\A a \in Promise : makes[a] = {}) /\ \A f \in Future : is[f] = "invalid"
  BY <1>1 DEF Mapping, FuturesInit
<1>3. makes = [a \in Promise |-> {}] /\ is = [f \in Future |-> "invalid"]
  BY <1>1, <1>2 DEF Mapping
<1> QED BY <1>3 DEF Abstract!Init

\* Every step on the pointers is one of module Promises, or none.
LEMMA MapStep ==
  FuturesInv /\ FuturesInv' /\ [FuturesNext]_futuresVars => [Abstract!Next]_(Abstract!vars)
<1> SUFFICES ASSUME FuturesInv, FuturesInv', [FuturesNext]_futuresVars
             PROVE  Abstract!Next \/ (makes' = makes /\ is' = is)
  BY DEF Abstract!vars
<1>1. CASE UNCHANGED futuresVars
  BY <1>1, SameMapping DEF futuresVars
<1>2. ASSUME NEW a \in Promise, NewPromise(a) \/ DestroyPromise(a)
      PROVE  makes' = makes /\ is' = is
  BY <1>2, SameMapping DEF NewPromise, DestroyPromise
<1>3. ASSUME NEW a \in Promise, BreakPromise(a) \/ RemovePromise(a) PROVE Abstract!Next
  BY <1>3, MapBreakPromise, MapRemovePromise DEF Abstract!Next
<1>4. ASSUME NEW a \in Promise, NEW r \in {"none", "error"}, Set(a, r) PROVE Abstract!Next
  <2>1. Abstract!Resolve(a, IF r = "none" THEN "value" ELSE r)
    BY <1>4, MapReady DEF Set
  <2>2. (IF r = "none" THEN "value" ELSE r) \in Abstract!Outcome \ {"broken"}
    BY DEF Abstract!Outcome
  <2> QED BY <2>1, <2>2 DEF Abstract!Next
<1>5. ASSUME NEW a \in Promise, NEW b \in Promise, CopyPromise(a, b) PROVE Abstract!Next
  BY <1>5, MapCopyPromise DEF Abstract!Next
<1>6. ASSUME NEW a \in Promise, NEW b \in Promise, MovePromise(a, b)
      PROVE  Abstract!Next \/ (makes' = makes /\ is' = is)
  BY <1>6, MapMovePromise DEF Abstract!Next
<1>7. ASSUME NEW f \in Future, DestroyFuture(f) \/ Retrieve(f) PROVE Abstract!Next
  BY <1>7, MapDestroyFuture, MapRetrieve DEF Abstract!Next
<1>8. ASSUME NEW f \in Future, NEW a \in Promise, NewFuture(f, a) PROVE Abstract!Next
  BY <1>8, MapNewFuture DEF Abstract!Next
<1>9. ASSUME NEW f \in Future, NEW g \in Future, CopyFuture(f, g) \/ MoveFuture(f, g)
      PROVE  Abstract!Next
  BY <1>9, MapCopyFuture, MapMoveFuture DEF Abstract!Next
<1> QED BY <1>1, <1>2, <1>3, <1>4, <1>5, <1>6, <1>7, <1>8, <1>9 DEF FuturesNext

\* The pointers implement the sets: every future gets exactly the outcome of its own
\* promise, from whichever copy (set_value(), set_exception(), ~promise_base()).
THEOREM FuturesImplement == FuturesSpec => ImplementsPromises
<1>1. FuturesInit => Abstract!Init
  BY MapInit
<1>2. FuturesInv /\ FuturesInv' /\ [FuturesNext]_futuresVars => [Abstract!Next]_(Abstract!vars)
  BY MapStep
<1> QED BY <1>1, <1>2, FuturesInvariance, PTL DEF FuturesSpec, ImplementsPromises, Abstract!Spec

-----------------------------------------------------------------------------
(* The shared mutex.                                                       *)

\* Callers see to the assertion of try_unlock_shared_and_lock().
Careful == "adopt" \notin Calls

Owning == {"none", "shared", "upgrade"} \cup Uniques
Readers == Owner({"shared"})
Fresh(mode) == IF mode = "promote" THEN "upgrade" ELSE "none"

Types == /\ u \in Ctx \cup {None} /\ s \in Int
         /\ want \in [Ctx -> Mode \cup {"none"}]
         /\ has \in [Ctx -> Owning]

\* Upgrade and unique owners are the one that u points to.
Held == \A c \in Ctx : has[c] \in {"upgrade"} \cup Uniques => u = c

\* Beside a unique owner nobody owns anything.
Alone == \A c, d \in Ctx : has[c] \in Uniques /\ d # c => has[d] = "none"

\* A waiter for a mode has what the mode is reached from.
Asked == \A c \in Ctx : want[c] # "none" => has[c] = Fresh(want[c])

IInv == Types /\ Held /\ Alone /\ Asked /\ Counted

-----------------------------------------------------------------------------
(* The readers.                                                            *)

LEMMA ReadersFinite == IsFiniteSet(Readers) /\ Cardinality(Readers) \in Nat
<1>1. Readers \in SUBSET Ctx /\ IsFiniteSet(Ctx)
  BY SharedMutexAssumption DEF Readers, Owner
<1> QED BY <1>1, FS_Subset, FS_CardinalityType

Becomes(c, m) == m \in Owning /\ has' = [has EXCEPT ![c] = m]

\* How the number of readers changes with what one context has.
LEMMA ReadersChange ==
  ASSUME Types, NEW c \in Ctx, NEW m, Becomes(c, m)
  PROVE  /\ Cardinality(Readers') \in Int
         /\ (m = "shared" <=> has[c] = "shared") => Cardinality(Readers') = Cardinality(Readers)
         /\ m = "shared" /\ has[c] # "shared" => Cardinality(Readers') = Cardinality(Readers) + 1
         /\ m # "shared" /\ has[c] = "shared" => Cardinality(Readers') = Cardinality(Readers) - 1
<1>0. c \in Readers <=> has[c] = "shared"
  BY DEF Readers, Owner
<1>1. CASE m = "shared"
  <2>1. Readers' = Readers \cup {c}
    BY <1>1 DEF Becomes, Types, Readers, Owner
  <2>2. Cardinality(Readers \cup {c})
          = IF c \in Readers THEN Cardinality(Readers) ELSE Cardinality(Readers) + 1
    BY ReadersFinite, FS_AddElement
  <2> QED BY <1>0, <1>1, <2>1, <2>2, ReadersFinite
<1>2. CASE m # "shared"
  <2>1. Readers' = Readers \ {c}
    BY <1>2 DEF Becomes, Types, Readers, Owner
  <2>2. Cardinality(Readers \ {c})
          = IF c \in Readers THEN Cardinality(Readers) - 1 ELSE Cardinality(Readers)
    BY ReadersFinite, FS_RemoveElement
  <2> QED BY <1>0, <1>2, <2>1, <2>2, ReadersFinite
<1> QED BY <1>1, <1>2

\* The functions stay functions.
LEMMA HasNext ==
  ASSUME Types, NEW c \in Ctx, NEW m, Becomes(c, m)
  PROVE  /\ has' \in [Ctx -> Owning] /\ has'[c] = m
         /\ \A d \in Ctx : d # c => has'[d] = has[d]
BY DEF Types, Becomes

\* Where the count is not negative it counts, and nobody is alone.
LEMMA NotNegative ==
  ASSUME IInv, s >= 0
  PROVE  /\ s = Cardinality(Readers)
         /\ \A c \in Ctx : has[c] \notin Uniques
<1>1. Owner(Uniques) = {}
  BY DEF IInv, Types, Counted
<1> QED BY <1>1 DEF IInv, Counted, Readers, Owner

\* Where it is zero there are no readers.
LEMMA NoReaders ==
  ASSUME IInv, s = 0
  PROVE  \A c \in Ctx : has[c] \notin {"shared"} \cup Uniques
<1>1. s = Cardinality(Readers) /\ \A c \in Ctx : has[c] \notin Uniques
  BY NotNegative
<1>2. Readers = {}
  BY <1>1, ReadersFinite, FS_EmptySet
<1> QED BY <1>1, <1>2 DEF Readers, Owner

\* Counted, of the next state, from what it is about.
LEMMA CountedNext ==
  ASSUME \/ s' < 0 /\ \E c \in Ctx : has'[c] \in Uniques
         \/ /\ s' = Cardinality(Readers')
            /\ \A c \in Ctx : has'[c] \notin Uniques
  PROVE  Counted'
<1>1. CASE s' < 0 /\ \E c \in Ctx : has'[c] \in Uniques
  <2>1. Owner(Uniques)' # {}
    BY <1>1 DEF Owner, Uniques
  <2> QED BY <1>1, <2>1 DEF Counted
<1>2. CASE s' = Cardinality(Readers') /\ \A c \in Ctx : has'[c] \notin Uniques
  <2>1. Owner(Uniques)' = {}
    BY <1>2 DEF Owner, Uniques
  <2> QED BY <1>2, <2>1 DEF Counted, Readers
<1> QED BY <1>1, <1>2

\* A step that leaves all of it alone but a waiter that may be gone.
LEMMA Idle ==
  ASSUME IInv, UNCHANGED <<u, s, has>>, NEW c \in Ctx,
         want' = want \/ want' = [want EXCEPT ![c] = "none"]
  PROVE  IInv'
BY DEF IInv, Types, Held, Alone, Asked, Counted, Owner, Mode, Uniques

-----------------------------------------------------------------------------
(* The operations that take.                                               *)

LEMMA TakeKeeps ==
  ASSUME IInv, NEW c \in Ctx, NEW mode \in Mode,
         Can(c, mode), has[c] = Fresh(mode), Take(c, mode),
         (want' = want /\ Running(c)) \/ want' = [want EXCEPT ![c] = "none"]
  PROVE  IInv'
<1>0. Types /\ has[c] # "shared"
  BY DEF IInv, Fresh
<1>1. want' \in [Ctx -> Mode \cup {"none"}] /\ want'[c] = "none"
      /\ \A d \in Ctx : d # c => want'[d] = want[d]
  BY <1>0 DEF Types, Running
<1>2. ASSUME NEW m, Becomes(c, m), u' \in Ctx \cup {None}, s' \in Int
      PROVE  Types' /\ Asked'
  <2>1. /\ has' \in [Ctx -> Owning]
        /\ \A d \in Ctx : d # c => has'[d] = has[d]
    BY <1>0, <1>2, HasNext
  <2> QED BY <1>1, <1>2, <2>1 DEF IInv, Types, Asked
<1>4. CASE mode = "shared"
  <2>1. s >= 0 /\ s' = s + 1 /\ u' = u /\ Becomes(c, "shared")
    BY <1>4 DEF Can, CanLockShared, Take, Becomes, Owning
  <2>2. s = Cardinality(Readers) /\ \A d \in Ctx : has[d] \notin Uniques
    BY <2>1, NotNegative
  <2>3. /\ has'[c] = "shared" /\ \A d \in Ctx : d # c => has'[d] = has[d]
    BY <1>0, <2>1, HasNext
  <2>4. \A d \in Ctx : has'[d] \notin Uniques
    BY <2>2, <2>3 DEF Uniques
  <2>5. s' = Cardinality(Readers')
    BY <1>0, <2>1, <2>2, ReadersChange
  <2>6. Counted'
    BY <2>4, <2>5, CountedNext
  <2>7. Held' /\ Alone'
    BY <2>1, <2>3, <2>4 DEF IInv, Held, Alone, Uniques
  <2>8. Types' /\ Asked'
    BY <1>0, <1>2, <2>1 DEF Types
  <2> QED BY <2>6, <2>7, <2>8 DEF IInv
<1>5. CASE mode = "upgrade"
  <2>1. u = None /\ u' = c /\ s' = s /\ Becomes(c, "upgrade")
    BY <1>5 DEF Can, CanLockUpgrade, Take, Becomes, Owning
  <2>2. \A d \in Ctx : has[d] \notin {"upgrade"} \cup Uniques
    BY <2>1, SharedMutexAssumption DEF IInv, Held
  <2>3. s = Cardinality(Readers)
    BY <2>2 DEF IInv, Counted, Owner, Readers
  <2>4. /\ has'[c] = "upgrade" /\ \A d \in Ctx : d # c => has'[d] = has[d]
    BY <1>0, <2>1, HasNext
  <2>5. \A d \in Ctx : has'[d] \notin Uniques
    BY <2>2, <2>4 DEF Uniques
  <2>6. s' = Cardinality(Readers')
    BY <1>0, <2>1, <2>3, ReadersChange
  <2>7. Counted'
    BY <2>5, <2>6, CountedNext
  <2>8. Held' /\ Alone'
    BY <2>1, <2>2, <2>4, <2>5 DEF Held, Alone
  <2>9. Types' /\ Asked'
    BY <1>0, <1>2, <2>1 DEF Types
  <2> QED BY <2>7, <2>8, <2>9 DEF IInv
<1>6. CASE mode \in {"unique", "promote"}
  <2>1. s = 0 /\ u \in {None, c} /\ s' = Lowest
    BY <1>6 DEF Can, CanLock, Take
  <2>2. PICK m \in Uniques : Becomes(c, m)
    BY <1>6 DEF Take, Becomes, Owning, Uniques
  <2>3. u' = c
    BY <1>6, <2>1 DEF IInv, Held, Take, Fresh
  <2>4. \A d \in Ctx : has[d] \notin {"shared"} \cup Uniques
    BY <2>1, NoReaders
  <2>5. /\ has'[c] = m /\ \A d \in Ctx : d # c => has'[d] = has[d]
    BY <1>0, <2>2, HasNext
  <2>6. \A d \in Ctx : d # c => has[d] = "none"
    BY <1>0, <2>1, <2>4, SharedMutexAssumption DEF IInv, Types, Held, Owning
  <2>7. Held' /\ Alone'
    BY <2>2, <2>3, <2>5, <2>6 DEF Held, Alone, Uniques
  <2>8. s' \in Int /\ s' < 0
    BY <2>1, SharedMutexAssumption DEF Lowest
  <2>9. Counted'
    BY <2>2, <2>5, <2>8, CountedNext
  <2>10. Types' /\ Asked'
    BY <1>2, <2>2, <2>3, <2>8
  <2> QED BY <2>7, <2>9, <2>10 DEF IInv
<1> QED BY <1>4, <1>5, <1>6 DEF Mode

\* A context that does not wait moves between modes other than the unique ones,
\* while nobody has a unique one after.
LEMMA Moves ==
  ASSUME IInv, NEW c \in Ctx, NEW m, Becomes(c, m), want' = want, Running(c),
         s' = Cardinality(Readers'), m \notin Uniques,
         \A d \in Ctx : d # c => has[d] \notin Uniques,
         u' \in Ctx \cup {None}, m = "upgrade" => u' = c,
         u' = u \/ \A d \in Ctx : d # c => has[d] # "upgrade"
  PROVE  IInv'
<1>1. /\ has' \in [Ctx -> Owning] /\ has'[c] = m
      /\ \A d \in Ctx : d # c => has'[d] = has[d]
  BY HasNext DEF IInv
<1>2. \A d \in Ctx : has'[d] \notin Uniques
  BY <1>1
<1>3. Counted' /\ Alone'
  BY <1>2, CountedNext DEF Alone
<1>4. Held'
  BY <1>1, <1>2 DEF IInv, Held
<1>5. s' \in Int
  BY ReadersChange DEF IInv
<1> QED BY <1>1, <1>3, <1>4, <1>5 DEF IInv, Types, Asked, Running

LEMMA TryLockSharedKeeps ==
  ASSUME IInv, NEW c \in Ctx, TryLockShared(c)
  PROVE  IInv'
<1>0. /\ Types /\ s \in Int /\ has[c] = "none" /\ s' = s + 1 /\ s # -1
      /\ u' = u /\ u \in Ctx \cup {None} /\ want' = want /\ Running(c)
      /\ has' = [has EXCEPT ![c] = IF s' >= 0 THEN "shared" ELSE "none"]
  BY DEF IInv, Types, TryLockShared, waiting
<1>1. CASE s >= 0
  <2>0. s' >= 0
    BY <1>0, <1>1
  <2>1. Becomes(c, "shared")
    BY <1>0, <2>0 DEF Becomes, Owning
  <2>2. s = Cardinality(Readers) /\ \A d \in Ctx : has[d] \notin Uniques
    BY <1>1, NotNegative
  <2>3. s' = Cardinality(Readers')
    BY <1>0, <2>1, <2>2, ReadersChange
  <2> QED BY <1>0, <2>1, <2>2, <2>3, Moves DEF Uniques
<1>2. CASE s < 0
  <2>1. s' \in Int /\ s' < 0 /\ has' = has
    BY <1>0, <1>2 DEF Types
  <2>2. Owner(Uniques) # {}
    BY <1>2, ReadersFinite DEF IInv, Counted, Readers
  <2>3. Counted'
    BY <2>1, <2>2, CountedNext DEF Owner
  <2> QED BY <1>0, <2>1, <2>3 DEF IInv, Types, Held, Alone, Asked
<1> QED BY <1>0, <1>1, <1>2

LEMMA TrySharedUniqueKeeps ==
  ASSUME IInv, Careful, NEW c \in Ctx, TrySharedUnique(c)
  PROVE  IInv'
<1>0. /\ Types /\ has[c] = "shared" /\ s = 1 /\ u = None /\ u' = c /\ s' = Lowest
      /\ want' = want /\ want[c] = "none" /\ Becomes(c, "unique")
  BY DEF IInv, TrySharedUnique, Running, waiting, Careful, Becomes, Owning, Uniques
<1>1. \A d \in Ctx : has[d] \notin {"upgrade"} \cup Uniques
  BY <1>0, SharedMutexAssumption DEF IInv, Held
<1>2. Cardinality(Readers) = 1 /\ c \in Readers
  BY <1>0, NotNegative DEF Readers, Owner
<1>3. Readers = {c}
  BY <1>2, ReadersFinite, FS_Singleton
<1>4. \A d \in Ctx : d # c => has[d] = "none"
  BY <1>0, <1>1, <1>3 DEF Types, Readers, Owner, Owning
<1>5. /\ has' \in [Ctx -> Owning] /\ has'[c] = "unique"
      /\ \A d \in Ctx : d # c => has'[d] = has[d]
  BY <1>0, HasNext
<1>6. s' \in Int /\ s' < 0
  BY <1>0, SharedMutexAssumption DEF Lowest
<1>7. Counted'
  BY <1>5, <1>6, CountedNext DEF Uniques
<1>8. Types' /\ Asked'
  BY <1>0, <1>5, <1>6 DEF IInv, Types, Asked
<1>9. Held' /\ Alone'
  BY <1>0, <1>4, <1>5 DEF Held, Alone, Uniques
<1> QED BY <1>7, <1>8, <1>9 DEF IInv

LEMMA TrySharedUpgradeKeeps ==
  ASSUME IInv, NEW c \in Ctx, TrySharedUpgrade(c)
  PROVE  IInv'
<1>0. /\ Types /\ has[c] = "shared" /\ u = None /\ u' = c /\ s' = s - 1
      /\ want' = want /\ Running(c) /\ Becomes(c, "upgrade")
  BY DEF IInv, TrySharedUpgrade, CanLockUpgrade, waiting, Becomes, Owning
<1>1. \A d \in Ctx : has[d] \notin {"upgrade"} \cup Uniques
  BY <1>0, SharedMutexAssumption DEF IInv, Held
<1>2. s = Cardinality(Readers)
  BY <1>1 DEF IInv, Counted, Owner, Readers
<1>3. s' = Cardinality(Readers')
  BY <1>0, <1>2, ReadersChange
<1> QED BY <1>0, <1>1, <1>3, Moves DEF Uniques

-----------------------------------------------------------------------------
(* The operations that give back.                                          *)

\* A unique owner goes on with less, alone as before.
LEMMA UniqueGivesBack ==
  ASSUME IInv, NEW c \in Ctx, Unique(c), Running(c), NEW m \in {"none", "shared", "upgrade"},
         has' = [has EXCEPT ![c] = m], u' = u, want' = want,
         s' = IF m = "shared" THEN 1 ELSE 0
  PROVE  IInv'
<1>0. /\ Types /\ has[c] \in Uniques /\ u = c /\ Becomes(c, m) /\ m \notin Uniques
      /\ \A d \in Ctx : d # c => has[d] = "none"
  BY DEF IInv, Held, Alone, Unique, Uniques, Owning, Becomes
<1>1. Readers = {}
  BY <1>0 DEF Readers, Owner, Uniques
<1>2. Cardinality(Readers) = 0 /\ has[c] # "shared"
  BY <1>0, <1>1, FS_EmptySet DEF Uniques
<1>3. s' = Cardinality(Readers')
  BY <1>0, <1>2, ReadersChange
<1> QED BY <1>0, <1>3, Moves DEF Uniques

LEMMA UnlockSharedKeeps ==
  ASSUME IInv, NEW c \in Ctx, UnlockShared(c)
  PROVE  IInv'
<1>0. /\ Types /\ has[c] = "shared" /\ u' = u /\ u \in Ctx \cup {None} /\ s' = s - 1
      /\ want' = want /\ Running(c) /\ Becomes(c, "none")
  BY DEF IInv, Types, UnlockShared, Becomes, Owning
<1>1. \A d \in Ctx : has[d] \notin Uniques
  BY <1>0 DEF IInv, Alone, Uniques
<1>2. s = Cardinality(Readers)
  BY <1>1 DEF IInv, Counted, Owner, Readers
<1>3. s' = Cardinality(Readers')
  BY <1>0, <1>2, ReadersChange
<1> QED BY <1>0, <1>1, <1>3, Moves DEF Uniques

\* unlock_upgrade(), and unlock_upgrade_and_lock_shared().
LEMMA UpgradeGivesBack ==
  ASSUME IInv, NEW c \in Ctx, has[c] = "upgrade", Running(c), NEW m \in {"none", "shared"},
         has' = [has EXCEPT ![c] = m], u' = None, want' = want,
         s' = IF m = "shared" THEN s + 1 ELSE s
  PROVE  IInv'
<1>0. /\ Types /\ u = c /\ Becomes(c, m) /\ m \notin {"upgrade"} \cup Uniques
      /\ \A d \in Ctx : has[d] \notin Uniques /\ (d # c => has[d] # "upgrade")
  BY DEF IInv, Held, Alone, Uniques, Owning, Becomes
<1>1. s = Cardinality(Readers)
  BY <1>0 DEF IInv, Counted, Owner, Readers
<1>2. s' = Cardinality(Readers')
  BY <1>0, <1>1, ReadersChange
<1> QED BY <1>0, <1>2, Moves

-----------------------------------------------------------------------------
LEMMA NextKeeps ==
  ASSUME IInv, Careful, [Next]_vars
  PROVE  IInv'
<1>1. CASE UNCHANGED vars
  BY <1>1 DEF vars, IInv, Types, Held, Alone, Asked, Counted, Owner
<1>2. ASSUME NEW c \in Ctx, NEW mode \in Mode, NEW deadline \in BOOLEAN,
             LockMode(c, mode, deadline)
      PROVE  IInv'
  <2>1. has[c] = Fresh(mode)
    BY <1>2 DEF LockMode, Fresh
  <2>2. CASE Can(c, mode)
    BY <1>2, <2>1, <2>2, TakeKeeps DEF LockMode
  <2>3. CASE ~Can(c, mode)
    <3>1. UNCHANGED <<u, s, has>> /\ want' = [want EXCEPT ![c] = mode]
      BY <1>2, <2>3 DEF LockMode
    <3> QED BY <2>1, <3>1 DEF IInv, Types, Held, Alone, Asked, Counted, Owner, Mode
  <2> QED BY <2>2, <2>3
<1>3. ASSUME NEW c \in Ctx, Resume(c) PROVE IInv'
  <2>1. want[c] \in Mode /\ has[c] = Fresh(want[c])
    BY <1>3 DEF Resume, Running, IInv, Types, Asked
  <2>2. CASE Can(c, want[c])
    BY <1>3, <2>1, <2>2, TakeKeeps DEF Resume
  <2>3. CASE ~Can(c, want[c])
    BY <1>3, <2>3, Idle DEF Resume
  <2> QED BY <2>2, <2>3
<1>4. ASSUME NEW c \in Ctx, Expire(c) \/ Interrupt(c) PROVE IInv'
  BY <1>4, Idle DEF Expire, Interrupt
<1>5. ASSUME NEW c \in Ctx, NEW mode \in Mode, TryLock(c, mode) PROVE IInv'
  <2>1. has[c] = Fresh(mode) /\ Can(c, mode) /\ Take(c, mode) /\ want' = want /\ Running(c)
    BY <1>5 DEF TryLock, Fresh, waiting
  <2> QED BY <2>1, TakeKeeps
<1>6. ASSUME NEW c \in Ctx, Unlock(c) PROVE IInv'
  BY <1>6, UniqueGivesBack DEF Unlock
<1>7. ASSUME NEW c \in Ctx, UnlockUpgrade(c) PROVE IInv'
  BY <1>7, UpgradeGivesBack DEF UnlockUpgrade
<1>8. ASSUME NEW c \in Ctx, UniqueShared(c) \/ UniqueUpgrade(c) PROVE IInv'
  BY <1>8, UniqueGivesBack DEF UniqueShared, UniqueUpgrade, Unique, waiting
<1>9. ASSUME NEW c \in Ctx, UpgradeShared(c) PROVE IInv'
  BY <1>9, UpgradeGivesBack DEF UpgradeShared
<1> QED BY <1>1, <1>2, <1>3, <1>4, <1>5, <1>6, <1>7, <1>8, <1>9, TryLockSharedKeeps,
           TrySharedUniqueKeeps, TrySharedUpgradeKeeps, UnlockSharedKeeps DEF Next

\* The invariant says what TLC checks.
LEMMA Excludes ==
  ASSUME IInv
  PROVE  Exclusive
<1>1. ASSUME NEW c \in Ctx, has[c] \in Uniques
      PROVE  Cardinality(Owner({"shared", "upgrade"} \cup Uniques)) = 1
  <2>1. Owner({"shared", "upgrade"} \cup Uniques) = {c}
    BY <1>1 DEF IInv, Alone, Owner, Uniques
  <2> QED BY <2>1, FS_Singleton
<1>2. Cardinality(Owner({"upgrade"})) <= 1
  <2>1. Owner({"upgrade"}) \in SUBSET {u}
    BY DEF IInv, Held, Owner
  <2>2. IsFiniteSet({u}) /\ Cardinality({u}) = 1
    BY FS_Singleton
  <2> QED BY <2>1, <2>2, FS_Subset
<1>3. Owner(Uniques) # {} => \E c \in Ctx : has[c] \in Uniques
  BY DEF Owner
<1> QED BY <1>1, <1>2, <1>3 DEF Exclusive

\* Owners, waiters and count agree in every reachable state, for any number of
\* contexts, whichever of the operations they call.
THEOREM Invariance == ASSUME Careful PROVE Spec => []IInv
<1>1. Init => IInv
  <2> SUFFICES ASSUME Init PROVE IInv
    OBVIOUS
  <2>1. Readers = {} /\ Owner(Uniques) = {}
    BY DEF Init, Readers, Owner, Uniques
  <2>2. Counted
    BY <2>1, FS_EmptySet DEF Init, Counted, Readers
  <2> QED BY <2>2 DEF Init, IInv, Types, Held, Alone, Asked, Uniques, Owning
<1>2. IInv /\ [Next]_vars => IInv'
  BY NextKeeps
<1> QED BY <1>1, <1>2, PTL DEF Spec

\* lock(), the upgrade's second phase and the try_*() never put a unique owner
\* beside another owner, nor two upgrade owners beside each other.
THEOREM Exclusion == ASSUME Careful PROVE Spec => []Exclusive
<1>1. IInv => Exclusive
  BY Excludes
<1> QED BY <1>1, Invariance, PTL

\* shared_mutex::s is the number of readers, over every move between the modes
\* and failed attempts to read, or negative under a unique owner.
THEOREM CountKept == ASSUME Careful PROVE Spec => []Counted
<1>1. IInv => Counted
  BY DEF IInv
<1> QED BY <1>1, Invariance, PTL
=============================================================================
