----------------------------- MODULE ListProofs -----------------------------
(***************************************************************************)
(* Facts about the operators of module List.                               *)
(***************************************************************************)
EXTENDS List, SequenceTheorems, TLAPS

\* No element occurs twice.
Distinct(q) == \A i, j \in DOMAIN q : q[i] = q[j] => i = j

\* Removing position i keeps the others, in order.
LEMMA RemoveAtIndices ==
  ASSUME NEW S, NEW q \in Seq(S), NEW i \in 1 .. Len(q)
  PROVE  /\ RemoveAt(q, i) \in Seq(S)
         /\ Len(RemoveAt(q, i)) = Len(q) - 1
         /\ \A k \in 1 .. Len(q) - 1 :
              RemoveAt(q, i)[k] = IF k < i THEN q[k] ELSE q[k + 1]
<1> DEFINE a == SubSeq(q, 1, i - 1)
           b == SubSeq(q, i + 1, Len(q))
<1>1. /\ a \in Seq(S) /\ Len(a) = i - 1
      /\ \A k \in 1 .. i - 1 : a[k] = q[k]
  BY SubSeqProperties
<1>2. /\ b \in Seq(S) /\ Len(b) = Len(q) - i
      /\ \A k \in 1 .. Len(q) - i : b[k] = q[k + i]
  <2>1. CASE i = Len(q)
    BY <2>1, SubSeqProperties
  <2>2. CASE i < Len(q)
    BY <2>2, SubSeqProperties
  <2> QED BY <2>1, <2>2
<1>3. RemoveAt(q, i) = a \o b
  BY DEF RemoveAt
<1> HIDE DEF a, b
<1>4. /\ a \o b \in Seq(S)
      /\ Len(a \o b) = Len(q) - 1
      /\ \A k \in 1 .. Len(q) - 1 :
           (a \o b)[k] = IF k < i THEN q[k] ELSE q[k + 1]
  <2>0. Len(q) \in Nat
    BY LenProperties
  <2>1. /\ a \o b \in Seq(S)
        /\ Len(a \o b) = Len(a) + Len(b)
        /\ \A k \in 1 .. Len(a) + Len(b) :
             (a \o b)[k] = IF k <= Len(a) THEN a[k] ELSE b[k - Len(a)]
    BY <1>1, <1>2, ConcatProperties
  <2>2. Len(a) + Len(b) = Len(q) - 1
    BY <2>0, <1>1, <1>2
  <2>3. ASSUME NEW k \in 1 .. Len(q) - 1
        PROVE  (a \o b)[k] = IF k < i THEN q[k] ELSE q[k + 1]
    <3>1. CASE k < i
      <4>1. k \in 1 .. i - 1 /\ k <= Len(a)
        BY <3>1, <2>0, <1>1
      <4> QED BY <4>1, <3>1, <2>1, <2>2, <1>1
    <3>2. CASE ~(k < i)
      <4>1. /\ k - Len(a) \in 1 .. Len(q) - i
            /\ (k - Len(a)) + i = k + 1
            /\ ~(k <= Len(a))
        BY <3>2, <2>0, <1>1
      <4>2. b[k - Len(a)] = q[k + 1]
        BY <4>1, <1>2
      <4> QED BY <4>1, <4>2, <3>2, <2>1, <2>2
    <3> QED BY <3>1, <3>2
  <2> QED BY <2>1, <2>2, <2>3
<1> QED BY <1>3, <1>4

\* Unlink removes the context and nothing else, and keeps each context once.
LEMMA UnlinkProperties ==
  ASSUME NEW S, NEW q \in Seq(S), Distinct(q), NEW c \in ToSet(q)
  PROVE  /\ Unlink(q, c) \in Seq(S)
         /\ Distinct(Unlink(q, c))
         /\ ToSet(Unlink(q, c)) = ToSet(q) \ {c}
<1> DEFINE i == CHOOSE n \in DOMAIN q : q[n] = c
           r == RemoveAt(q, i)
<1>0. Len(q) \in Nat /\ DOMAIN q = 1 .. Len(q)
  BY LenProperties
<1>1. i \in 1 .. Len(q) /\ q[i] = c
  BY <1>0 DEF ToSet
<1>2. Unlink(q, c) = r
  BY DEF Unlink
<1> HIDE DEF i
<1>3. /\ r \in Seq(S)
      /\ Len(r) = Len(q) - 1
      /\ \A k \in 1 .. Len(q) - 1 : r[k] = IF k < i THEN q[k] ELSE q[k + 1]
  BY <1>1, RemoveAtIndices
<1> HIDE DEF r
<1>4. DOMAIN r = 1 .. Len(q) - 1
  BY <1>0, <1>3, LenProperties
<1>5. Distinct(r)
  BY <1>0, <1>1, <1>3, <1>4 DEF Distinct
<1>6. ASSUME NEW x \in ToSet(r) PROVE x \in ToSet(q) \ {c}
  BY <1>0, <1>1, <1>3, <1>4 DEF Distinct, ToSet
<1>7. ASSUME NEW x \in ToSet(q) \ {c} PROVE x \in ToSet(r)
  <2>1. PICK k \in 1 .. Len(q) : q[k] = x /\ k # i
    BY <1>0, <1>1 DEF ToSet
  <2>2. CASE k < i
    <3>1. k \in 1 .. Len(q) - 1
      BY <1>0, <1>1, <2>2
    <3>2. r[k] = x
      BY <1>3, <2>1, <2>2, <3>1
    <3> QED BY <1>4, <3>1, <3>2 DEF ToSet
  <2>3. CASE k > i
    <3>1. k - 1 \in 1 .. Len(q) - 1 /\ ~(k - 1 < i) /\ (k - 1) + 1 = k
      BY <1>0, <1>1, <2>3
    <3>2. r[k - 1] = x
      BY <1>3, <2>1, <3>1
    <3> QED BY <1>4, <3>1, <3>2 DEF ToSet
  <2> QED BY <1>0, <1>1, <2>1, <2>2, <2>3
<1> QED BY <1>2, <1>3, <1>5, <1>6, <1>7

\* Append adds a context that was not there.
LEMMA AppendDistinct ==
  ASSUME NEW S, NEW q \in Seq(S), Distinct(q), NEW c \in S, c \notin ToSet(q)
  PROVE  /\ Append(q, c) \in Seq(S)
         /\ Distinct(Append(q, c))
         /\ ToSet(Append(q, c)) = ToSet(q) \cup {c}
<1> DEFINE r == Append(q, c)
<1>0. Len(q) \in Nat /\ DOMAIN q = 1 .. Len(q)
  BY LenProperties
<1>1. /\ r \in Seq(S) /\ Len(r) = Len(q) + 1
      /\ \A k \in 1 .. Len(q) : r[k] = q[k]
      /\ r[Len(q) + 1] = c
  BY AppendProperties
<1> HIDE DEF r
<1>2. DOMAIN r = 1 .. Len(q) + 1
  BY <1>0, <1>1, LenProperties
<1>3. Distinct(r)
  BY <1>0, <1>1, <1>2 DEF Distinct, ToSet
<1>4. ToSet(r) = ToSet(q) \cup {c}
  <2>1. ASSUME NEW x \in ToSet(r) PROVE x \in ToSet(q) \cup {c}
    BY <1>0, <1>1, <1>2 DEF ToSet
  <2>2. ASSUME NEW x \in ToSet(q) PROVE x \in ToSet(r)
    <3>1. PICK k \in 1 .. Len(q) : q[k] = x
      BY <1>0 DEF ToSet
    <3> QED BY <1>0, <1>1, <1>2, <3>1 DEF ToSet
  <2>3. c \in ToSet(r)
    BY <1>0, <1>1, <1>2 DEF ToSet
  <2> QED BY <2>1, <2>2, <2>3
<1> QED BY <1>1, <1>3, <1>4 DEF r

\* The head of a list that is not empty is one of its contexts.
LEMMA HeadInList ==
  ASSUME NEW S, NEW q \in Seq(S), q # <<>>
  PROVE  Head(q) \in ToSet(q) /\ Head(q) \in S /\ Head(q) = q[1] /\ 1 \in DOMAIN q
<1>1. Len(q) \in Nat /\ DOMAIN q = 1 .. Len(q)
  BY LenProperties
<1>2. 1 \in DOMAIN q /\ Head(q) = q[1]
  BY <1>1
<1> QED BY <1>2 DEF ToSet

\* The rest of a list after its first.
LEMMA TailDistinct ==
  ASSUME NEW S, NEW q \in Seq(S), Distinct(q), q # <<>>
  PROVE  /\ Tail(q) \in Seq(S)
         /\ Distinct(Tail(q))
         /\ ToSet(Tail(q)) = ToSet(q) \ {Head(q)}
<1> DEFINE c == Head(q)
           r == Tail(q)
<1>0. Len(q) \in Nat /\ DOMAIN q = 1 .. Len(q) /\ Len(q) # 0
  BY LenProperties, EmptySeq
<1>1. c \in ToSet(q) /\ c \in S /\ c = q[1] /\ 1 \in DOMAIN q
  BY HeadInList
<1>2. /\ r \in Seq(S) /\ Len(r) = Len(q) - 1
      /\ \A i \in 1 .. Len(q) - 1 : r[i] = q[i + 1]
  BY HeadTailProperties
<1> HIDE DEF c, r
<1>3. DOMAIN r = 1 .. Len(q) - 1
  BY <1>0, <1>2, LenProperties
<1>4. Distinct(r)
  <2>1. ASSUME NEW i \in 1 .. Len(q) - 1, NEW j \in 1 .. Len(q) - 1, r[i] = r[j]
        PROVE  i = j
    <3>1. q[i + 1] = q[j + 1] /\ i + 1 \in DOMAIN q /\ j + 1 \in DOMAIN q
      BY <2>1, <1>0, <1>2
    <3>2. i + 1 = j + 1
      BY <3>1 DEF Distinct
    <3> QED BY <3>2, <1>0
  <2> QED BY <2>1, <1>3 DEF Distinct
<1>5. ToSet(r) = ToSet(q) \ {c}
  <2>1. ASSUME NEW x \in ToSet(r) PROVE x \in ToSet(q) \ {c}
    <3>1. PICK i \in 1 .. Len(q) - 1 : r[i] = x
      BY <1>3 DEF ToSet
    <3>2. q[i + 1] = x /\ i + 1 \in DOMAIN q /\ i + 1 # 1
      BY <3>1, <1>0, <1>2
    <3> QED BY <3>2, <1>1 DEF Distinct, ToSet
  <2>2. ASSUME NEW x \in ToSet(q) \ {c} PROVE x \in ToSet(r)
    <3>1. PICK i \in DOMAIN q : q[i] = x /\ i # 1
      BY <1>1 DEF ToSet
    <3>2. i - 1 \in 1 .. Len(q) - 1 /\ (i - 1) + 1 = i
      BY <3>1, <1>0
    <3>3. r[i - 1] = x
      BY <3>1, <3>2, <1>2
    <3> QED BY <3>2, <3>3, <1>3 DEF ToSet
  <2> QED BY <2>1, <2>2
<1> QED BY <1>2, <1>4, <1>5 DEF c, r

\* Rotating keeps the members, each once.
LEMMA RotateProperties ==
  ASSUME NEW S, NEW q \in Seq(S), Distinct(q)
  PROVE  /\ Rotate(q) \in Seq(S)
         /\ Distinct(Rotate(q))
         /\ ToSet(Rotate(q)) = ToSet(q)
<1>1. CASE q = <<>>
  BY <1>1 DEF Rotate
<1>2. CASE q # <<>>
  <2> DEFINE c == Head(q)
             r == Tail(q)
  <2>1. c \in ToSet(q) /\ c \in S
    BY <1>2, HeadInList
  <2>2. r \in Seq(S) /\ Distinct(r) /\ ToSet(r) = ToSet(q) \ {c}
    BY <1>2, TailDistinct
  <2> HIDE DEF c, r
  <2>3. c \notin ToSet(r)
    BY <2>2
  <2>4. /\ Append(r, c) \in Seq(S) /\ Distinct(Append(r, c))
        /\ ToSet(Append(r, c)) = ToSet(r) \cup {c}
    BY <2>1, <2>2, <2>3, AppendDistinct
  <2> QED BY <1>2, <2>1, <2>2, <2>4 DEF Rotate, c, r
<1> QED BY <1>1, <1>2
=============================================================================
