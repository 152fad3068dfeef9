------------------------------ MODULE QueueLemmas ------------------------------
(***************************************************************************)
(* Facts about sequences without repetition, as the proofs about the       *)
(* queues of the executor and of the callback manager use them.            *)
(***************************************************************************)
EXTENDS Integers, Sequences, FiniteSets, Functions, SequenceTheorems, FiniteSetTheorems, TLAPS

\* The empty queue holds nothing (a drained queue).
LEMMA EmptyQueue ==
    Range(<<>>) = {} /\ IsInjective(<<>>)
  BY DEF Range, IsInjective

\* queue.put adds one element, and keeps the queue free of repetitions when
\* the element is new.
LEMMA PutElement ==
    ASSUME NEW S, NEW q \in Seq(S), NEW e \in S
    PROVE  /\ Range(Append(q, e)) = Range(q) \union {e}
           /\ IsInjective(q) /\ e \notin Range(q) => IsInjective(Append(q, e))
  <1> DEFINE p == Append(q, e)
  <1>1. /\ p \in Seq(S)
        /\ Len(p) = Len(q) + 1
        /\ \A i \in 1..Len(q) : p[i] = q[i]
        /\ p[Len(q) + 1] = e
    BY AppendProperties
  <1>2. Len(q) \in Nat /\ DOMAIN q = 1..Len(q) /\ DOMAIN p = 1..(Len(q) + 1)
    BY <1>1, LenProperties
  <1> HIDE DEF p
  <1>3. Range(p) = Range(q) \union {e}
    BY <1>1, <1>2 DEF Range
  <1>4. ASSUME IsInjective(q), e \notin Range(q) PROVE IsInjective(p)
    BY <1>1, <1>2, <1>4 DEF Range, IsInjective
  <1>5. QED
    BY <1>3, <1>4 DEF p

\* queue.get_nowait takes the head off, and the head does not come back.
LEMMA GetElement ==
    ASSUME NEW S, NEW q \in Seq(S), q # <<>>
    PROVE  /\ Head(q) \in S
           /\ Tail(q) \in Seq(S)
           /\ Range(q) = {Head(q)} \union Range(Tail(q))
           /\ Head(q) \in Range(q)
           /\ IsInjective(q) => Head(q) \notin Range(Tail(q)) /\ IsInjective(Tail(q))
  <1> DEFINE t == Tail(q)
  <1>1. /\ Head(q) \in S
        /\ t \in Seq(S)
        /\ Len(t) = Len(q) - 1
        /\ \A i \in 1..Len(t) : t[i] = q[i + 1]
    BY HeadTailProperties
  <1>2. /\ Len(q) \in Nat \ {0}
        /\ DOMAIN q = 1..Len(q)
        /\ DOMAIN t = 1..(Len(q) - 1)
        /\ Head(q) = q[1]
    BY <1>1, LenProperties, EmptySeq
  <1> HIDE DEF t
  <1>3. Range(q) = {Head(q)} \union Range(t)
    <2>1. ASSUME NEW i \in DOMAIN q PROVE q[i] \in {Head(q)} \union Range(t)
      <3>1. CASE i = 1
        BY <1>2, <3>1
      <3>2. CASE i # 1
        <4>1. i - 1 \in DOMAIN t /\ t[i - 1] = q[i]
          BY <1>1, <1>2, <3>2
        <4>2. QED
          BY <4>1 DEF Range
      <3>3. QED
        BY <3>1, <3>2
    <2>2. ASSUME NEW i \in DOMAIN t PROVE t[i] \in Range(q)
      <3>1. i + 1 \in DOMAIN q /\ q[i + 1] = t[i]
        BY <1>1, <1>2
      <3>2. QED
        BY <3>1 DEF Range
    <2>3. Head(q) \in Range(q)
      BY <1>2 DEF Range
    <2>4. QED
      BY <2>1, <2>2, <2>3 DEF Range
  <1>4. ASSUME IsInjective(q) PROVE Head(q) \notin Range(t) /\ IsInjective(t)
    <2>1. \A i \in DOMAIN t : i + 1 \in DOMAIN q /\ t[i] = q[i + 1] /\ i + 1 # 1
      BY <1>1, <1>2
    <2>2. Head(q) \notin Range(t)
      BY <1>2, <1>4, <2>1 DEF Range, IsInjective
    <2>3. IsInjective(t)
      <3> SUFFICES ASSUME NEW m \in DOMAIN t, NEW n \in DOMAIN t, t[m] = t[n]
                   PROVE  m = n
        BY DEF IsInjective
      <3>1. m + 1 = n + 1
        BY <1>4, <2>1 DEF IsInjective
      <3>2. QED
        BY <1>2, <3>1
    <2>4. QED
      BY <2>2, <2>3
  <1>5. QED
    BY <1>1, <1>3, <1>4 DEF t

\* A queue that holds nothing is empty.
LEMMA NothingQueued ==
    ASSUME NEW S, NEW q \in Seq(S), Range(q) = {}
    PROVE  q = <<>>
  BY GetElement

\* The places of a sequence, counted.
LEMMA IntervalSize ==
    ASSUME NEW n \in Nat
    PROVE  IsFiniteSet(1..n) /\ Cardinality(1..n) = n
  BY FS_Interval

\* A finite set, in some order: every element is there.
LEMMA OrderingHoldsAll ==
    ASSUME NEW S, IsFiniteSet(S), NEW q \in [1..Cardinality(S) -> S], IsInjective(q)
    PROVE  q \in Seq(S) /\ Len(q) = Cardinality(S) /\ Range(q) = S
  <1> DEFINE n == Cardinality(S)
  <1>1. n \in Nat
    BY FS_CardinalityType
  <1>2. Cardinality(1..n) = n
    BY <1>1, IntervalSize
  <1>3. q \in Injection(1..n, S)
    BY DEF Injection
  <1>4. q \in Surjection(1..n, S)
    BY <1>2, <1>3, FS_Injection
  <1>5. Range(q) = S
    BY <1>4 DEF Surjection, Range
  <1>6. q \in Seq(S)
    BY <1>1, SeqDef
  <1>7. Len(q) = n
    BY <1>1, <1>6, LenProperties
  <1>8. QED
    BY <1>5, <1>6, <1>7

\* A set of places that holds every place before one of its own is a prefix.
LEMMA ClosedPlacesArePrefix ==
    ASSUME NEW n \in Nat, NEW P \in SUBSET (1..n), \A i \in P : 1..i \subseteq P
    PROVE  Cardinality(P) \in 0..n /\ P = 1..Cardinality(P)
  <1> DEFINE c == Cardinality(P)
  <1>1. IsFiniteSet(1..n) /\ Cardinality(1..n) = n
    BY IntervalSize
  <1>2. IsFiniteSet(P) /\ c <= n
    BY <1>1, FS_Subset
  <1>3. c \in Nat
    BY <1>2, FS_CardinalityType
  <1> HIDE DEF c
  <1>4. ASSUME NEW i \in P PROVE i \in 1..c
    <2>1. i \in Nat \ {0} /\ 1..i \in SUBSET P
      OBVIOUS
    <2>2. Cardinality(1..i) = i
      BY <2>1, IntervalSize
    <2>3. Cardinality(1..i) <= c
      BY <1>2, <2>1, FS_Subset DEF c
    <2>4. QED
      BY <1>3, <2>1, <2>2, <2>3
  <1>5. P \in SUBSET (1..c)
    BY <1>4
  <1>6. IsFiniteSet(1..c) /\ Cardinality(1..c) = c
    BY <1>3, IntervalSize
  <1>7. P = 1..c
    <2>1. Cardinality(1..c) = Cardinality(P)
      BY <1>6 DEF c
    <2>2. QED
      BY <1>5, <1>6, <2>1, FS_Subset
  <1>8. c \in 0..n
    BY <1>2, <1>3
  <1>9. QED
    BY <1>7, <1>8 DEF c

\* What is left of a queue when the first k elements are taken off, k + 1 maybe
\* beyond its end.
LEMMA DropElements ==
    ASSUME NEW S, NEW q \in Seq(S), NEW k \in Nat
    PROVE  LET rest == SubSeq(q, k + 1, Len(q)) IN
           /\ rest \in Seq(S)
           /\ Range(rest) = {q[i] : i \in {j \in DOMAIN q : j > k}}
           /\ IsInjective(q) => IsInjective(rest)
           /\ Len(q) <= k => rest = <<>>
  <1> DEFINE rest == SubSeq(q, k + 1, Len(q))
  <1>1. Len(q) \in Nat /\ DOMAIN q = 1..Len(q) /\ q \in [1..Len(q) -> S]
    BY LenProperties
  <1>2. \A i \in (k + 1)..Len(q) : q[i] \in S
    BY <1>1
  <1>3. /\ rest \in Seq(S)
        /\ Len(rest) = IF k + 1 <= Len(q) THEN Len(q) - (k + 1) + 1 ELSE 0
        /\ \A i \in 1..(Len(q) - (k + 1) + 1) : rest[i] = q[k + 1 + i - 1]
    BY <1>1, <1>2, SubSeqProperties
  <1> HIDE DEF rest
  <1>4. Len(rest) \in Nat /\ DOMAIN rest = 1..Len(rest)
    BY <1>3, LenProperties
  <1>a. Len(rest) = IF k < Len(q) THEN Len(q) - k ELSE 0
    <2>1. \A n \in Nat : (k + 1 <= n <=> k < n) /\ n - (k + 1) + 1 = n - k
      OBVIOUS
    <2>2. (k + 1 <= Len(q) <=> k < Len(q)) /\ Len(q) - (k + 1) + 1 = Len(q) - k
      BY ONLY <1>1, <2>1
    <2>3. QED
      BY ONLY <1>3, <2>2
  <1>b. \A i \in 1..(Len(q) - k) : rest[i] = q[i + k]
    <2> SUFFICES ASSUME NEW i \in 1..(Len(q) - k) PROVE rest[i] = q[i + k]
      OBVIOUS
    <2>1. i \in 1..(Len(q) - (k + 1) + 1) /\ k + 1 + i - 1 = i + k
      BY <1>1
    <2>2. QED
      BY <1>3, <2>1
  <1>5. \A i \in DOMAIN rest : i + k \in DOMAIN q /\ i + k > k /\ rest[i] = q[i + k]
    <2> SUFFICES ASSUME NEW i \in DOMAIN rest
                 PROVE  i + k \in DOMAIN q /\ i + k > k /\ rest[i] = q[i + k]
      OBVIOUS
    <2>1. i \in 1..Len(rest)
      BY <1>4
    <2>2. k < Len(q) /\ i \in 1..(Len(q) - k)
      BY <1>a, <2>1
    <2>3. i + k \in 1..Len(q) /\ i + k > k
      BY <1>1, <2>2
    <2>4. QED
      BY <1>1, <1>b, <2>2, <2>3
  <1>6. \A j \in DOMAIN q : j > k => j - k \in DOMAIN rest /\ (j - k) + k = j
    <2> SUFFICES ASSUME NEW j \in DOMAIN q, j > k
                 PROVE  j - k \in DOMAIN rest /\ (j - k) + k = j
      OBVIOUS
    <2>1. j \in 1..Len(q)
      BY <1>1
    <2>2. k < Len(q) /\ j - k \in 1..(Len(q) - k) /\ (j - k) + k = j
      BY <1>1, <2>1
    <2>3. QED
      BY <1>4, <1>a, <2>2
  <1>7. Range(rest) = {q[i] : i \in {j \in DOMAIN q : j > k}}
    <2>1. ASSUME NEW e \in Range(rest) PROVE e \in {q[i] : i \in {j \in DOMAIN q : j > k}}
      BY <1>5, <2>1 DEF Range
    <2>2. ASSUME NEW i \in DOMAIN q, i > k PROVE q[i] \in Range(rest)
      <3>1. i - k \in DOMAIN rest /\ rest[i - k] = q[i]
        BY <1>5, <1>6, <2>2
      <3>2. QED
        BY <3>1 DEF Range
    <2>3. QED
      BY <2>1, <2>2
  <1>8. ASSUME IsInjective(q) PROVE IsInjective(rest)
    <2> SUFFICES ASSUME NEW i \in DOMAIN rest, NEW j \in DOMAIN rest, rest[i] = rest[j]
                 PROVE  i = j
      BY DEF IsInjective
    <2>1. i + k = j + k
      BY <1>5, <1>8 DEF IsInjective
    <2>2. QED
      BY <1>4, <2>1
  <1>9. ASSUME Len(q) <= k PROVE rest = <<>>
    <2>1. Len(rest) = 0
      <3>1. ~(k < Len(q))
        BY <1>1, <1>9
      <3>2. QED
        BY ONLY <1>a, <3>1
    <2>2. QED
      BY <1>3, <2>1, EmptySeq
  <1>10. QED
    BY <1>3, <1>7, <1>8, <1>9 DEF rest

\* A queue with one element put in front of it: where that is, and what stays.
LEMMA InFront ==
    ASSUME NEW S, NEW q \in Seq(S), NEW e \in S
    PROVE  /\ <<e>> \o q \in Seq(S) /\ <<e>> \o q # <<>>
           /\ Head(<<e>> \o q) = e /\ Tail(<<e>> \o q) = q
           /\ Range(<<e>> \o q) = {e} \union Range(q)
           /\ \A x \in S : Append(<<e>> \o q, x) = <<e>> \o Append(q, x)
           /\ q = <<>> => <<e>> \o q = <<e>>
  <1> DEFINE p == <<e>> \o q
  <1>1. <<e>> \in Seq(S) /\ Len(<<e>>) = 1 /\ <<e>>[1] = e
    OBVIOUS
  <1>2. /\ p \in Seq(S) /\ Len(p) = Len(q) + 1 /\ p[1] = e
        /\ \A i \in 1..Len(q) : p[i + 1] = q[i]
        /\ Len(q) \in Nat /\ DOMAIN q = 1..Len(q)
        /\ DOMAIN p = 1..(Len(q) + 1)
    <2>1. Len(q) \in Nat /\ DOMAIN q = 1..Len(q)
      BY LenProperties
    <2>2. /\ p \in Seq(S) /\ Len(p) = 1 + Len(q)
          /\ \A i \in 1..(1 + Len(q)) : p[i] = IF i <= 1 THEN <<e>>[i] ELSE q[i - 1]
      BY <1>1, ConcatProperties
    <2>3. DOMAIN p = 1..Len(p)
      BY <2>2, LenProperties
    <2>4. p[1] = e
      BY <1>1, <2>1, <2>2
    <2>5. ASSUME NEW i \in 1..Len(q) PROVE p[i + 1] = q[i]
      BY <2>1, <2>2
    <2>6. QED
      BY <2>1, <2>2, <2>3, <2>4, <2>5
  <1> HIDE DEF p
  <1>3. p # <<>> /\ Head(p) = e
    BY <1>2, EmptySeq
  <1>4. Tail(p) = q
    <2> DEFINE t == Tail(p)
    <2>1. /\ t \in Seq(S) /\ Len(t) = Len(q) /\ \A i \in 1..Len(t) : t[i] = p[i + 1]
      BY <1>2, <1>3, HeadTailProperties
    <2> HIDE DEF t
    <2>2. \A i \in 1..Len(t) : t[i] = q[i]
      BY <1>2, <2>1
    <2>3. t = q
      BY <2>1, <2>2, SeqEqual
    <2>4. QED
      BY <2>3 DEF t
  <1>5. Range(p) = {e} \union Range(q)
    BY <1>3, <1>4, <1>2, GetElement
  <1>6. ASSUME NEW x \in S PROVE Append(p, x) = <<e>> \o Append(q, x)
    <2>1. Append(p, x) = p \o <<x>> /\ Append(q, x) = q \o <<x>> /\ <<x>> \in Seq(S)
      BY <1>2, AppendIsConcat
    <2>2. p \o <<x>> = <<e>> \o (q \o <<x>>)
      BY <1>1, <2>1, ConcatAssociative DEF p
    <2>3. QED
      BY <2>1, <2>2
  <1>7. q = <<>> => p = <<e>>
    BY <1>1, ConcatEmptySeq DEF p
  <1>8. QED
    BY <1>2, <1>3, <1>4, <1>5, <1>6, <1>7 DEF p
================================================================================
