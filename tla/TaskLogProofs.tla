----------------------------- MODULE TaskLogProofs -----------------------------
(***************************************************************************)
(* Proofs about TaskLog, for every length of the log, of a page and of the *)
(* Redis list.                                                             *)
(***************************************************************************)
EXTENDS TaskLog, SequenceTheorems, TLAPS

-----------------------------------------------------------------------------
(* Sequences *)

\* The last line of a page that goes up to line last.
EndOf(log, last) == IF last < Len(log) THEN last ELSE Len(log)

\* The lines that s holds are lines first..last of log, in place.
PageIs(S, log, first, last, s) ==
    /\ s \in Seq(S)
    /\ Len(s) = IF first <= EndOf(log, last) THEN EndOf(log, last) - first + 1 ELSE 0
    /\ \A i \in 1..Len(s) : s[i] = log[first + i - 1]

\* A page of a log: as many lines as there are between its ends, in place.
LEMMA SliceProperties ==
    ASSUME NEW S, NEW log \in Seq(S), NEW first \in Nat \ {0}, NEW last \in Nat
    PROVE  PageIs(S, log, first, last, Slice(log, first, last))
  <1> DEFINE end == EndOf(log, last)
             s   == Slice(log, first, last)
  <1>1. Len(log) \in Nat /\ log \in [1..Len(log) -> S]
    BY LenProperties
  <1>2. end \in Nat /\ end <= Len(log) /\ end <= last
    BY <1>1 DEF EndOf
  <1>3. \A i \in first..end : log[i] \in S
    BY <1>1, <1>2
  <1>4. s = SubSeq(log, first, end)
    BY DEF Slice, EndOf
  <1> HIDE DEF end, s
  <1>5. /\ s \in Seq(S)
        /\ Len(s) = IF first <= end THEN end - first + 1 ELSE 0
        /\ \A i \in 1..(end - first + 1) : s[i] = log[first + i - 1]
    BY <1>2, <1>3, <1>4, SubSeqProperties
  <1>6. \A i \in 1..Len(s) : s[i] = log[first + i - 1]
    BY <1>2, <1>5
  <1>7. QED
    BY <1>5, <1>6 DEF end, s, PageIs

Increasing(s) == \A i, j \in DOMAIN s : i < j => s[i] < s[j]

\* Every element of s is below every element of t.
Below(s, t) == \A i \in DOMAIN s, j \in DOMAIN t : s[i] < t[j]

\* What a reader has seen stays increasing when it is sent later lines.
LEMMA IncreasingConcat ==
    ASSUME NEW s \in Seq(Nat), NEW t \in Seq(Nat), Increasing(s), Increasing(t), Below(s, t)
    PROVE  Increasing(s \o t)
  <1> DEFINE u == s \o t
  <1>1. /\ Len(s) \in Nat /\ DOMAIN s = 1..Len(s)
        /\ Len(t) \in Nat /\ DOMAIN t = 1..Len(t)
    BY LenProperties
  <1>2. /\ u \in Seq(Nat) /\ Len(u) = Len(s) + Len(t)
        /\ \A i \in 1..(Len(s) + Len(t)) : u[i] = IF i <= Len(s) THEN s[i] ELSE t[i - Len(s)]
    BY ConcatProperties
  <1>3. DOMAIN u = 1..(Len(s) + Len(t))
    BY <1>2, LenProperties
  <1> HIDE DEF u
  <1> SUFFICES ASSUME NEW i \in DOMAIN u, NEW j \in DOMAIN u, i < j
               PROVE  u[i] < u[j]
    BY DEF Increasing, u
  <1>4. CASE j <= Len(s)
    BY <1>1, <1>2, <1>3, <1>4 DEF Increasing
  <1>5. CASE i > Len(s)
    <2>1. i \in Nat /\ j \in Nat /\ j > Len(s) /\ j <= Len(s) + Len(t)
      BY <1>1, <1>3, <1>5
    <2>2. i - Len(s) \in DOMAIN t /\ j - Len(s) \in DOMAIN t /\ i - Len(s) < j - Len(s)
      BY <1>1, <1>5, <2>1
    <2>3. u[i] = t[i - Len(s)] /\ u[j] = t[j - Len(s)]
      <3>1. i \in 1..(Len(s) + Len(t)) /\ j \in 1..(Len(s) + Len(t))
        BY <1>3
      <3>2. ~(i <= Len(s)) /\ ~(j <= Len(s))
        BY <1>1, <1>5, <2>1
      <3>3. QED
        BY <1>2, <3>1, <3>2
    <2>4. QED
      BY <2>2, <2>3 DEF Increasing
  <1>6. CASE i <= Len(s) /\ j > Len(s)
    <2>1. i \in DOMAIN s /\ j - Len(s) \in DOMAIN t /\ u[i] = s[i] /\ u[j] = t[j - Len(s)]
      BY <1>1, <1>2, <1>3, <1>6
    <2>2. QED
      BY <2>1 DEF Below
  <1>7. QED
    BY <1>1, <1>3, <1>4, <1>5, <1>6

-----------------------------------------------------------------------------
(* The inductive invariant *)

\* The lines a task may write.
Numbers == 1..MaxLines

\* Sequences of lines, as the proofs use them.
LEMMA LinesAreNumbers ==
    ASSUME NEW s \in Seq(Numbers)
    PROVE  /\ Len(s) \in Nat /\ DOMAIN s = 1..Len(s)
           /\ \A n \in DOMAIN s : s[n] \in Numbers /\ s[n] \in Nat
           /\ s \in Seq(Nat)
  <1>1. Len(s) \in Nat /\ DOMAIN s = 1..Len(s) /\ s \in [1..Len(s) -> Numbers]
    BY LenProperties
  <1>2. Numbers \subseteq Nat
    BY DEF Numbers
  <1>3. s \in Seq(Nat)
    BY <1>2, SeqMonotonic
  <1>4. QED
    BY <1>1, <1>2, <1>3

\* Whether a push takes the first record off.
Gone == IF Len(list) = Kept THEN 1 ELSE 0

\* What a push and a trim leave of the list: the last Kept records.
LEMMA TrimmedAppend ==
    ASSUME list \in Seq(Numbers), Len(list) <= Kept, NEW e \in Numbers,
           NEW p, p = Trimmed(Append(list, e))
    PROVE  /\ p \in Seq(Numbers)
           /\ Len(p) \in Nat /\ Len(p) = Len(list) + 1 - Gone
           /\ Len(p) <= Kept
           /\ p[Len(p)] = e
           /\ \A n \in 1..Len(p) :
                 n # Len(p) => n + Gone \in 1..Len(list) /\ p[n] = list[n + Gone]
  <1> DEFINE a == Append(list, e)
  <1>1. Kept \in Nat \ {0} /\ Len(list) \in Nat
    BY ConstantsAssumption, LenProperties
  <1>2. /\ a \in Seq(Numbers) /\ a # <<>> /\ Len(a) = Len(list) + 1
        /\ \A i \in 1..Len(list) : a[i] = list[i]
        /\ a[Len(list) + 1] = e
    BY AppendProperties
  <1>3. p = Trimmed(a)
    OBVIOUS
  <1> HIDE DEF a
  <1>4. /\ Tail(a) \in Seq(Numbers) /\ Len(Tail(a)) = Len(a) - 1
        /\ \A i \in 1..Len(Tail(a)) : Tail(a)[i] = a[i + 1]
    BY <1>2, HeadTailProperties
  <1>5. CASE Len(list) = Kept
    <2>1. p = Tail(a) /\ Gone = 1
      BY <1>1, <1>2, <1>3, <1>5 DEF Trimmed, Gone
    <2>2. Len(p) = Len(list) /\ \A i \in 1..Len(list) : p[i] = a[i + 1]
      BY <1>1, <1>2, <1>4, <2>1
    <2>3. p[Len(p)] = e
      BY <1>1, <1>2, <1>5, <2>2
    <2>4. ASSUME NEW n \in 1..Len(p), n # Len(p)
          PROVE  n + 1 \in 1..Len(list) /\ p[n] = list[n + 1]
      BY <1>1, <1>2, <2>2, <2>4
    <2>5. p \in Seq(Numbers) /\ Len(p) \in Nat /\ Len(p) <= Kept
      BY <1>1, <1>4, <1>5, <2>1, <2>2
    <2>6. Len(p) = Len(list) + 1 - Gone
      BY <1>1, <2>1, <2>2
    <2>7. \A n \in 1..Len(p) :
             n # Len(p) => n + Gone \in 1..Len(list) /\ p[n] = list[n + Gone]
      BY <2>1, <2>4
    <2>8. QED
      BY <2>3, <2>5, <2>6, <2>7
  <1>6. CASE Len(list) # Kept
    <2>1. p = a /\ Gone = 0
      BY <1>1, <1>2, <1>3, <1>6 DEF Trimmed, Gone
    <2>2. ASSUME NEW n \in 1..Len(p), n # Len(p)
          PROVE  n + 0 \in 1..Len(list) /\ p[n] = list[n + 0]
      BY <1>1, <1>2, <2>1, <2>2
    <2>3. QED
      BY <1>1, <1>2, <1>6, <2>1, <2>2
  <1>7. QED
    BY <1>5, <1>6

\* The reader of the file has been sent lines before the one it asks for next.
DiskOrder ==
    /\ Increasing(shown["disk"])
    /\ \A i \in DOMAIN shown["disk"] : shown["disk"][i] < from["disk"]

\* The Redis list holds lines in their order, and the places its reader still
\* asks for hold lines after those it has been sent: trimming moves lines to
\* earlier places only.
RedisOrder ==
    /\ Increasing(list)
    /\ \A n \in DOMAIN list : list[n] <= lines
    /\ Increasing(shown["redis"])
    /\ \A i \in DOMAIN shown["redis"] :
          /\ shown["redis"][i] <= lines
          /\ \A n \in DOMAIN list : n >= from["redis"] => shown["redis"][i] < list[n]

\* The backend of b holds the whole log, and its reader has only asked since the
\* task was over.
Whole(b) == b \notin early \union damaged /\ (b = "redis" => lines <= Kept)

\* Such a reader has been sent every line before the one it asks for next.
WholeSoFar ==
    /\ ~finished => \A b \in Backends \ early :
                        from[b] = 1 /\ shown[b] = <<>> /\ ~ended[b]
    /\ ~finished /\ "redis" \notin early => llen = NotAsked
    /\ "redis" \notin damaged /\ lines <= Kept => Len(list) = lines
    /\ Whole("redis") => llen \in {NotAsked, lines}
    /\ \A b \in Backends : Whole(b) =>
          /\ Len(shown[b]) = IF from[b] <= lines THEN from[b] - 1 ELSE lines
          /\ ended[b] => lines < from[b]

TaskLogInv ==
    /\ TypeOK
    /\ DiskOrder
    /\ RedisOrder
    /\ DiskSkipsOnePerEmptyAnswer
    /\ WholeSoFar

-----------------------------------------------------------------------------
\* Nothing is written and nothing is sent.
LEMMA TaskLogInit == Init => TaskLogInv
  <1> SUFFICES ASSUME Init PROVE TaskLogInv
    OBVIOUS
  <1>1. MaxLines \in Nat /\ Kept \in Nat
    BY ConstantsAssumption
  <1>2. /\ <<>> \in Seq(1..MaxLines) /\ Len(<<>>) = 0 /\ DOMAIN <<>> = {}
    BY EmptySeq
  <1>3. TypeOK
    <2>1. lines \in 0..MaxLines /\ llen \in {NotAsked} \union 0..Kept
      BY <1>1 DEF Init
    <2>2. list \in Seq(1..MaxLines) /\ Len(list) <= Kept
      BY <1>1, <1>2 DEF Init
    <2>3. /\ from \in [Backends -> Nat \ {0}]
          /\ shown \in [Backends -> Seq(1..MaxLines)]
          /\ ended \in [Backends -> BOOLEAN]
          /\ vain \in [Backends -> Nat]
      BY <1>2 DEF Init
    <2>4. QED
      BY <2>1, <2>2, <2>3 DEF Init, TypeOK
  <1>4. DiskOrder /\ RedisOrder /\ DiskSkipsOnePerEmptyAnswer
    BY <1>2 DEF Init, DiskOrder, RedisOrder, Increasing, DiskSkipsOnePerEmptyAnswer, Backends
  <1>5. WholeSoFar
    BY <1>2 DEF Init, WholeSoFar, Whole, Backends, NotAsked
  <1>6. QED
    BY <1>3, <1>4, <1>5 DEF TaskLogInv

-----------------------------------------------------------------------------
(* The task, the retention, the cleaning loop *)

\* A record goes behind all others, on both backends.
LEMMA WriteKeeps ==
    ASSUME TaskLogInv, Write
    PROVE  TaskLogInv'
  <1> USE DEF TaskLogInv
  <1>1. /\ ~finished /\ lines < MaxLines /\ lines' = lines + 1 /\ old' = FALSE
        /\ UNCHANGED <<finished, cleaner, llen, from, shown, ended, vain, early>>
        /\ \/ list' = Trimmed(Append(list, lines + 1)) /\ UNCHANGED damaged
           \/ UNCHANGED list /\ damaged' = damaged \union {"redis"}
    BY DEF Write, readerVars
  <1>a. list \in Seq(Numbers) /\ shown["redis"] \in Seq(Numbers) /\ lines + 1 \in Numbers
    BY <1>1, ConstantsAssumption DEF TypeOK, Numbers, Backends
  <1>2. /\ MaxLines \in Nat /\ Kept \in Nat \ {0} /\ lines \in 0..MaxLines
        /\ Len(list) <= Kept /\ Len(list) \in Nat
        /\ DOMAIN list = 1..Len(list)
        /\ \A n \in DOMAIN list : list[n] \in Nat
    BY <1>a, ConstantsAssumption, LinesAreNumbers DEF TypeOK
  <1> DEFINE Trims == list' = Trimmed(Append(list, lines + 1))
  <1>b. Gone \in {0, 1}
    BY DEF Gone
  <1>3. ASSUME Trims
        PROVE  /\ list' \in Seq(Numbers) /\ Len(list') <= Kept
               /\ Len(list') \in Nat /\ Len(list') = Len(list) + 1 - Gone
               /\ DOMAIN list' = 1..Len(list')
               /\ \A n \in DOMAIN list' :
                     IF n = Len(list') THEN list'[n] = lines + 1
                     ELSE n + Gone \in DOMAIN list /\ list'[n] = list[n + Gone]
    <2>1. /\ list' \in Seq(Numbers) /\ Len(list') <= Kept
          /\ Len(list') \in Nat /\ Len(list') = Len(list) + 1 - Gone
          /\ list'[Len(list')] = lines + 1
          /\ \A n \in 1..Len(list') : n # Len(list') =>
                n + Gone \in 1..Len(list) /\ list'[n] = list[n + Gone]
      BY <1>a, <1>2, <1>3, TrimmedAppend
    <2>2. DOMAIN list' = 1..Len(list')
      BY <2>1, LinesAreNumbers
    <2>3. QED
      BY <1>2, <2>1, <2>2
  <1>4. list' \in Seq(1..MaxLines) /\ Len(list') <= Kept /\ damaged' \subseteq Backends
    BY <1>1, <1>2, <1>3 DEF TypeOK, Backends, Numbers
  <1>5. TypeOK'
    <2>1. lines' \in 0..MaxLines
      BY <1>1, <1>2
    <2>2. old' \in BOOLEAN /\ finished' \in BOOLEAN
      BY <1>1 DEF TypeOK
    <2>3. QED
      BY <1>1, <1>4, <2>1, <2>2 DEF TypeOK
  <1>6. DiskOrder' /\ DiskSkipsOnePerEmptyAnswer'
    BY <1>1 DEF DiskOrder, Increasing, DiskSkipsOnePerEmptyAnswer
  <1> DEFINE seen == shown["redis"]
  <1>7. /\ \A i \in DOMAIN seen : seen[i] \in Nat
        /\ from["redis"] \in Nat
    BY <1>a, LinesAreNumbers DEF TypeOK, Backends
  <1>8. RedisOrder'
    <2>1. CASE Trims
      <3>1. Increasing(list')
        <4> SUFFICES ASSUME NEW i \in DOMAIN list', NEW j \in DOMAIN list', i < j
                     PROVE  list'[i] < list'[j]
          BY DEF Increasing
        <4>1. i # Len(list') /\ i \in Nat /\ j \in Nat
          BY <1>3, <2>1
        <4>2. i + Gone \in DOMAIN list /\ list'[i] = list[i + Gone]
          BY <1>3, <2>1, <4>1
        <4>3. CASE j = Len(list')
          BY <1>2, <1>3, <2>1, <4>2, <4>3 DEF RedisOrder
        <4>4. CASE j # Len(list')
          <5>1. j + Gone \in DOMAIN list /\ list'[j] = list[j + Gone] /\ i + Gone < j + Gone
            BY <1>b, <1>3, <2>1, <4>1, <4>4
          <5>2. QED
            BY <4>2, <5>1 DEF RedisOrder, Increasing
        <4>5. QED
          BY <4>3, <4>4
      <3>2. \A n \in DOMAIN list' : list'[n] <= lines + 1
        BY <1>2, <1>3, <2>1 DEF RedisOrder
      <3>3. \A i \in DOMAIN seen : seen[i] <= lines + 1
        BY <1>2, <1>7 DEF RedisOrder
      <3>4. ASSUME NEW i \in DOMAIN seen, NEW n \in DOMAIN list', n >= from["redis"]
            PROVE  seen[i] < list'[n]
        <4>1. CASE n = Len(list')
          BY <1>2, <1>3, <1>7, <2>1, <4>1 DEF RedisOrder
        <4>2. CASE n # Len(list')
          <5>1. n + Gone \in DOMAIN list /\ list'[n] = list[n + Gone] /\ n + Gone >= from["redis"]
            BY <1>b, <1>3, <1>7, <2>1, <3>4, <4>2
          <5>2. QED
            BY <5>1 DEF RedisOrder
        <4>3. QED
          BY <4>1, <4>2
      <3>5. QED
        BY <1>1, <3>1, <3>2, <3>3, <3>4 DEF RedisOrder
    <2>2. CASE UNCHANGED list
      <3>1. \A n \in DOMAIN list : list[n] <= lines + 1
        BY <1>2 DEF RedisOrder
      <3>2. \A i \in DOMAIN seen : seen[i] <= lines + 1
        BY <1>2, <1>7 DEF RedisOrder
      <3>3. QED
        BY <1>1, <2>2, <3>1, <3>2 DEF RedisOrder, Increasing
    <2>3. QED
      BY <1>1, <2>1, <2>2
  <1>9. WholeSoFar'
    <2>1. ASSUME "redis" \notin damaged', lines' <= Kept PROVE Len(list') = lines'
      <3>1. Trims /\ "redis" \notin damaged /\ lines < Kept
        BY <1>1, <1>2, <2>1
      <3>2. Len(list) = lines /\ Len(list) # Kept
        <4>1. "redis" \notin damaged /\ lines <= Kept /\ lines # Kept
          BY <1>2, <3>1
        <4>2. QED
          BY <4>1 DEF WholeSoFar
      <3>a. Gone = 0
        BY <3>2 DEF Gone
      <3>3. QED
        BY <1>1, <1>2, <1>3, <3>1, <3>2, <3>a
    <2>2. \A b \in Backends \ early : from[b] = 1 /\ Len(shown[b]) = 0 /\ ~ended[b]
      BY <1>1, EmptySeq DEF WholeSoFar
    <2>3. \A b \in Backends : Whole(b)' => b \notin early
      BY <1>1 DEF Whole
    <2>4. Whole("redis")' => llen' \in {NotAsked, lines'}
      BY <1>1, <2>3 DEF WholeSoFar, Backends
    <2>5. \A b \in Backends : Whole(b)' =>
             /\ Len(shown'[b]) = IF from'[b] <= lines' THEN from'[b] - 1 ELSE lines'
             /\ ended'[b] => lines' < from'[b]
      BY <1>1, <1>2, <2>2, <2>3
    <2>6. QED
      BY <1>1, <2>1, <2>4, <2>5 DEF WholeSoFar
  <1>10. QED
    BY <1>5, <1>6, <1>8, <1>9

\* The end of the task, and what time and the cleaning loop do, leave the
\* readers and the order of the lines alone.
LEMMA QuietKeeps ==
    ASSUME TaskLogInv,
           TaskEnds \/ RetentionPasses \/ RedisExpires \/ ScanExpired \/ UnlinkExpired
                    \/ UNCHANGED vars
    PROVE  TaskLogInv'
  <1> USE DEF TaskLogInv
  <1>1. /\ UNCHANGED <<lines, llen, from, shown, ended, vain, early>>
        /\ finished' = finished \/ finished' = TRUE
        /\ damaged \subseteq damaged' /\ damaged' \subseteq damaged \union Backends
        /\ UNCHANGED list \/ (list' = <<>> /\ "redis" \in damaged')
    BY DEF TaskEnds, RetentionPasses, RedisExpires, ScanExpired, UnlinkExpired, vars, logVars,
           readerVars, Backends
  <1>a. finished' \in BOOLEAN /\ old' \in BOOLEAN
    BY DEF TaskEnds, RetentionPasses, RedisExpires, ScanExpired, UnlinkExpired, vars, logVars,
           TypeOK
  <1>2. cleaner' \in {"asleep", "holding", "died"}
    BY DEF TaskEnds, RetentionPasses, RedisExpires, ScanExpired, UnlinkExpired, vars, logVars,
           TypeOK
  <1>3. list' \in Seq(1..MaxLines) /\ Len(list') <= Kept
    <2>1. Kept \in Nat
      BY ConstantsAssumption
    <2>2. <<>> \in Seq(1..MaxLines) /\ Len(<<>>) = 0
      BY EmptySeq
    <2>3. CASE list' = <<>>
      BY <2>1, <2>2, <2>3
    <2>4. CASE UNCHANGED list
      BY <2>4 DEF TypeOK
    <2>5. QED
      BY <1>1, <2>3, <2>4
  <1>4. TypeOK'
    BY <1>1, <1>a, <1>2, <1>3 DEF TypeOK
  <1>5. DiskOrder' /\ DiskSkipsOnePerEmptyAnswer'
    BY <1>1 DEF DiskOrder, Increasing, DiskSkipsOnePerEmptyAnswer
  <1>6. RedisOrder'
    <2>1. UNCHANGED list \/ DOMAIN list' = {}
      BY <1>1, EmptySeq
    <2>2. QED
      BY <1>1, <2>1 DEF RedisOrder, Increasing
  <1>7. WholeSoFar'
    BY <1>1 DEF WholeSoFar, Whole
  <1>8. QED
    BY <1>4, <1>5, <1>6, <1>7

-----------------------------------------------------------------------------
(* The readers *)

\* What an answer changes: the reader of b has the lines sent behind those it
\* had, and goes on behind toLineNum; the other reader is left alone.
LEMMA AnswerChanges ==
    ASSUME TypeOK, NEW b \in Backends, NEW sent \in Seq(Numbers), NEW to \in Nat,
           NEW isEnd \in BOOLEAN, Answer(b, sent, to, isEnd)
    PROVE  /\ from' \in [Backends -> Nat \ {0}] /\ from'[b] = to + 1
           /\ shown' \in [Backends -> Seq(1..MaxLines)] /\ shown'[b] = shown[b] \o sent
           /\ ended' \in [Backends -> BOOLEAN] /\ ended'[b] = isEnd
           /\ vain' \in [Backends -> Nat]
           /\ vain'[b] = vain[b] + (IF sent = <<>> THEN 1 ELSE 0)
           /\ \A c \in Backends \ {b} :
                 /\ from'[c] = from[c] /\ shown'[c] = shown[c]
                 /\ ended'[c] = ended[c] /\ vain'[c] = vain[c]
  <1>1. /\ from \in [Backends -> Nat \ {0}] /\ shown \in [Backends -> Seq(Numbers)]
        /\ ended \in [Backends -> BOOLEAN] /\ vain \in [Backends -> Nat]
    BY DEF TypeOK, Numbers
  <1>2. /\ from' = [from EXCEPT ![b] = to + 1]
        /\ shown' = [shown EXCEPT ![b] = shown[b] \o sent]
        /\ ended' = [ended EXCEPT ![b] = isEnd]
        /\ vain' = [vain EXCEPT ![b] = IF sent = <<>> THEN vain[b] + 1 ELSE vain[b]]
    BY DEF Answer
  <1>3. shown[b] \o sent \in Seq(Numbers)
    BY <1>1, ConcatProperties
  <1>4. from' \in [Backends -> Nat \ {0}] /\ from'[b] = to + 1
    BY <1>1, <1>2
  <1>5. shown' \in [Backends -> Seq(Numbers)] /\ shown'[b] = shown[b] \o sent
    BY <1>1, <1>2, <1>3
  <1>6. ended' \in [Backends -> BOOLEAN] /\ ended'[b] = isEnd
    BY <1>1, <1>2
  <1>7. /\ vain' \in [Backends -> Nat]
        /\ vain'[b] = vain[b] + (IF sent = <<>> THEN 1 ELSE 0)
    BY <1>1, <1>2
  <1>8. \A c \in Backends \ {b} :
           /\ from'[c] = from[c] /\ shown'[c] = shown[c]
           /\ ended'[c] = ended[c] /\ vain'[c] = vain[c]
    BY <1>1, <1>2
  <1>9. QED
    BY <1>4, <1>5, <1>6, <1>7, <1>8 DEF Numbers

\* The file of a task holds the numbers of its lines.
LEMMA FileIsSeq ==
    ASSUME TypeOK, NEW size \in 0..lines
    PROVE  LET file == [n \in 1..size |-> n] IN
           file \in Seq(Numbers) /\ Len(file) = size /\ \A n \in 1..size : file[n] = n
  <1> DEFINE file == [n \in 1..size |-> n]
  <1>1. MaxLines \in Nat /\ lines \in 0..MaxLines /\ size \in Nat
    BY ConstantsAssumption DEF TypeOK
  <1>2. file \in [1..size -> Numbers]
    BY <1>1 DEF Numbers
  <1>3. file \in Seq(Numbers)
    BY <1>1, <1>2, SeqDef
  <1>4. QED
    BY <1>1, <1>2, <1>3, LenProperties

\* The page of a log that counts its lines from 1: consecutive numbers.
LEMMA DiskPage ==
    ASSUME TypeOK, NEW size \in 0..lines,
           NEW file \in Seq(Numbers), Len(file) = size, \A n \in 1..size : file[n] = n,
           NEW sent, sent = Slice(file, from["disk"], PageEnd("disk"))
    PROVE  LET f == from["disk"]
               end == IF PageEnd("disk") < size THEN PageEnd("disk") ELSE size
           IN  /\ f \in Nat \ {0} /\ PageEnd("disk") \in Nat /\ f <= PageEnd("disk")
               /\ sent \in Seq(Numbers) /\ Len(sent) \in Nat
               /\ Len(sent) = IF f <= end THEN end - f + 1 ELSE 0
               /\ \A i \in 1..Len(sent) : sent[i] = f + i - 1
               /\ DiskToLine(sent) \in Nat
               /\ DiskToLine(sent) = IF f <= end THEN end ELSE f
               /\ sent = <<>> <=> Len(sent) = 0
  <1> DEFINE f == from["disk"]
             pe == PageEnd("disk")
             end == IF pe < size THEN pe ELSE size
  <1>1. /\ MaxLines \in Nat /\ Page \in Nat \ {0} /\ lines \in 0..MaxLines
        /\ f \in Nat \ {0} /\ size \in Nat
    BY ConstantsAssumption DEF TypeOK, Backends
  <1>2. pe \in Nat /\ f <= pe
    BY <1>1 DEF PageEnd
  <1> HIDE DEF f, pe
  <1>4. sent = Slice(file, f, pe)
    BY DEF f, pe
  <1>5. /\ sent \in Seq(Numbers)
        /\ Len(sent) = IF f <= end THEN end - f + 1 ELSE 0
        /\ \A i \in 1..Len(sent) : sent[i] = file[f + i - 1]
    <2>1. end = EndOf(file, pe)
      BY DEF EndOf
    <2> HIDE DEF end
    <2>2. f \in Nat \ {0} /\ pe \in Nat /\ file \in Seq(Numbers)
      BY <1>1, <1>2
    <2>3. PageIs(Numbers, file, f, pe, Slice(file, f, pe))
      BY ONLY <2>2, SliceProperties
    <2>4. PageIs(Numbers, file, f, pe, sent)
      BY <1>4, <2>3
    <2>5. QED
      BY ONLY <2>1, <2>4 DEF PageIs
  <1>6. end \in Nat /\ end <= size /\ end <= pe
    BY <1>1, <1>2
  <1>7. Len(sent) \in Nat /\ (sent = <<>> <=> Len(sent) = 0)
    BY <1>5, EmptySeq, LenProperties
  <1> HIDE DEF end
  <1>8. \A i \in 1..Len(sent) : sent[i] = f + i - 1
    <2> SUFFICES ASSUME NEW i \in 1..Len(sent) PROVE sent[i] = f + i - 1
      OBVIOUS
    <2>1. f <= end /\ f + i - 1 \in 1..size
      BY <1>1, <1>5, <1>6
    <2>2. QED
      BY <1>5, <2>1
  <1>9. DiskToLine(sent) = IF f <= end THEN end ELSE f
    <2>1. CASE f <= end
      <3>1. Len(sent) = end - f + 1 /\ sent # <<>> /\ Len(sent) \in 1..Len(sent)
        BY <1>1, <1>5, <1>6, <1>7, <2>1
      <3>2. sent[Len(sent)] = end
        <4>1. sent[Len(sent)] = f + Len(sent) - 1
          BY <1>8, <3>1
        <4>2. QED
          BY <1>1, <1>6, <3>1, <4>1
      <3>3. QED
        BY <2>1, <3>1, <3>2 DEF DiskToLine, Last
    <2>2. CASE ~(f <= end)
      BY <1>5, <1>7, <2>2 DEF DiskToLine, f
    <2>3. QED
      BY <2>1, <2>2
  <1>10. QED
    BY <1>1, <1>2, <1>5, <1>6, <1>7, <1>8, <1>9 DEF f, pe, end

\* The disk reader gets the lines from the one it asks for on, and goes on
\* behind the last of them; without any it passes over one line.
LEMMA DiskAnswersKeeps ==
    ASSUME TaskLogInv, DiskAnswers
    PROVE  TaskLogInv'
  <1> USE DEF TaskLogInv
  <1> DEFINE size == IF FileExists THEN lines ELSE 0
             file == [n \in 1..size |-> n]
             sent == Slice(file, from["disk"], PageEnd("disk"))
             pe   == PageEnd("disk")
             f    == from["disk"]
             end  == IF pe < size THEN pe ELSE size
             seen == shown["disk"]
  <1>1. /\ Requested("disk") /\ UNCHANGED <<logVars, llen, damaged>>
        /\ Answer("disk", sent, DiskToLine(sent), FileExists /\ lines < pe)
    BY DEF DiskAnswers
  <1>2. lines \in Nat /\ size \in 0..lines /\ "disk" \in Backends /\ size \in Nat
    BY ConstantsAssumption DEF TypeOK, Backends
  <1>3. file \in Seq(Numbers) /\ Len(file) = size /\ \A n \in 1..size : file[n] = n
    <2> HIDE DEF size
    <2>1. QED
      BY <1>2, FileIsSeq
  <1>4. /\ f \in Nat \ {0} /\ pe \in Nat /\ f <= pe
        /\ sent \in Seq(Numbers) /\ Len(sent) \in Nat
        /\ Len(sent) = IF f <= end THEN end - f + 1 ELSE 0
        /\ \A i \in 1..Len(sent) : sent[i] = f + i - 1
        /\ DiskToLine(sent) \in Nat
        /\ DiskToLine(sent) = IF f <= end THEN end ELSE f
        /\ sent = <<>> <=> Len(sent) = 0
    <2> HIDE DEF size, file
    <2> DEFINE s == sent
    <2>1. s = Slice(file, from["disk"], PageEnd("disk"))
      OBVIOUS
    <2> HIDE DEF s
    <2>2. LET e == IF PageEnd("disk") < size THEN PageEnd("disk") ELSE size
          IN  /\ from["disk"] \in Nat \ {0} /\ PageEnd("disk") \in Nat
              /\ from["disk"] <= PageEnd("disk")
              /\ s \in Seq(Numbers) /\ Len(s) \in Nat
              /\ Len(s) = IF from["disk"] <= e THEN e - from["disk"] + 1 ELSE 0
              /\ \A i \in 1..Len(s) : s[i] = from["disk"] + i - 1
              /\ DiskToLine(s) \in Nat
              /\ DiskToLine(s) = IF from["disk"] <= e THEN e ELSE from["disk"]
              /\ s = <<>> <=> Len(s) = 0
      BY <1>2, <1>3, <2>1, DiskPage
    <2>3. QED
      BY <2>2 DEF s
  <1>5. end \in Nat /\ end <= lines /\ end <= size /\ end <= pe
    BY <1>2, <1>4
  <1> DEFINE to == DiskToLine(sent)
             isEnd == FileExists /\ lines < pe
  <1>6. isEnd \in BOOLEAN
    OBVIOUS
  <1> HIDE DEF size, file, end, isEnd, pe, f
  <1>7. /\ from' \in [Backends -> Nat \ {0}] /\ from'["disk"] = to + 1
        /\ shown' \in [Backends -> Seq(1..MaxLines)] /\ shown'["disk"] = seen \o sent
        /\ ended' \in [Backends -> BOOLEAN] /\ ended'["disk"] = isEnd
        /\ vain' \in [Backends -> Nat]
        /\ vain'["disk"] = vain["disk"] + (IF sent = <<>> THEN 1 ELSE 0)
        /\ \A c \in Backends \ {"disk"} :
              /\ from'[c] = from[c] /\ shown'[c] = shown[c]
              /\ ended'[c] = ended[c] /\ vain'[c] = vain[c]
    BY <1>1, <1>2, <1>4, <1>6, AnswerChanges DEF isEnd, pe
  <1> HIDE DEF sent, to
  <1>8. TypeOK'
    <2>1. early' \subseteq Backends
      BY <1>1 DEF Requested, TypeOK, Backends
    <2>2. lines' = lines /\ finished' = finished /\ list' = list /\ old' = old
          /\ cleaner' = cleaner /\ llen' = llen /\ damaged' = damaged
      BY <1>1 DEF logVars
    <2>3. QED
      BY <1>7, <2>1, <2>2 DEF TypeOK
  <1>9. to \in Nat /\ to = (IF f <= end THEN end ELSE f)
    BY <1>4 DEF to
  <1>10. seen \in Seq(Numbers) /\ vain["disk"] \in Nat
    BY <1>2 DEF TypeOK, Numbers
  <1>11. /\ Len(seen) \in Nat /\ DOMAIN seen = 1..Len(seen) /\ seen \in Seq(Nat)
         /\ \A n \in DOMAIN seen : seen[n] \in Nat
         /\ DOMAIN sent = 1..Len(sent) /\ sent \in Seq(Nat)
    BY <1>4, <1>10, LinesAreNumbers
  <1>12. Len(shown'["disk"]) = Len(seen) + Len(sent)
    BY <1>7, <1>11, ConcatProperties
  <1>13. DiskOrder'
    <2>1. Increasing(sent)
      BY <1>4, <1>11 DEF Increasing
    <2>2. Below(seen, sent)
      <3> SUFFICES ASSUME NEW i \in DOMAIN seen, NEW j \in DOMAIN sent
                   PROVE  seen[i] < sent[j]
        BY DEF Below
      <3>1. seen[i] \in Nat /\ seen[i] < f
        BY <1>11 DEF DiskOrder, f
      <3>2. j \in Nat \ {0} /\ sent[j] = f + j - 1
        BY <1>4, <1>11
      <3>3. QED
        BY <1>4, <3>1, <3>2
    <2>3. Increasing(seen \o sent)
      BY <1>11, <2>1, <2>2, IncreasingConcat DEF DiskOrder
    <2>4. ASSUME NEW i \in DOMAIN shown'["disk"]
          PROVE  shown'["disk"][i] < to + 1
      <3> DEFINE both == seen \o sent
      <3>1. /\ both \in Seq(Nat) /\ DOMAIN both = 1..(Len(seen) + Len(sent))
            /\ \A n \in 1..(Len(seen) + Len(sent)) :
                  both[n] = IF n <= Len(seen) THEN seen[n] ELSE sent[n - Len(seen)]
        BY <1>11, ConcatProperties, LenProperties
      <3>2. i \in 1..(Len(seen) + Len(sent))
            /\ shown'["disk"][i] = IF i <= Len(seen) THEN seen[i] ELSE sent[i - Len(seen)]
        BY <1>7, <2>4, <3>1
      <3>3. CASE i <= Len(seen)
        <4>1. i \in DOMAIN seen
          BY <1>11, <3>2, <3>3
        <4>2. seen[i] \in Nat /\ seen[i] < f
          BY <1>11, <4>1 DEF DiskOrder, f
        <4>3. QED
          BY <1>4, <1>5, <1>9, <3>2, <3>3, <4>2
      <3>4. CASE ~(i <= Len(seen))
        <4>a. i - Len(seen) \in 1..Len(sent)
          BY <1>4, <1>11, <3>2, <3>4
        <4>b. Len(sent) # 0
          BY <1>4, <4>a
        <4>1. i - Len(seen) \in 1..Len(sent) /\ f <= end
          BY <1>4, <4>a, <4>b
        <4>2. sent[i - Len(seen)] = f + (i - Len(seen)) - 1
          BY <1>4, <4>1
        <4>3. i - Len(seen) <= end - f + 1 /\ i - Len(seen) \in Nat
          BY <1>4, <1>5, <4>1
        <4>4. QED
          BY <1>4, <1>5, <1>9, <3>2, <3>4, <4>1, <4>2, <4>3
      <3>5. QED
        BY <3>3, <3>4
    <2>5. QED
      BY <1>7, <2>3, <2>4 DEF DiskOrder
  <1>14. f - 1 = Len(seen) + vain["disk"]
    BY DEF DiskSkipsOnePerEmptyAnswer, f
  <1>15. DiskSkipsOnePerEmptyAnswer'
    <2>1. to = Len(shown'["disk"]) + vain'["disk"]
      <3> DEFINE had == Len(seen)
                 missed == vain["disk"]
      <3>a. had \in Nat /\ missed \in Nat /\ f \in Nat /\ f - 1 = had + missed
        BY <1>4, <1>10, <1>11, <1>14
      <3>b. Len(shown'["disk"]) = had + Len(sent)
        BY <1>12
      <3> HIDE DEF had, missed
      <3>1. CASE f <= end
        <4>1. Len(sent) = end - f + 1 /\ to = end /\ sent # <<>>
          BY <1>4, <1>5, <1>9, <3>1
        <4>2. vain'["disk"] = missed
          BY <1>7, <3>a, <4>1 DEF missed
        <4>3. to = had + Len(sent) + missed
          BY <1>5, <3>a, <4>1
        <4>4. QED
          BY <3>b, <4>2, <4>3
      <3>2. CASE ~(f <= end)
        <4>1. Len(sent) = 0 /\ to = f /\ sent = <<>>
          BY <1>4, <1>9, <3>2
        <4>2. vain'["disk"] = missed + 1
          BY <1>7, <4>1 DEF missed
        <4>3. to = had + Len(sent) + (missed + 1)
          BY <3>a, <4>1
        <4>4. QED
          BY <3>b, <4>2, <4>3
      <3>3. QED
        BY <3>1, <3>2
    <2>2. to + 1 - 1 = to
      BY <1>9
    <2>3. QED
      BY <1>7, <2>1, <2>2 DEF DiskSkipsOnePerEmptyAnswer
  <1>16. /\ UNCHANGED <<lines, list, llen, damaged, finished>>
         /\ from'["redis"] = from["redis"] /\ shown'["redis"] = shown["redis"]
         /\ ended'["redis"] = ended["redis"]
         /\ early \subseteq early' /\ (~finished => "disk" \in early')
         /\ (finished => early' = early) /\ ("redis" \in early' => "redis" \in early)
    BY <1>1, <1>7 DEF logVars, Requested, Backends
  <1>17. RedisOrder'
    BY <1>16 DEF RedisOrder, Increasing
  <1>18. WholeSoFar'
    <2>1. ~finished' => \A b \in Backends \ early' :
                            from'[b] = 1 /\ shown'[b] = <<>> /\ ~ended'[b]
      BY <1>16 DEF WholeSoFar, Backends
    <2>2. Whole("redis")' => Whole("redis")
      BY <1>16 DEF Whole
    <2>3. ASSUME Whole("disk")'
          PROVE  /\ Len(shown'["disk"]) = IF to + 1 <= lines THEN to ELSE lines
                 /\ isEnd => lines < to + 1
      <3>1. Whole("disk") /\ finished /\ "disk" \notin damaged
        BY <1>16, <2>3 DEF Whole
      <3>2. Len(seen) = IF f <= lines THEN f - 1 ELSE lines
        BY <1>2, <3>1 DEF WholeSoFar, f
      <3>3. size = lines
        BY <1>2, <3>1 DEF size, FileExists
      <3>4. end = IF pe < lines THEN pe ELSE lines
        BY <3>3 DEF end
      <3>5. isEnd => lines < pe
        BY DEF isEnd
      <3>6. CASE f <= end
        BY <1>2, <1>4, <1>5, <1>9, <1>11, <1>12, <3>2, <3>4, <3>5, <3>6
      <3>7. CASE ~(f <= end)
        BY <1>2, <1>4, <1>5, <1>9, <1>11, <1>12, <3>2, <3>4, <3>5, <3>7
      <3>8. QED
        BY <3>6, <3>7
    <2>4. to + 1 - 1 = to
      BY <1>9
    <2>5. Whole("disk")' =>
             /\ Len(shown'["disk"]) = IF from'["disk"] <= lines' THEN from'["disk"] - 1 ELSE lines'
             /\ ended'["disk"] => lines' < from'["disk"]
      BY <1>7, <1>16, <2>3, <2>4
    <2>6. Whole("redis")' =>
             /\ Len(shown'["redis"]) = IF from'["redis"] <= lines' THEN from'["redis"] - 1
                                       ELSE lines'
             /\ ended'["redis"] => lines' < from'["redis"]
      BY <1>16, <2>2 DEF WholeSoFar, Backends
    <2>7. /\ (~finished' /\ "redis" \notin early' => llen' = NotAsked)
          /\ ("redis" \notin damaged' /\ lines' <= Kept => Len(list') = lines')
          /\ (Whole("redis")' => llen' \in {NotAsked, lines'})
      BY <1>16, <2>2 DEF WholeSoFar
    <2>8. QED
      BY <2>1, <2>5, <2>6, <2>7 DEF WholeSoFar, Backends
  <1>19. QED
    BY <1>8, <1>13, <1>15, <1>17, <1>18

\* LLEN sees the length of the list, or the call fails and the reader moves on.
LEMMA RedisCountsKeeps ==
    ASSUME TaskLogInv, RedisCounts
    PROVE  TaskLogInv'
  <1> USE DEF TaskLogInv
  <1>1. /\ llen = NotAsked /\ Requested("redis")
        /\ UNCHANGED <<lines, finished, list, old, cleaner>>
    BY DEF RedisCounts, logVars
  <1>2. /\ early' \subseteq Backends /\ early \subseteq early'
        /\ (~finished => "redis" \in early') /\ (finished => early' = early)
        /\ ("disk" \in early' => "disk" \in early)
    BY <1>1 DEF Requested, TypeOK, Backends
  <1>3. CASE llen' = Len(list) /\ UNCHANGED <<damaged, from, shown, ended, vain>>
    <2>1. Len(list) \in Nat /\ Len(list) <= Kept /\ Kept \in Nat
      BY ConstantsAssumption, LenProperties DEF TypeOK
    <2>2. llen' \in {NotAsked} \union 0..Kept
      BY <1>3, <2>1
    <2>3. TypeOK'
      BY <1>1, <1>2, <1>3, <2>2 DEF TypeOK
    <2>4. DiskOrder' /\ RedisOrder' /\ DiskSkipsOnePerEmptyAnswer'
      BY <1>1, <1>3 DEF DiskOrder, RedisOrder, Increasing, DiskSkipsOnePerEmptyAnswer
    <2>5. \A b \in Backends : Whole(b)' => Whole(b)
      BY <1>1, <1>2, <1>3 DEF Whole
    <2>6. Whole("redis")' => llen' = lines
      BY <1>1, <1>3 DEF Whole, WholeSoFar
    <2>7. WholeSoFar'
      BY <1>1, <1>2, <1>3, <2>5, <2>6 DEF WholeSoFar, Backends
    <2>8. QED
      BY <2>3, <2>4, <2>7
  <1>4. CASE /\ Answer("redis", <<>>, from["redis"], TRUE)
             /\ damaged' = damaged \union {"redis"}
             /\ UNCHANGED llen
    <2>1. /\ "redis" \in Backends /\ from["redis"] \in Nat /\ <<>> \in Seq(Numbers)
          /\ shown["redis"] \in Seq(Numbers)
      BY EmptySeq DEF TypeOK, Backends, Numbers
    <2>2. /\ from' \in [Backends -> Nat \ {0}] /\ from'["redis"] = from["redis"] + 1
          /\ shown' \in [Backends -> Seq(1..MaxLines)]
          /\ shown'["redis"] = shown["redis"] \o <<>>
          /\ ended' \in [Backends -> BOOLEAN] /\ vain' \in [Backends -> Nat]
          /\ \A c \in Backends \ {"redis"} :
                /\ from'[c] = from[c] /\ shown'[c] = shown[c]
                /\ ended'[c] = ended[c] /\ vain'[c] = vain[c]
      BY <1>4, <2>1, AnswerChanges
    <2>3. shown'["redis"] = shown["redis"]
      BY <2>1, <2>2, ConcatEmptySeq
    <2>4. damaged' \subseteq Backends
      BY <1>4 DEF TypeOK, Backends
    <2>5. TypeOK'
      BY <1>1, <1>2, <1>4, <2>2, <2>4 DEF TypeOK
    <2>6. DiskOrder' /\ DiskSkipsOnePerEmptyAnswer'
      BY <2>2 DEF DiskOrder, Increasing, DiskSkipsOnePerEmptyAnswer, Backends
    <2>7. RedisOrder'
      <3>1. \A n \in DOMAIN list : n >= from["redis"] + 1 => n >= from["redis"]
        BY <2>1, LinesAreNumbers DEF TypeOK, Numbers
      <3>2. QED
        BY <1>1, <2>2, <2>3, <3>1 DEF RedisOrder, Increasing
    <2>8. ~Whole("redis")' /\ (Whole("disk")' => Whole("disk"))
      BY <1>1, <1>2, <1>4 DEF Whole
    <2>9. WholeSoFar'
      BY <1>1, <1>2, <1>4, <2>2, <2>8 DEF WholeSoFar, Backends
    <2>10. QED
      BY <2>5, <2>6, <2>7, <2>9
  <1>5. QED
    BY <1>3, <1>4 DEF RedisCounts

\* The Redis reader gets the places of its page that the list has now, whatever
\* was pushed and trimmed since LLEN.
LEMMA RedisAnswersKeeps ==
    ASSUME TaskLogInv, RedisAnswers
    PROVE  TaskLogInv'
  <1> USE DEF TaskLogInv
  <1> DEFINE f    == from["redis"]
             pe   == PageEnd("redis")
             seen == shown["redis"]
             end  == EndOf(list, pe)
  <1>1. /\ llen # NotAsked /\ llen' = NotAsked
        /\ UNCHANGED <<lines, finished, list, old, cleaner, early>>
    BY DEF RedisAnswers, logVars
  <1>2. /\ "redis" \in Backends /\ f \in Nat \ {0} /\ lines \in Nat /\ Page \in Nat \ {0}
        /\ list \in Seq(Numbers) /\ seen \in Seq(Numbers) /\ Kept \in Nat /\ llen \in 0..Kept
    BY <1>1, ConstantsAssumption DEF TypeOK, Backends, Numbers
  <1>3. pe \in Nat /\ f <= pe
    BY <1>2 DEF PageEnd
  <1>4. PICK sent \in {<<>>, Slice(list, f, pe)}, to \in {f, pe} :
            /\ Answer("redis", sent, to, RedisAtEnd)
            /\ damaged' = damaged \/ (damaged' = damaged \union {"redis"})
            /\ sent = <<>> \/ to = pe
            /\ "redis" \notin damaged' => IF f > llen THEN sent = <<>> /\ to = f
                                          ELSE sent = Slice(list, f, pe) /\ to = pe
    <2>1. CASE f > llen
      BY <2>1 DEF RedisAnswers
    <2>2. CASE ~(f > llen) /\ Answer("redis", LRange, pe, RedisAtEnd) /\ UNCHANGED damaged
      BY <2>2 DEF LRange
    <2>3. CASE /\ ~(f > llen) /\ Answer("redis", <<>>, pe, RedisAtEnd)
               /\ damaged' = damaged \union {"redis"}
      BY <2>3
    <2>4. QED
      BY <2>1, <2>2, <2>3 DEF RedisAnswers
  <1>5. PageIs(Numbers, list, f, pe, Slice(list, f, pe))
    <2> HIDE DEF f, pe
    <2>1. QED
      BY ONLY <1>2, <1>3, SliceProperties
  <1>6. sent \in Seq(Numbers) /\ to \in Nat /\ RedisAtEnd \in BOOLEAN /\ f <= to
    <2>1. sent \in Seq(Numbers)
      <3>1. Slice(list, f, pe) \in Seq(Numbers) /\ <<>> \in Seq(Numbers)
        BY ONLY <1>5, EmptySeq DEF PageIs
      <3>2. QED
        BY <1>4, <3>1
    <2>2. to \in Nat /\ f <= to
      BY <1>2, <1>3, <1>4
    <2>3. RedisAtEnd \in BOOLEAN
      BY DEF RedisAtEnd
    <2>4. QED
      BY <2>1, <2>2, <2>3
  <1>7. /\ from' \in [Backends -> Nat \ {0}] /\ from'["redis"] = to + 1
        /\ shown' \in [Backends -> Seq(1..MaxLines)] /\ shown'["redis"] = seen \o sent
        /\ ended' \in [Backends -> BOOLEAN] /\ ended'["redis"] = RedisAtEnd
        /\ vain' \in [Backends -> Nat]
        /\ \A c \in Backends \ {"redis"} :
              /\ from'[c] = from[c] /\ shown'[c] = shown[c]
              /\ ended'[c] = ended[c] /\ vain'[c] = vain[c]
    BY <1>2, <1>4, <1>6, AnswerChanges
  <1>8. TypeOK'
    <2>1. damaged' \subseteq Backends
      BY <1>4 DEF TypeOK, Backends
    <2>2. QED
      BY <1>1, <1>7, <2>1 DEF TypeOK
  <1>9. DiskOrder' /\ DiskSkipsOnePerEmptyAnswer'
    BY <1>7 DEF DiskOrder, Increasing, DiskSkipsOnePerEmptyAnswer, Backends
  <1>10. /\ Len(seen) \in Nat /\ DOMAIN seen = 1..Len(seen) /\ seen \in Seq(Nat)
         /\ \A n \in DOMAIN seen : seen[n] \in Nat
    BY <1>2, LinesAreNumbers
  <1>11. /\ Len(list) \in Nat /\ DOMAIN list = 1..Len(list)
         /\ \A n \in DOMAIN list : list[n] \in Nat
    BY <1>2, LinesAreNumbers
  <1>12. Len(sent) \in Nat /\ DOMAIN sent = 1..Len(sent) /\ sent \in Seq(Nat)
    BY <1>6, LinesAreNumbers
  <1> HIDE DEF f, pe, seen
  <1>13. end \in Nat /\ end <= pe /\ end <= Len(list)
    BY <1>3, <1>11 DEF EndOf
  <1> HIDE DEF end
  <1>14. ASSUME NEW j \in DOMAIN sent
         PROVE  /\ sent[j] = list[f + j - 1] /\ f + j - 1 \in DOMAIN list
                /\ f + j - 1 >= f /\ f + j - 1 <= to /\ j \in Nat
    <2>1. sent = Slice(list, f, pe) /\ to = pe
      BY <1>4, <1>12, EmptySeq
    <2>2. Len(sent) = IF f <= end THEN end - f + 1 ELSE 0
      BY <1>5, <2>1 DEF PageIs, end
    <2>3. j \in Nat /\ 1 <= j /\ j <= Len(sent)
      BY <1>12
    <2>4. f <= end /\ j <= end - f + 1
      BY <1>12, <2>2, <2>3
    <2>5. sent[j] = list[f + j - 1]
      BY <1>5, <1>12, <2>1 DEF PageIs
    <2>6. f + j - 1 \in 1..Len(list) /\ f + j - 1 >= f /\ f + j - 1 <= pe
      BY <1>2, <1>3, <1>11, <1>13, <2>3, <2>4
    <2>7. QED
      BY <1>11, <2>1, <2>3, <2>5, <2>6
  <1>15. RedisOrder'
    <2>1. Increasing(sent)
      <3> SUFFICES ASSUME NEW i \in DOMAIN sent, NEW j \in DOMAIN sent, i < j
                   PROVE  sent[i] < sent[j]
        BY DEF Increasing
      <3>1. /\ sent[i] = list[f + i - 1] /\ f + i - 1 \in DOMAIN list
            /\ sent[j] = list[f + j - 1] /\ f + j - 1 \in DOMAIN list /\ i \in Nat /\ j \in Nat
        BY <1>14
      <3>2. f + i - 1 < f + j - 1
        BY <1>2, <3>1
      <3>3. QED
        BY <3>1, <3>2 DEF RedisOrder, Increasing
    <2>2. Below(seen, sent)
      BY <1>14 DEF Below, RedisOrder, f, seen
    <2>3. Increasing(seen)
      BY DEF RedisOrder, seen
    <2>4. Increasing(seen \o sent)
      BY <1>10, <1>12, <2>1, <2>2, <2>3, IncreasingConcat
    <2>5. ASSUME NEW i \in DOMAIN shown'["redis"]
          PROVE  /\ shown'["redis"][i] <= lines
                 /\ \A n \in DOMAIN list : n >= to + 1 => shown'["redis"][i] < list[n]
      <3> DEFINE both == seen \o sent
      <3>1. /\ both \in Seq(Nat) /\ DOMAIN both = 1..(Len(seen) + Len(sent))
            /\ \A n \in 1..(Len(seen) + Len(sent)) :
                  both[n] = IF n <= Len(seen) THEN seen[n] ELSE sent[n - Len(seen)]
        BY <1>10, <1>12, ConcatProperties, LenProperties
      <3>2. i \in 1..(Len(seen) + Len(sent))
            /\ shown'["redis"][i] = IF i <= Len(seen) THEN seen[i] ELSE sent[i - Len(seen)]
        BY <1>7, <2>5, <3>1
      <3>3. CASE i <= Len(seen)
        <4>1. i \in DOMAIN seen
          BY <1>10, <3>2, <3>3
        <4>2. \A n \in DOMAIN list : n >= to + 1 => n >= f
          BY <1>2, <1>6, <1>11
        <4>3. QED
          BY <3>2, <3>3, <4>1, <4>2 DEF RedisOrder, f, seen
      <3>4. CASE ~(i <= Len(seen))
        <4> DEFINE j == i - Len(seen)
        <4>1. j \in DOMAIN sent
          BY <1>10, <1>12, <3>2, <3>4
        <4> HIDE DEF j
        <4>2. /\ sent[j] = list[f + j - 1] /\ f + j - 1 \in DOMAIN list
              /\ f + j - 1 <= to /\ j \in Nat
          BY <1>14, <4>1
        <4>3. \A n \in DOMAIN list : n >= to + 1 => f + j - 1 < n
          BY <1>2, <1>6, <1>11, <4>2
        <4>4. shown'["redis"][i] = list[f + j - 1]
          BY <3>2, <3>4, <4>2 DEF j
        <4>5. QED
          BY <4>2, <4>3, <4>4 DEF RedisOrder, Increasing
      <3>5. QED
        BY <3>3, <3>4
    <2>6. QED
      BY <1>1, <1>7, <2>4, <2>5 DEF RedisOrder
  <1>16. WholeSoFar'
    <2>1. ~finished => "redis" \in early
      BY <1>1 DEF WholeSoFar
    <2>2. \A b \in Backends : Whole(b)' => Whole(b)
      BY <1>1, <1>4 DEF Whole
    <2>3. Whole("disk")' =>
             /\ Len(shown'["disk"]) = IF from'["disk"] <= lines THEN from'["disk"] - 1 ELSE lines
             /\ ended'["disk"] => lines < from'["disk"]
      BY <1>7, <2>2 DEF WholeSoFar, Backends
    <2>4. ASSUME Whole("redis")'
          PROVE  /\ Len(shown'["redis"]) = IF to + 1 <= lines THEN to ELSE lines
                 /\ RedisAtEnd => lines < to + 1
      <3>1. Whole("redis") /\ "redis" \notin damaged' /\ "redis" \notin damaged /\ lines <= Kept
        BY <1>4, <2>2, <2>4 DEF Whole, Backends
      <3>2. Len(list) = lines /\ llen = lines
        BY <1>1, <3>1 DEF WholeSoFar
      <3>3. Len(seen) = IF f <= lines THEN f - 1 ELSE lines
        BY <1>2, <3>1 DEF WholeSoFar, f, seen
      <3>4. Len(shown'["redis"]) = Len(seen) + Len(sent)
        BY <1>7, <1>10, <1>12, ConcatProperties
      <3>5. CASE f > llen
        <4>1. Len(sent) = 0 /\ to = f
          BY <1>4, <3>1, <3>5, EmptySeq
        <4>2. Len(seen) = lines
          BY <1>2, <3>2, <3>3, <3>5
        <4>3. lines < to + 1 /\ ~(to + 1 <= lines)
          BY <1>2, <3>2, <3>5, <4>1
        <4>4. QED
          BY <1>2, <3>4, <4>1, <4>2, <4>3
      <3>6. CASE ~(f > llen)
        <4>1. sent = Slice(list, f, pe) /\ to = pe
          BY <1>4, <3>1, <3>6
        <4>2. Len(sent) = IF f <= end THEN end - f + 1 ELSE 0
          BY <1>5, <4>1 DEF PageIs, end
        <4>3. end = (IF pe < lines THEN pe ELSE lines) /\ f <= lines
          BY <1>2, <3>2, <3>6 DEF end, EndOf
        <4>4. f <= end /\ Len(seen) = f - 1
          BY <1>2, <1>3, <3>3, <4>3
        <4>5. Len(shown'["redis"]) = end
          BY <1>2, <1>13, <3>4, <4>2, <4>4
        <4>6. end = IF to + 1 <= lines THEN to ELSE lines
          BY <1>2, <1>3, <4>1, <4>3
        <4>7. RedisAtEnd => lines < to + 1
          BY <1>2, <1>3, <3>2, <4>1 DEF RedisAtEnd, pe
        <4>8. QED
          BY <4>5, <4>6, <4>7
      <3>7. QED
        BY <3>5, <3>6
    <2>5. to + 1 - 1 = to
      BY <1>6
    <2>6. Whole("redis")' =>
             /\ Len(shown'["redis"]) = IF from'["redis"] <= lines THEN from'["redis"] - 1
                                       ELSE lines
             /\ ended'["redis"] => lines < from'["redis"]
      BY <1>7, <2>4, <2>5
    <2>7. ~finished => \A b \in Backends \ early :
                          from'[b] = 1 /\ shown'[b] = <<>> /\ ~ended'[b]
      BY <1>7, <2>1 DEF WholeSoFar, Backends
    <2>8. "redis" \notin damaged' /\ lines <= Kept => Len(list) = lines
      BY <1>4 DEF WholeSoFar
    <2>9. QED
      BY <1>1, <2>3, <2>6, <2>7, <2>8 DEF WholeSoFar, Backends
  <1>17. QED
    BY <1>8, <1>9, <1>15, <1>16

-----------------------------------------------------------------------------
(* The theorems *)

\* Every step keeps the inductive invariant.
LEMMA TaskLogStep == TaskLogInv /\ [Next]_vars => TaskLogInv'
  BY WriteKeeps, QuietKeeps, DiskAnswersKeeps, RedisCountsKeeps, RedisAnswersKeeps DEF Next

\* The inductive invariant: the order of what is stored and of what was sent,
\* and how many lines the reader of a whole log has been sent.
THEOREM TaskLogInvariant == Spec => []TaskLogInv
  BY TaskLogInit, TaskLogStep, PTL DEF Spec

\* Every variable stays within its type, and the Redis list within max_lines.
THEOREM TaskLogTypeCorrect == Spec => []TypeOK
  <1>1. TaskLogInv => TypeOK
    BY DEF TaskLogInv
  <1>2. QED
    BY <1>1, TaskLogInvariant, PTL

\* No reader of /log is sent a line twice or out of order, however many lines
\* the Redis list drops between its requests or within one.
THEOREM LinesAreSentInOrder == Spec => []NeverTwice
  <1>1. TaskLogInv => NeverTwice
    BY DEF TaskLogInv, DiskOrder, RedisOrder, Increasing, NeverTwice, Backends
  <1>2. QED
    BY <1>1, TaskLogInvariant, PTL

\* A reader that asks for a whole log after its task and comes to the end has
\* been sent every line, whatever the page, the log's length and the trim.
THEOREM WholeLogIsSent == Spec => []CompleteLogIsReadWhole
  <1>1. TaskLogInv => CompleteLogIsReadWhole
    <2> SUFFICES ASSUME TaskLogInv, NEW b \in Backends, ended[b],
                        b \notin early \union damaged, b = "redis" => lines <= Kept
                 PROVE  Len(shown[b]) = lines
      BY DEF CompleteLogIsReadWhole
    <2>1. Whole(b)
      BY DEF Whole
    <2>2. lines \in Nat /\ from[b] \in Nat
      BY ConstantsAssumption DEF TaskLogInv, TypeOK
    <2>3. /\ Len(shown[b]) = IF from[b] <= lines THEN from[b] - 1 ELSE lines
          /\ lines < from[b]
      BY <2>1 DEF TaskLogInv, WholeSoFar
    <2>4. QED
      BY <2>2, <2>3
  <1>2. QED
    BY <1>1, TaskLogInvariant, PTL

\* The disk reader passes over one line for every answer without a line, and
\* over no other.
THEOREM DiskSkipsAreCounted == Spec => []DiskSkipsOnePerEmptyAnswer
  <1>1. TaskLogInv => DiskSkipsOnePerEmptyAnswer
    BY DEF TaskLogInv
  <1>2. QED
    BY <1>1, TaskLogInvariant, PTL
=============================================================================
