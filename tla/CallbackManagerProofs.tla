------------------------- MODULE CallbackManagerProofs -------------------------
(***************************************************************************)
(* Proofs about CallbackManager, for every set of requests, every number   *)
(* of crashes, with or without requests that cannot be serialised and      *)
(* records that are cut short.                                             *)
(***************************************************************************)
EXTENDS CallbackManager, QueueLemmas

-----------------------------------------------------------------------------
(* The inductive invariant *)

\* The counter and the files are about finitely many requests.
Finitely == IsFiniteSet(accepted) /\ IsFiniteSet(written)

\* Where a request may be: in memory only as long as the process has accepted
\* it, with the worker only while that posts it or has just been cancelled.
Places ==
    /\ InMemory \subseteq accepted
    /\ acked \subseteq delivered
    /\ ~up => accepted = {}
    /\ worker = "posting" => current # NoRequest
    /\ worker \in {"none", "idle", "failed"} => current = NoRequest
    /\ stop = "joining" => worker \in {"none", "cancelled", "failed"}
    /\ stop = "returned" => worker = "none"
    /\ (retrying \union {current}) \intersect Unserialisable = {}

\* A file is about a request that is not done; one that sleeps before a retry has
\* a file, and only a torn write cuts a record.
Files ==
    /\ \A r \in Requests : disk[r] = "full" => r \in written \ acked /\ (up => r \in accepted)
    /\ \A r \in retrying : disk[r] # "absent"
    /\ ~TornWrites => \A r \in Requests : disk[r] # "torn"

\* stop() has not gone past its wait.
Waits == stop \in {"none", "waiting", "woken"}

\* As long as stop() may wait, the counter is what the process still has to
\* deliver: also for a request that the worker has dropped and for one whose
\* retry was not queued again.  A stop that has not given up has seen it reach
\* zero.
Counting ==
    /\ Waits => pending = Cardinality(accepted \ acked) /\ drained /\ ~gaveUp
    /\ stop = "woken" => pending = 0
    /\ (drained /\ ~gaveUp /\ stop \in {"proceed", "quieted", "joining", "between", "returned"}) =>
          pending = 0 /\ accepted \subseteq acked
    /\ gaveUp => pending = 0
    /\ stop \in {"between", "returned"} => drained \/ gaveUp

\* A request that can be serialised is in memory until a stop closes the manager
\* or gives up, and has a file before memory is dropped, a cut one perhaps.
Kept ==
    /\ stop = "none" => ~closed
    /\ stop = "returned" => closed
    /\ Waits /\ ~closed => accepted \ (acked \union Unserialisable) \subseteq InMemory
    /\ \A r \in accepted \ Unserialisable :
          \/ r \in acked
          \/ disk[r] = "full"
          \/ r \in InMemory /\ stop # "returned"
          \/ disk[r] = "torn" /\ stop # "none"
    /\ gaveUp => \A r \in InMemory \ Unserialisable : disk[r] # "absent"
    /\ stop = "joining" /\ ~drained => queue = <<>>

\* Only a request that cannot be serialised ends the worker or a stop.
OnlyPoisonRaises == Unserialisable = {} => worker # "failed" /\ stop # "raised"

DeliveryInv ==
    /\ TypeOK
    /\ Finitely
    /\ OneAttemptAtATime
    /\ Places
    /\ Files
    /\ Counting
    /\ Kept
    /\ OnlyPoisonRaises

-----------------------------------------------------------------------------
(* The helpers of the specification *)

\* What is in memory, of the kind it should be.
LEMMA MemoryType ==
    ASSUME TypeOK
    PROVE  /\ Range(queue) \subseteq Requests
           /\ InMemory \subseteq Requests
           /\ NoRequest \notin Requests /\ NoRequest \notin InMemory
           /\ \A r : r \in InMemory <=> r \in Range(queue) \/ r \in retrying
                                         \/ (r = current /\ r # NoRequest)
  BY ConstantsAssumption, RangeOfSeq DEF TypeOK, InMemory

\* The counter is a number, and zero exactly when all is delivered.
LEMMA LeftToDeliver ==
    ASSUME TypeOK, Finitely
    PROVE  /\ IsFiniteSet(accepted \ acked)
           /\ Cardinality(accepted \ acked) \in Nat
           /\ Cardinality(accepted \ acked) = 0 => accepted \subseteq acked
  BY FS_Difference, FS_CardinalityType, FS_EmptySet DEF Finitely

\* Writing the records of S touches no other file; each of S is written in full
\* or cut short, the latter only where records are cut at all.
LEMMA PersistChanges ==
    ASSUME TypeOK, Finitely, NEW S \in SUBSET Requests, S \subseteq accepted, Persist(S)
    PROVE  /\ disk' \in [Requests -> {"absent", "full", "torn"}]
           /\ \A r \in Requests \ S : disk'[r] = disk[r]
           /\ \A r \in S : disk'[r] # "absent"
           /\ ~TornWrites => \A r \in S : disk'[r] = "full"
           /\ \A r \in S : disk'[r] = "full" => r \in written'
           /\ written \subseteq written'
           /\ written' \in SUBSET Requests /\ IsFiniteSet(written')
  <1>1. PICK cut \in IF TornWrites THEN SUBSET S ELSE {{}} :
           /\ disk' = [r \in Requests |-> IF r \in cut THEN "torn"
                                          ELSE IF r \in S THEN "full" ELSE disk[r]]
           /\ written' = written \union (S \ cut)
    BY DEF Persist
  <1>2. cut \subseteq S /\ (~TornWrites => cut = {})
    BY <1>1
  <1>3. IsFiniteSet(S \ cut)
    <2>1. IsFiniteSet(accepted) /\ S \ cut \in SUBSET accepted
      BY DEF Finitely
    <2>2. QED
      BY <2>1, FS_Subset
  <1>4. IsFiniteSet(written')
    BY <1>1, <1>3, FS_Union DEF Finitely
  <1>5. /\ disk' \in [Requests -> {"absent", "full", "torn"}]
        /\ \A r \in Requests \ S : disk'[r] = disk[r]
        /\ \A r \in S : disk'[r] # "absent"
        /\ ~TornWrites => \A r \in S : disk'[r] = "full"
        /\ \A r \in S : disk'[r] = "full" => r \notin cut
    BY <1>1, <1>2 DEF TypeOK
  <1>6. QED
    BY <1>1, <1>4, <1>5 DEF TypeOK

\* The flush takes from the queue the requests it writes and the first one that
\* cannot be serialised, if there is one.
LEMMA FlushTakes ==
    ASSUME TypeOK, IsInjective(queue),
           NEW rest, rest = SubSeq(queue, Cardinality(FlushedPlaces) + 2, Len(queue))
    PROVE  /\ Flushed \subseteq Range(queue) \ Unserialisable
           /\ rest \in Seq(Requests) /\ IsInjective(rest)
           /\ Range(rest) \subseteq Range(queue)
           /\ Range(queue) \ Unserialisable \subseteq Flushed \union Range(rest)
           /\ FlushedPlaces = DOMAIN queue => rest = <<>>
           /\ Unserialisable = {} => FlushedPlaces = DOMAIN queue
  <1> DEFINE P == FlushedPlaces
             k == Cardinality(P)
  <1>1. Len(queue) \in Nat /\ DOMAIN queue = 1..Len(queue) /\ queue \in Seq(Requests)
    BY LenProperties DEF TypeOK
  <1>2. P \in SUBSET (1..Len(queue)) /\ \A i \in P : 1..i \subseteq P
    BY <1>1 DEF FlushedPlaces
  <1>3. k \in 0..Len(queue) /\ P = 1..k
    BY <1>1, <1>2, ClosedPlacesArePrefix
  <1>4. \A i \in P : queue[i] \notin Unserialisable
    <2> SUFFICES ASSUME NEW i \in P PROVE queue[i] \notin Unserialisable
      OBVIOUS
    <2>1. i \in 1..i
      BY <1>1, <1>2
    <2>2. QED
      BY <2>1 DEF FlushedPlaces
  <1>5. k + 1 \in DOMAIN queue => queue[k + 1] \in Unserialisable
    <2> SUFFICES ASSUME k + 1 \in DOMAIN queue, queue[k + 1] \notin Unserialisable
                 PROVE  FALSE
      OBVIOUS
    <2>1. \A m \in 1..(k + 1) : queue[m] \notin Unserialisable
      <3> SUFFICES ASSUME NEW m \in 1..(k + 1) PROVE queue[m] \notin Unserialisable
        OBVIOUS
      <3>1. m \in 1..k \/ m = k + 1
        BY <1>3
      <3>2. QED
        BY <1>3, <1>4, <3>1
    <2>2. k + 1 \in P
      BY <2>1 DEF FlushedPlaces
    <2>3. k + 1 \in 1..k
      BY <1>3, <2>2
    <2>4. QED
      BY <1>3, <2>3
  <1>6. Flushed \subseteq Range(queue) \ Unserialisable
    BY <1>1, <1>2, <1>4 DEF Flushed, Range
  <1>7. /\ rest \in Seq(Requests) /\ IsInjective(rest)
        /\ Range(rest) = {queue[i] : i \in {j \in DOMAIN queue : j > k + 1}}
        /\ Len(queue) <= k + 1 => rest = <<>>
    <2> DEFINE n == k + 1
    <2>1. n \in Nat /\ k + 2 = n + 1
      BY <1>3
    <2>2. rest = SubSeq(queue, n + 1, Len(queue))
      BY <2>1
    <2> HIDE DEF n
    <2> DEFINE left == SubSeq(queue, n + 1, Len(queue))
    <2>3. /\ left \in Seq(Requests)
          /\ Range(left) = {queue[i] : i \in {j \in DOMAIN queue : j > n}}
          /\ IsInjective(queue) => IsInjective(left)
          /\ Len(queue) <= n => left = <<>>
      BY <1>1, <2>1, DropElements
    <2>4. QED
      BY <2>2, <2>3 DEF n
  <1> HIDE DEF k, P
  <1>8. Range(rest) \subseteq Range(queue)
    BY <1>7 DEF Range
  <1>9. Range(queue) \ Unserialisable \subseteq Flushed \union Range(rest)
    <2> SUFFICES ASSUME NEW i \in DOMAIN queue, queue[i] \notin Unserialisable
                 PROVE  queue[i] \in Flushed \union Range(rest)
      BY DEF Range
    <2>1. i \in 1..k \/ i = k + 1 \/ i > k + 1
      BY <1>1, <1>3
    <2>2. CASE i \in 1..k
      BY <1>3, <2>2 DEF Flushed, P
    <2>3. CASE i = k + 1
      BY <1>5, <2>3
    <2>4. CASE i > k + 1
      BY <1>7, <2>4
    <2>5. QED
      BY <2>1, <2>2, <2>3, <2>4
  <1>10. ASSUME FlushedPlaces = DOMAIN queue PROVE rest = <<>>
    <2>1. P = 1..Len(queue)
      BY <1>1, <1>10 DEF P
    <2>2. k = Len(queue)
      <3>1. Cardinality(1..Len(queue)) = Len(queue)
        BY <1>1, IntervalSize
      <3>2. QED
        BY <2>1, <3>1 DEF k
    <2>3. QED
      BY <1>1, <1>3, <1>7, <2>2
  <1>11. ASSUME Unserialisable = {} PROVE FlushedPlaces = DOMAIN queue
    BY <1>11 DEF FlushedPlaces
  <1>12. QED
    BY <1>6, <1>7, <1>8, <1>9, <1>10, <1>11

-----------------------------------------------------------------------------
(* enqueue and the worker *)

\* Nothing is accepted and nothing is in memory or in a file.
LEMMA DeliveryInit == Init => DeliveryInv
  <1> SUFFICES ASSUME Init PROVE DeliveryInv
    OBVIOUS
  <1>1. Range(queue) = {} /\ IsInjective(queue) /\ queue \in Seq(Requests)
    BY EmptyQueue, EmptySeq DEF Init
  <1>2. InMemory = {}
    BY <1>1 DEF InMemory, Init
  <1>3. TypeOK
    BY <1>1 DEF Init, TypeOK, Workers, Stops
  <1>4. Finitely
    BY FS_EmptySet DEF Init, Finitely
  <1>5. OneAttemptAtATime
    BY <1>1, <1>2, ConstantsAssumption DEF Init, OneAttemptAtATime
  <1>6. Places
    BY <1>2, ConstantsAssumption DEF Init, Places
  <1>7. Files
    BY DEF Init, Files
  <1>8. Counting
    <2>1. accepted \ acked = {}
      BY DEF Init
    <2>2. pending = Cardinality(accepted \ acked)
      BY <2>1, FS_EmptySet DEF Init
    <2>3. QED
      BY <2>2 DEF Init, Counting, Waits
  <1>9. Kept
    BY <1>2 DEF Init, Kept, Waits
  <1>10. OnlyPoisonRaises
    BY DEF Init, OnlyPoisonRaises
  <1>11. QED
    BY <1>3, <1>4, <1>5, <1>6, <1>7, <1>8, <1>9, <1>10 DEF DeliveryInv

\* A new request joins the queue and the counter.
LEMMA EnqueueKeeps ==
    ASSUME DeliveryInv, NEW r \in Requests, Enqueue(r)
    PROVE  DeliveryInv'
  <1> USE DEF DeliveryInv
  <1>1. /\ up /\ stop = "none" /\ r \notin accepted \union written \union delivered
        /\ accepted' = accepted \union {r} /\ pending' = pending + 1
        /\ worker' = EnsuredWorker /\ queue' = Append(queue, r)
        /\ UNCHANGED <<up, current, retrying, closed, stop, drained, gaveUp, disk, written,
                       delivered, acked, crashes>>
    BY DEF Enqueue, outside
  <1>2. /\ queue' \in Seq(Requests) /\ Range(queue') = Range(queue) \union {r}
        /\ (IsInjective(queue) /\ r \notin Range(queue)) => IsInjective(queue')
    BY <1>1, PutElement, AppendProperties DEF TypeOK
  <1>3. InMemory' = InMemory \union {r}
    BY <1>1, <1>2 DEF InMemory
  <1>4. r \notin InMemory /\ r \notin acked /\ r # NoRequest
    BY <1>1, ConstantsAssumption DEF Places
  <1>5. r \notin Range(queue) /\ r \notin retrying /\ r # current
    BY <1>4 DEF InMemory
  <1>6. TypeOK'
    BY <1>1, <1>2 DEF TypeOK, EnsuredWorker, Workers
  <1>7. Finitely'
    BY <1>1, FS_AddElement DEF Finitely
  <1>8. OneAttemptAtATime'
    BY <1>1, <1>2, <1>3, <1>4, <1>5 DEF OneAttemptAtATime
  <1>9. Places'
    BY <1>1, <1>3 DEF Places, EnsuredWorker
  <1>10. Files'
    BY <1>1 DEF Files
  <1>11. Counting'
    <2>1. accepted' \ acked' = (accepted \ acked) \union {r}
      BY <1>1, <1>4
    <2>2. Cardinality(accepted' \ acked') = Cardinality(accepted \ acked) + 1
      BY <1>1, <2>1, LeftToDeliver, FS_AddElement
    <2>3. QED
      BY <1>1, <2>2 DEF Counting, Waits
  <1>12. Kept'
    BY <1>1, <1>3 DEF Kept, Waits, Counting
  <1>13. OnlyPoisonRaises'
    BY <1>1 DEF OnlyPoisonRaises, EnsuredWorker
  <1>14. QED
    BY <1>6, <1>7, <1>8, <1>9, <1>10, <1>11, <1>12, <1>13

\* The worker takes the head of the queue, or drops it and ends.
LEMMA TakeRequestKeeps ==
    ASSUME DeliveryInv, TakeRequest
    PROVE  DeliveryInv'
  <1> USE DEF DeliveryInv
  <1> DEFINE r == Head(queue)
  <1>1. /\ up /\ worker = "idle" /\ queue # <<>> /\ queue' = Tail(queue)
        /\ IF r \in Unserialisable THEN worker' = "failed" /\ UNCHANGED current
           ELSE worker' = "posting" /\ current' = r
        /\ UNCHANGED <<up, retrying, pending, closed, stop, drained, gaveUp, disk, written,
                       delivered, acked, accepted, crashes>>
    BY DEF TakeRequest, outside
  <1>2. /\ r \in Requests /\ queue' \in Seq(Requests)
        /\ Range(queue) = {r} \union Range(queue') /\ r \in Range(queue)
        /\ IsInjective(queue) => r \notin Range(queue') /\ IsInjective(queue')
    BY <1>1, GetElement DEF TypeOK
  <1> HIDE DEF r
  <1>3. current = NoRequest /\ r # NoRequest
    BY <1>1, <1>2, ConstantsAssumption DEF Places
  <1>4. /\ r \in Unserialisable => InMemory' = InMemory \ {r}
        /\ r \notin Unserialisable => InMemory' = InMemory
    <2>1. r \notin Range(queue') /\ r \notin retrying
      BY <1>2 DEF OneAttemptAtATime
    <2>2. QED
      BY <1>1, <1>2, <1>3, <2>1 DEF InMemory
  <1>5. TypeOK'
    BY <1>1, <1>2 DEF TypeOK, Workers
  <1>6. Finitely'
    BY <1>1 DEF Finitely
  <1>7. OneAttemptAtATime'
    <2>1. IsInjective(queue') /\ r \notin Range(queue') /\ r \notin retrying
      BY <1>2 DEF OneAttemptAtATime
    <2>2. Range(queue') \intersect retrying' = {}
      BY <1>1, <1>2 DEF OneAttemptAtATime
    <2>3. current' \notin Range(queue') \union retrying'
      BY <1>1, <1>2, <2>1 DEF OneAttemptAtATime
    <2>4. InMemory' \intersect acked' = {}
      BY <1>1, <1>4 DEF OneAttemptAtATime
    <2>5. QED
      BY <2>1, <2>2, <2>3, <2>4 DEF OneAttemptAtATime
  <1>8. Places'
    <2>1. InMemory' \subseteq accepted'
      BY <1>1, <1>4 DEF Places
    <2>2. stop # "joining" /\ stop # "returned"
      BY <1>1 DEF Places
    <2>3. QED
      BY <1>1, <1>3, <2>1, <2>2 DEF Places
  <1>9. Files'
    BY <1>1 DEF Files
  <1>10. Counting'
    BY <1>1 DEF Counting, Waits
  <1>11. Kept'
    <2>1. stop # "joining"
      BY <1>1 DEF Places
    <2>2. InMemory' \subseteq InMemory /\ InMemory \ Unserialisable \subseteq InMemory'
      BY <1>4
    <2>3. QED
      BY <1>1, <2>1, <2>2 DEF Kept, Waits
  <1>12. OnlyPoisonRaises'
    BY <1>1 DEF OnlyPoisonRaises
  <1>13. QED
    BY <1>5, <1>6, <1>7, <1>8, <1>9, <1>10, <1>11, <1>12

\* The admin receives what the worker posts.
LEMMA AdminReceivesKeeps ==
    ASSUME DeliveryInv, AdminReceives
    PROVE  DeliveryInv'
  <1> USE DEF DeliveryInv
  <1>1. /\ delivered' = delivered \union {current} /\ current \in Requests
        /\ UNCHANGED <<up, queue, worker, current, retrying, pending, closed, stop, drained,
                       gaveUp, disk, written, acked, accepted, crashes>>
    BY DEF AdminReceives, memory
  <1>2. InMemory' = InMemory
    BY <1>1 DEF InMemory
  <1>3. TypeOK'
    BY <1>1 DEF TypeOK
  <1>4. Finitely' /\ OneAttemptAtATime' /\ Places'
    BY <1>1, <1>2 DEF Finitely, OneAttemptAtATime, Places
  <1>5. Files' /\ Counting'
    BY <1>1 DEF Files, Counting, Waits
  <1>6. Kept' /\ OnlyPoisonRaises'
    BY <1>1, <1>2 DEF Kept, Waits, OnlyPoisonRaises
  <1>7. QED
    BY <1>3, <1>4, <1>5, <1>6

\* The acknowledged request leaves memory, its file goes, and it is counted off.
LEMMA PostSucceedsKeeps ==
    ASSUME DeliveryInv, PostSucceeds
    PROVE  DeliveryInv'
  <1> USE DEF DeliveryInv
  <1> DEFINE left == IF pending > 0 THEN pending - 1 ELSE 0
  <1>1. /\ up /\ worker = "posting" /\ current \in delivered
        /\ acked' = acked \union {current}
        /\ disk' = [disk EXCEPT ![current] = "absent"]
        /\ pending' = left
        /\ stop' = IF left = 0 /\ stop = "waiting" THEN "woken" ELSE stop
        /\ worker' = "idle" /\ current' = NoRequest
        /\ UNCHANGED <<up, queue, retrying, closed, drained, gaveUp, written, delivered,
                       accepted, crashes>>
    BY DEF PostSucceeds, MarkCompleted
  <1>2. /\ current \in Requests /\ current # NoRequest /\ current \in InMemory
        /\ current \in accepted \ acked
    <2>1. current # NoRequest
      BY <1>1 DEF Places
    <2>2. current \in InMemory
      BY <2>1 DEF InMemory
    <2>3. QED
      BY <2>1, <2>2 DEF Places, OneAttemptAtATime, TypeOK
  <1>3. InMemory' = InMemory \ {current}
    <2>1. current \notin Range(queue) \union retrying
      BY DEF OneAttemptAtATime
    <2>2. QED
      BY <1>1, <1>2, <2>1 DEF InMemory
  <1>4. left \in Nat /\ pending \in Nat
    BY DEF TypeOK
  <1>5. disk'[current] = "absent" /\ \A r \in Requests \ {current} : disk'[r] = disk[r]
    BY <1>1, <1>2 DEF TypeOK
  <1> HIDE DEF left
  <1>6. TypeOK'
    BY <1>1, <1>2, <1>4 DEF TypeOK, Workers, Stops
  <1>7. Finitely'
    BY <1>1 DEF Finitely
  <1>8. OneAttemptAtATime'
    <2>1. NoRequest \notin Range(queue) \union retrying
      BY MemoryType DEF TypeOK
    <2>2. QED
      BY <1>1, <1>3, <2>1 DEF OneAttemptAtATime
  <1>9. Places'
    <2>1. acked' \subseteq delivered' /\ InMemory' \subseteq accepted'
      BY <1>1, <1>3 DEF Places
    <2>2. stop' # "joining" /\ stop' # "returned"
      BY <1>1 DEF Places
    <2>3. NoRequest \notin Unserialisable
      BY ConstantsAssumption
    <2>4. QED
      BY <1>1, <2>1, <2>2, <2>3 DEF Places
  <1>10. Files'
    <2>1. current \notin retrying
      BY DEF OneAttemptAtATime
    <2>2. QED
      BY <1>1, <1>5, <2>1 DEF Files, TypeOK
  <1>11. Counting'
    <2>1. accepted' \ acked' = (accepted \ acked) \ {current}
      BY <1>1
    <2>2. Cardinality(accepted' \ acked') = Cardinality(accepted \ acked) - 1
      BY <1>2, <2>1, LeftToDeliver, FS_RemoveElement
    <2>3. Waits' => Waits
      BY <1>1 DEF Waits
    <2>4. Waits => pending' = Cardinality(accepted' \ acked')
      <3> SUFFICES ASSUME Waits PROVE pending' = Cardinality(accepted' \ acked')
        OBVIOUS
      <3>1. pending = Cardinality(accepted \ acked)
        BY DEF Counting
      <3>2. Cardinality(accepted' \ acked') \in Nat
        <4>1. IsFiniteSet(accepted' \ acked')
          BY <1>7, FS_Difference DEF Finitely
        <4>2. QED
          BY <4>1, FS_CardinalityType
      <3>3. pending > 0
        BY <1>4, <2>2, <3>1, <3>2
      <3>4. QED
        BY <1>1, <1>4, <2>2, <3>1, <3>3 DEF left
    <2>5. pending = 0 => pending' = 0
      BY <1>1 DEF left
    <2>6. stop' = "woken" => pending' = 0
      BY <1>1, <2>5 DEF Counting
    <2>7. QED
      BY <1>1, <2>3, <2>4, <2>5, <2>6 DEF Counting, Waits
  <1>12. Kept'
    <2>1. stop # "joining" /\ stop # "returned"
      BY <1>1 DEF Places
    <2>2. Waits' => Waits
      BY <1>1 DEF Waits
    <2>3. QED
      BY <1>1, <1>3, <1>5, <2>1, <2>2 DEF Kept, TypeOK
  <1>13. OnlyPoisonRaises'
    BY <1>1 DEF OnlyPoisonRaises
  <1>14. QED
    BY <1>6, <1>7, <1>8, <1>9, <1>10, <1>11, <1>12, <1>13

\* The request gets a file and sleeps before its retry.
LEMMA PostFailsKeeps ==
    ASSUME DeliveryInv, PostFails
    PROVE  DeliveryInv'
  <1> USE DEF DeliveryInv
  <1>1. /\ up /\ worker = "posting" /\ Persist({current})
        /\ retrying' = retrying \union {current}
        /\ worker' = "idle" /\ current' = NoRequest
        /\ UNCHANGED <<up, queue, pending, closed, stop, drained, gaveUp, delivered, acked,
                       accepted, crashes>>
    BY DEF PostFails
  <1>2. /\ current \in Requests /\ current # NoRequest /\ current \in InMemory
        /\ current \in accepted \ acked
    <2>1. current # NoRequest
      BY <1>1 DEF Places
    <2>2. current \in InMemory
      BY <2>1 DEF InMemory
    <2>3. QED
      BY <2>1, <2>2 DEF Places, OneAttemptAtATime, TypeOK
  <1>3. InMemory' = InMemory
    BY <1>1, <1>2, MemoryType DEF InMemory
  <1>4. /\ disk' \in [Requests -> {"absent", "full", "torn"}]
        /\ \A r \in Requests \ {current} : disk'[r] = disk[r]
        /\ disk'[current] # "absent"
        /\ ~TornWrites => disk'[current] = "full"
        /\ disk'[current] = "full" => current \in written'
        /\ written \subseteq written' /\ written' \in SUBSET Requests /\ IsFiniteSet(written')
    <2>1. {current} \in SUBSET Requests /\ {current} \subseteq accepted
      BY <1>2
    <2>2. QED
      BY <1>1, <2>1, PersistChanges
  <1>5. TypeOK'
    BY <1>1, <1>2, <1>4 DEF TypeOK, Workers
  <1>6. Finitely'
    BY <1>1, <1>4 DEF Finitely
  <1>7. OneAttemptAtATime'
    <2>1. NoRequest \notin Range(queue) \union retrying \union {current}
      BY <1>2, MemoryType DEF TypeOK
    <2>2. current \notin Range(queue)
      BY DEF OneAttemptAtATime
    <2>3. QED
      BY <1>1, <1>3, <2>1, <2>2 DEF OneAttemptAtATime
  <1>8. Places'
    <2>1. stop # "joining" /\ stop # "returned"
      BY <1>1 DEF Places
    <2>2. NoRequest \notin Unserialisable
      BY ConstantsAssumption
    <2>3. QED
      BY <1>1, <1>3, <2>1, <2>2 DEF Places
  <1>9. Files'
    BY <1>1, <1>2, <1>4 DEF Files, TypeOK
  <1>10. Counting'
    BY <1>1 DEF Counting, Waits
  <1>11. Kept'
    <2>1. stop # "joining" /\ stop # "returned"
      BY <1>1 DEF Places
    <2>2. ASSUME NEW r \in accepted' \ Unserialisable
          PROVE  \/ r \in acked' \/ disk'[r] = "full"
                 \/ r \in InMemory' /\ stop' # "returned"
                 \/ disk'[r] = "torn" /\ stop' # "none"
      <3>1. CASE r = current
        BY <1>1, <1>2, <1>3, <2>1, <3>1
      <3>2. CASE r # current
        BY <1>1, <1>3, <1>4, <2>2, <3>2 DEF Kept, TypeOK
      <3>3. QED
        BY <3>1, <3>2
    <2>3. gaveUp' => \A r \in InMemory' \ Unserialisable : disk'[r] # "absent"
      BY <1>1, <1>3, <1>4, MemoryType DEF Kept
    <2>4. QED
      BY <1>1, <1>3, <2>1, <2>2, <2>3 DEF Kept, Waits
  <1>12. OnlyPoisonRaises'
    BY <1>1 DEF OnlyPoisonRaises
  <1>13. QED
    BY <1>5, <1>6, <1>7, <1>8, <1>9, <1>10, <1>11, <1>12

\* A retry that fires queues its request again; in a closed manager it leaves it
\* to its file.
LEMMA RetryFiresKeeps ==
    ASSUME DeliveryInv, NEW r \in Requests, RetryFires(r)
    PROVE  DeliveryInv'
  <1> USE DEF DeliveryInv
  <1>1. /\ up /\ r \in retrying /\ stop # "joining" /\ retrying' = retrying \ {r}
        /\ IF closed THEN UNCHANGED <<queue, worker>>
           ELSE worker' = EnsuredWorker /\ queue' = Append(queue, r)
        /\ UNCHANGED <<up, current, pending, closed, stop, drained, gaveUp, disk, written,
                       delivered, acked, accepted, crashes>>
    BY DEF RetryFires, outside
  <1>2. r \notin Range(queue) /\ r # current /\ r \in InMemory
    BY <1>1 DEF OneAttemptAtATime, InMemory
  <1>3. /\ queue' \in Seq(Requests) /\ IsInjective(queue')
        /\ closed => Range(queue') = Range(queue)
        /\ ~closed => Range(queue') = Range(queue) \union {r}
    <2>1. queue \in Seq(Requests) /\ IsInjective(queue)
      BY DEF TypeOK, OneAttemptAtATime
    <2>2. CASE closed
      BY <1>1, <2>1, <2>2
    <2>3. CASE ~closed
      <3>1. queue' = Append(queue, r)
        BY <1>1, <2>3
      <3>2. /\ Append(queue, r) \in Seq(Requests) /\ IsInjective(Append(queue, r))
            /\ Range(Append(queue, r)) = Range(queue) \union {r}
        BY <1>2, <2>1, PutElement, AppendProperties
      <3>3. QED
        BY <2>3, <3>1, <3>2
    <2>4. QED
      BY <2>2, <2>3
  <1>4. InMemory' = IF closed THEN InMemory \ {r} ELSE InMemory
    BY <1>1, <1>2, <1>3 DEF InMemory
  <1>5. TypeOK'
    BY <1>1, <1>3 DEF TypeOK, EnsuredWorker, Workers
  <1>6. Finitely'
    BY <1>1 DEF Finitely
  <1>7. OneAttemptAtATime'
    BY <1>1, <1>2, <1>3, <1>4 DEF OneAttemptAtATime
  <1>8. Places'
    BY <1>1, <1>4 DEF Places, Kept, EnsuredWorker
  <1>9. Files'
    BY <1>1 DEF Files
  <1>10. Counting'
    BY <1>1 DEF Counting, Waits
  <1>11. Kept'
    <2>1. disk[r] \in {"full", "torn"} /\ (closed => stop # "none")
      BY <1>1 DEF Files, TypeOK, Kept
    <2>2. QED
      BY <1>1, <1>4, <2>1 DEF Kept, Waits
  <1>12. OnlyPoisonRaises'
    BY <1>1 DEF OnlyPoisonRaises, EnsuredWorker
  <1>13. QED
    BY <1>5, <1>6, <1>7, <1>8, <1>9, <1>10, <1>11, <1>12

-----------------------------------------------------------------------------
(* stop *)

\* stop() waits if, and only if, something is left to deliver.
LEMMA StopBeginsKeeps ==
    ASSUME DeliveryInv, NEW close \in BOOLEAN, StopBegins(close)
    PROVE  DeliveryInv'
  <1> USE DEF DeliveryInv
  <1>1. /\ up /\ stop \in {"none", "between"}
        /\ closed' = (closed \/ close) /\ drained' = TRUE
        /\ stop' = IF pending > 0 THEN "waiting" ELSE "proceed"
        /\ UNCHANGED <<up, queue, worker, current, retrying, pending, gaveUp, disk, written,
                       delivered, acked, accepted, crashes>>
    BY DEF StopBegins, outside
  <1>2. InMemory' = InMemory
    BY <1>1 DEF InMemory
  <1>3. closed' \in BOOLEAN
    BY <1>1 DEF TypeOK
  <1>4. stop' \in Stops
    BY <1>1 DEF Stops
  <1>5. TypeOK'
    BY <1>1, <1>3, <1>4 DEF TypeOK
  <1>6. Finitely' /\ OneAttemptAtATime'
    BY <1>1, <1>2 DEF Finitely, OneAttemptAtATime
  <1>7. Places' /\ Files'
    BY <1>1, <1>2 DEF Places, Files
  <1>8. stop = "between" => pending = 0 /\ (gaveUp \/ accepted \subseteq acked)
    BY DEF Counting
  <1>9. stop = "none" => ~gaveUp /\ pending = Cardinality(accepted \ acked)
    BY DEF Counting, Waits
  <1>10. Counting'
    <2>1. CASE pending > 0
      <3>1. stop = "none"
        BY <1>1, <1>8, <2>1
      <3>2. QED
        BY <1>1, <1>9, <2>1, <3>1 DEF Counting, Waits
    <2>2. CASE ~(pending > 0)
      <3>1. pending = 0 /\ (gaveUp \/ accepted \subseteq acked)
        BY <1>1, <1>8, <1>9, <2>2, LeftToDeliver DEF TypeOK
      <3>2. QED
        BY <1>1, <2>2, <3>1 DEF Counting, Waits
    <2>3. QED
      BY <2>1, <2>2
  <1>11. Kept'
    <2>1. stop' = "waiting" => stop = "none"
      BY <1>1, <1>8
    <2>2. stop' \in {"waiting", "proceed"} /\ (closed => closed')
      BY <1>1
    <2>3. QED
      BY <1>1, <1>2, <2>1, <2>2 DEF Kept, Waits
  <1>12. OnlyPoisonRaises'
    BY <1>1 DEF OnlyPoisonRaises
  <1>13. QED
    BY <1>5, <1>6, <1>7, <1>10, <1>11, <1>12

\* Past the wait, with all delivered or with the note that it is not.
LEMMA StopWaitEndsKeeps ==
    ASSUME DeliveryInv, StopWakes \/ StopTimesOut
    PROVE  DeliveryInv'
  <1> USE DEF DeliveryInv
  <1>1. /\ stop' = "proceed"
        /\ \/ stop = "woken" /\ drained' = drained
           \/ stop = "waiting" /\ drained' = FALSE
        /\ UNCHANGED <<up, queue, worker, current, retrying, pending, closed, gaveUp, disk,
                       written, delivered, acked, accepted, crashes>>
    BY DEF StopWakes, StopTimesOut, outside
  <1>2. InMemory' = InMemory
    BY <1>1 DEF InMemory
  <1>3. drained' \in BOOLEAN
    BY <1>1 DEF TypeOK
  <1>4. TypeOK'
    BY <1>1, <1>3 DEF TypeOK, Stops
  <1>5. Finitely' /\ OneAttemptAtATime'
    BY <1>1, <1>2 DEF Finitely, OneAttemptAtATime
  <1>6. Places' /\ Files'
    BY <1>1, <1>2 DEF Places, Files
  <1>7. stop = "woken" => pending = 0 /\ accepted \subseteq acked
    BY LeftToDeliver DEF Counting, Waits
  <1>8. Counting'
    BY <1>1, <1>7 DEF Counting, Waits
  <1>9. Kept'
    BY <1>1, <1>2 DEF Kept, Waits
  <1>10. OnlyPoisonRaises'
    BY <1>1 DEF OnlyPoisonRaises
  <1>11. QED
    BY <1>4, <1>5, <1>6, <1>8, <1>9, <1>10

\* What slept before a retry has its file.
LEMMA StopCancelsRetriesKeeps ==
    ASSUME DeliveryInv, StopCancelsRetries
    PROVE  DeliveryInv'
  <1> USE DEF DeliveryInv
  <1>1. /\ stop = "proceed" /\ stop' = "quieted" /\ retrying' = {}
        /\ UNCHANGED <<up, queue, worker, current, pending, closed, drained, gaveUp, disk,
                       written, delivered, acked, accepted, crashes>>
    BY DEF StopCancelsRetries, outside
  <1>2. InMemory' \subseteq InMemory /\ InMemory \subseteq InMemory' \union retrying
    BY <1>1 DEF InMemory
  <1>3. TypeOK'
    BY <1>1 DEF TypeOK, Stops
  <1>4. Finitely' /\ OneAttemptAtATime'
    BY <1>1, <1>2 DEF Finitely, OneAttemptAtATime
  <1>5. Places' /\ Files'
    BY <1>1, <1>2 DEF Places, Files
  <1>6. Counting' /\ OnlyPoisonRaises'
    BY <1>1 DEF Counting, Waits, OnlyPoisonRaises
  <1>7. Kept'
    <2>1. \A r \in retrying : disk[r] \in {"full", "torn"}
      BY DEF Files, TypeOK
    <2>2. QED
      BY <1>1, <1>2, <2>1 DEF Kept, Waits
  <1>8. QED
    BY <1>3, <1>4, <1>5, <1>6, <1>7

\* After a timeout every buffered request has its file, up to one that cannot be
\* serialised, which raises.
LEMMA StopFlushesKeeps ==
    ASSUME DeliveryInv, StopFlushes
    PROVE  DeliveryInv'
  <1> USE DEF DeliveryInv
  <1> DEFINE Took == /\ Persist(Flushed)
                     /\ queue' = SubSeq(queue, Cardinality(FlushedPlaces) + 2, Len(queue))
                     /\ stop' = IF FlushedPlaces = DOMAIN queue THEN "joining" ELSE "raised"
  <1>1. /\ up /\ stop \in {"proceed", "quieted"}
        /\ IF drained THEN stop' = "joining" /\ UNCHANGED <<queue, disk, written>> ELSE Took
        /\ worker' = IF stop' = "joining" /\ worker \in {"idle", "posting"}
                     THEN "cancelled" ELSE worker
        /\ UNCHANGED <<up, current, retrying, pending, closed, drained, gaveUp, delivered,
                       acked, accepted, crashes>>
    BY DEF StopFlushes
  <1>2. IsInjective(queue) /\ queue \in Seq(Requests) /\ Range(queue) \subseteq InMemory
    BY DEF OneAttemptAtATime, TypeOK, InMemory
  <1>3. /\ stop' \in {"joining", "raised"}
        /\ queue' \in Seq(Requests) /\ IsInjective(queue') /\ Range(queue') \subseteq Range(queue)
        /\ stop' = "joining" /\ ~drained => queue' = <<>>
        /\ Unserialisable = {} => stop' # "raised"
        /\ disk' \in [Requests -> {"absent", "full", "torn"}]
        /\ written \subseteq written' /\ written' \in SUBSET Requests /\ IsFiniteSet(written')
        /\ \A r \in Requests : \/ disk'[r] = disk[r]
                               \/ disk'[r] = "torn" /\ TornWrites
                               \/ /\ disk'[r] = "full" /\ r \in written'
                                  /\ r \in accepted \ acked
        /\ \A r \in Range(queue) \ Unserialisable : r \in Range(queue') \/ disk'[r] # "absent"
        /\ \A r \in Requests : disk[r] # "absent" => disk'[r] # "absent"
    <2>1. CASE drained
      BY <1>1, <1>2, <2>1 DEF TypeOK, Finitely
    <2>2. CASE ~drained
      <3>1. Took
        BY <1>1, <2>2
      <3>2. /\ Flushed \subseteq Range(queue) \ Unserialisable
            /\ queue' \in Seq(Requests) /\ IsInjective(queue')
            /\ Range(queue') \subseteq Range(queue)
            /\ Range(queue) \ Unserialisable \subseteq Flushed \union Range(queue')
            /\ FlushedPlaces = DOMAIN queue => queue' = <<>>
            /\ Unserialisable = {} => FlushedPlaces = DOMAIN queue
        BY <1>2, <3>1, FlushTakes
      <3>3. Flushed \in SUBSET Requests /\ Flushed \subseteq accepted \ acked
        BY <1>2, <3>2, MemoryType DEF Places, OneAttemptAtATime
      <3>4. /\ disk' \in [Requests -> {"absent", "full", "torn"}]
            /\ \A r \in Requests \ Flushed : disk'[r] = disk[r]
            /\ \A r \in Flushed : disk'[r] # "absent"
            /\ ~TornWrites => \A r \in Flushed : disk'[r] = "full"
            /\ \A r \in Flushed : disk'[r] = "full" => r \in written'
            /\ written \subseteq written'
            /\ written' \in SUBSET Requests /\ IsFiniteSet(written')
        BY <3>1, <3>3, PersistChanges
      <3>5. ASSUME NEW r \in Requests
            PROVE  /\ \/ disk'[r] = disk[r]
                      \/ disk'[r] = "torn" /\ TornWrites
                      \/ disk'[r] = "full" /\ r \in written' /\ r \in accepted \ acked
                   /\ disk[r] # "absent" => disk'[r] # "absent"
        <4>1. CASE r \in Flushed
          <5>1. disk'[r] \in {"full", "torn"} /\ r \in accepted \ acked
            BY <3>3, <3>4, <4>1
          <5>2. disk'[r] = "torn" => TornWrites
            BY <3>4, <4>1, <5>1
          <5>3. QED
            BY <3>4, <4>1, <5>1, <5>2
        <4>2. CASE r \notin Flushed
          BY <3>4, <4>2
        <4>3. QED
          BY <4>1, <4>2
      <3>6. stop' = IF FlushedPlaces = DOMAIN queue THEN "joining" ELSE "raised"
        BY <3>1
      <3>7. QED
        BY <3>2, <3>4, <3>5, <3>6
    <2>3. QED
      BY <2>1, <2>2
  <1>4. /\ worker' \in Workers /\ worker' \in {worker, "cancelled"}
        /\ (worker' # worker => stop' = "joining")
        /\ (stop' = "joining" => worker' \in {"none", "cancelled", "failed"})
    <2>1. CASE stop' = "joining" /\ worker \in {"idle", "posting"}
      <3>1. worker' = "cancelled"
        BY <1>1, <2>1
      <3>2. QED
        BY <2>1, <3>1 DEF Workers
    <2>2. CASE ~(stop' = "joining" /\ worker \in {"idle", "posting"})
      <3>1. worker' = worker /\ worker \in Workers
        BY <1>1, <2>2 DEF TypeOK
      <3>2. stop' = "joining" => worker' \in {"none", "cancelled", "failed"}
        BY <2>2, <3>1 DEF Workers
      <3>3. QED
        BY <3>1, <3>2
    <2>3. QED
      BY <2>1, <2>2
  <1>5. InMemory' \subseteq InMemory
    BY <1>1, <1>3 DEF InMemory
  <1>6. TypeOK'
    BY <1>1, <1>3, <1>4 DEF TypeOK, Stops
  <1>7. Finitely'
    BY <1>1, <1>3 DEF Finitely
  <1>8. OneAttemptAtATime'
    BY <1>1, <1>3, <1>5 DEF OneAttemptAtATime
  <1>9. Places'
    BY <1>1, <1>3, <1>4, <1>5 DEF Places
  <1>10. Files'
    <2>1. \A r \in Requests : disk'[r] = "full" =>
             r \in written' \ acked' /\ (up' => r \in accepted')
      BY <1>1, <1>3 DEF Files
    <2>2. \A r \in retrying' : disk'[r] # "absent"
      BY <1>1, <1>3 DEF Files, TypeOK
    <2>3. ~TornWrites => \A r \in Requests : disk'[r] # "torn"
      BY <1>3 DEF Files
    <2>4. QED
      BY <2>1, <2>2, <2>3 DEF Files
  <1>11. Counting'
    BY <1>1, <1>3 DEF Counting, Waits
  <1>12. Kept'
    <2>1. ASSUME NEW r \in accepted' \ Unserialisable
          PROVE  r \in acked' \/ disk'[r] # "absent" \/ r \in InMemory'
      <3>1. r \in Requests /\ (r \in acked \/ disk[r] # "absent" \/ r \in InMemory)
        BY <1>1, <2>1 DEF Kept, TypeOK
      <3>2. CASE r \in Range(queue)
        BY <1>3, <2>1, <3>2 DEF InMemory
      <3>3. CASE r \notin Range(queue)
        BY <1>1, <1>3, <3>1, <3>3 DEF InMemory
      <3>4. QED
        BY <3>2, <3>3
    <2>2. \A r \in accepted' \ Unserialisable :
             \/ r \in acked' \/ disk'[r] = "full"
             \/ r \in InMemory' /\ stop' # "returned"
             \/ disk'[r] = "torn" /\ stop' # "none"
      <3>1. \A r \in accepted' : disk'[r] \in {"absent", "full", "torn"}
        BY <1>1, <1>3 DEF TypeOK
      <3>2. QED
        BY <1>3, <2>1, <3>1
    <2>3. gaveUp' => \A r \in InMemory' \ Unserialisable : disk'[r] # "absent"
      BY <1>1, <1>3, <1>5, MemoryType DEF Kept
    <2>4. QED
      BY <1>1, <1>3, <2>2, <2>3 DEF Kept, Waits
  <1>13. OnlyPoisonRaises'
    BY <1>3, <1>4 DEF OnlyPoisonRaises
  <1>14. QED
    BY <1>6, <1>7, <1>8, <1>9, <1>10, <1>11, <1>12, <1>13

\* What writing the request of a worker that ends leaves in the files.
LEMMA LastPersist ==
    ASSUME DeliveryInv, Persist({current} \ {NoRequest})
    PROVE  /\ disk' \in [Requests -> {"absent", "full", "torn"}]
           /\ written \subseteq written' /\ written' \in SUBSET Requests /\ IsFiniteSet(written')
           /\ \A r \in Requests : disk'[r] = "full" => r \in written' /\ r \notin acked
           /\ \A r \in Requests : disk'[r] = "full" => disk[r] = "full" \/ r \in accepted
           /\ \A r \in Requests : disk[r] # "absent" => disk'[r] # "absent"
           /\ ~TornWrites => \A r \in Requests : disk'[r] # "torn"
           /\ current \in Requests => disk'[current] # "absent"
           /\ \A r \in Requests \ {current} : disk'[r] = disk[r]
  <1> USE DEF DeliveryInv
  <1> DEFINE S == {current} \ {NoRequest}
  <1>1. S \subseteq InMemory
    BY DEF InMemory
  <1>2. S \in SUBSET Requests /\ S \subseteq accepted /\ S \intersect acked = {}
    BY <1>1, MemoryType DEF Places, OneAttemptAtATime
  <1>3. current \in Requests => current \in S
    BY ConstantsAssumption
  <1>4. \A r \in S : r = current
    OBVIOUS
  <1> HIDE DEF S
  <1>5. /\ disk' \in [Requests -> {"absent", "full", "torn"}]
        /\ \A r \in Requests \ S : disk'[r] = disk[r]
        /\ \A r \in S : disk'[r] # "absent"
        /\ ~TornWrites => \A r \in S : disk'[r] = "full"
        /\ \A r \in S : disk'[r] = "full" => r \in written'
        /\ written \subseteq written'
        /\ written' \in SUBSET Requests /\ IsFiniteSet(written')
    BY <1>2, PersistChanges DEF S
  <1>6. QED
    BY <1>2, <1>3, <1>4, <1>5 DEF Files, TypeOK

\* The worker has ended and its request is in a file; a stop that gave up has
\* everything in files, one that has not has nothing left.
LEMMA StopJoinsKeeps ==
    ASSUME DeliveryInv, StopJoins
    PROVE  DeliveryInv'
  <1> USE DEF DeliveryInv
  <1>1. /\ up /\ stop = "joining" /\ current' = NoRequest
        /\ UNCHANGED <<up, queue, retrying, closed, drained, delivered, acked, accepted, crashes>>
    BY DEF StopJoins
  <1>2. /\ Range(queue) \subseteq InMemory /\ InMemory' = Range(queue) \union retrying
        /\ InMemory' \subseteq InMemory /\ InMemory \subseteq InMemory' \union {current}
        /\ NoRequest \notin Range(queue) \union retrying
    BY <1>1, MemoryType DEF InMemory
  <1>3. CASE worker = "failed"
    <2>1. /\ stop' = "raised" /\ UNCHANGED <<worker, pending, gaveUp, disk, written>>
          /\ current = NoRequest
      BY <1>1, <1>3 DEF StopJoins, Places
    <2>2. InMemory' = InMemory
      BY <1>1, <2>1 DEF InMemory
    <2>3. TypeOK'
      BY <1>1, <2>1 DEF TypeOK, Stops
    <2>4. Finitely' /\ OneAttemptAtATime'
      BY <1>1, <2>1, <2>2 DEF Finitely, OneAttemptAtATime
    <2>5. Places' /\ Files'
      BY <1>1, <2>1, <2>2 DEF Places, Files
    <2>6. Counting' /\ OnlyPoisonRaises'
      BY <1>1, <1>3, <2>1 DEF Counting, Waits, OnlyPoisonRaises
    <2>7. Kept'
      BY <1>1, <2>1, <2>2 DEF Kept, Waits
    <2>8. QED
      BY <2>3, <2>4, <2>5, <2>6, <2>7
  <1>4. CASE worker # "failed"
    <2>1. /\ stop' = IF closed THEN "returned" ELSE "between"
          /\ worker' = "none" /\ Persist({current} \ {NoRequest})
          /\ pending' = IF drained THEN pending ELSE 0
          /\ gaveUp' = (gaveUp \/ ~drained)
      BY <1>4 DEF StopJoins
    <2>2. /\ disk' \in [Requests -> {"absent", "full", "torn"}]
          /\ written \subseteq written' /\ written' \in SUBSET Requests /\ IsFiniteSet(written')
          /\ \A r \in Requests : disk'[r] = "full" => r \in written' /\ r \notin acked
          /\ \A r \in Requests : disk'[r] = "full" => disk[r] = "full" \/ r \in accepted
          /\ \A r \in Requests : disk[r] # "absent" => disk'[r] # "absent"
          /\ ~TornWrites => \A r \in Requests : disk'[r] # "torn"
          /\ current \in Requests => disk'[current] # "absent"
      BY <2>1, LastPersist
    <2>3. stop' \in {"returned", "between"} /\ (stop' = "returned" <=> closed)
      BY <2>1
    <2>4. gaveUp' \in BOOLEAN
      BY <2>1 DEF TypeOK
    <2>5. pending' \in Nat
      BY <2>1 DEF TypeOK
    <2>6. TypeOK'
      BY <1>1, <2>1, <2>2, <2>3, <2>4, <2>5 DEF TypeOK, Workers, Stops
    <2>7. Finitely'
      BY <1>1, <2>2 DEF Finitely
    <2>8. OneAttemptAtATime'
      BY <1>1, <1>2 DEF OneAttemptAtATime
    <2>9. Places'
      <3>1. NoRequest \notin Unserialisable
        BY ConstantsAssumption
      <3>2. QED
        BY <1>1, <1>2, <2>1, <2>3, <3>1 DEF Places
    <2>10. Files'
      BY <1>1, <2>2 DEF Files, TypeOK
    <2>11. Counting'
      BY <1>1, <2>1, <2>3 DEF Counting, Waits
    <2>12. Kept'
      <3>1. ASSUME gaveUp', NEW r \in InMemory' \ Unserialisable PROVE disk'[r] # "absent"
        <4>1. r \in InMemory /\ r \in Requests
          BY <1>2, <3>1, MemoryType
        <4>2. CASE gaveUp
          BY <2>2, <3>1, <4>1, <4>2 DEF Kept
        <4>3. CASE ~gaveUp
          <5>1. ~drained
            BY <2>1, <3>1, <4>3
          <5>2. queue = <<>>
            BY <1>1, <5>1 DEF Kept
          <5>3. r \in retrying
            BY <1>2, <3>1, <5>2, EmptyQueue
          <5>4. QED
            BY <2>2, <4>1, <5>3 DEF Files
        <4>4. QED
          BY <4>2, <4>3
      <3>2. ASSUME NEW r \in accepted' \ Unserialisable
            PROVE  r \in acked' \/ disk'[r] # "absent" \/ (r \in InMemory' /\ stop' # "returned")
        <4>1. r \in Requests /\ (r \in acked \/ disk[r] # "absent" \/ r \in InMemory)
          BY <1>1, <3>2 DEF Kept, TypeOK
        <4>2. CASE r \in InMemory'
          <5>1. CASE gaveUp'
            BY <3>1, <3>2, <4>2, <5>1
          <5>2. CASE ~gaveUp'
            <6>1. drained /\ ~gaveUp
              BY <2>1, <5>2 DEF TypeOK
            <6>2. accepted \subseteq acked
              BY <1>1, <6>1 DEF Counting
            <6>3. QED
              BY <1>1, <3>2, <6>2
          <5>3. QED
            BY <5>1, <5>2
        <4>3. CASE r \notin InMemory'
          BY <1>1, <1>2, <2>2, <4>1, <4>3
        <4>4. QED
          BY <4>2, <4>3
      <3>3. \A r \in accepted' \ Unserialisable :
               \/ r \in acked' \/ disk'[r] = "full"
               \/ r \in InMemory' /\ stop' # "returned"
               \/ disk'[r] = "torn" /\ stop' # "none"
        <4>1. \A r \in accepted' : disk'[r] \in {"absent", "full", "torn"}
          BY <1>1, <2>2 DEF TypeOK
        <4>2. QED
          BY <2>3, <3>2, <4>1
      <3>4. QED
        BY <1>1, <2>3, <3>1, <3>3 DEF Kept, Waits
    <2>13. OnlyPoisonRaises'
      BY <2>1, <2>3 DEF OnlyPoisonRaises
    <2>14. QED
      BY <2>6, <2>7, <2>8, <2>9, <2>10, <2>11, <2>12, <2>13
  <1>5. QED
    BY <1>3, <1>4

-----------------------------------------------------------------------------
(* The process ends and starts again *)

\* A process that is down holds nothing; what there is, is in the files.
LEMMA EndsKeeps ==
    ASSUME DeliveryInv, Ends, UNCHANGED <<delivered, acked>>,
           disk' \in [Requests -> {"absent", "full", "torn"}],
           written \subseteq written', written' \in SUBSET Requests, IsFiniteSet(written'),
           \A r \in Requests : disk'[r] = "full" => r \in written' \ acked,
           ~TornWrites => \A r \in Requests : disk'[r] # "torn",
           crashes' \in Nat
    PROVE  DeliveryInv'
  <1> USE DEF DeliveryInv
  <1>1. /\ up' = FALSE /\ accepted' = {} /\ queue' = <<>> /\ worker' = "none"
        /\ current' = NoRequest /\ retrying' = {} /\ pending' = 0 /\ closed' = FALSE
        /\ stop' = "none" /\ drained' = TRUE /\ gaveUp' = FALSE
    BY EmptySeq DEF Ends, FreshMemory
  <1>2. Range(queue') = {} /\ IsInjective(queue') /\ queue' \in Seq(Requests)
    BY <1>1, EmptyQueue, EmptySeq
  <1>3. InMemory' = {}
    BY <1>1, <1>2 DEF InMemory
  <1>4. TypeOK'
    BY <1>1, <1>2 DEF TypeOK, Workers, Stops
  <1>5. Finitely'
    BY <1>1, FS_EmptySet DEF Finitely
  <1>6. OneAttemptAtATime'
    BY <1>1, <1>2, <1>3 DEF OneAttemptAtATime
  <1>7. Places'
    BY <1>1, <1>3, ConstantsAssumption DEF Places
  <1>8. Files'
    BY <1>1 DEF Files
  <1>9. Counting'
    <2>1. accepted' \ acked' = {}
      BY <1>1
    <2>2. Cardinality(accepted' \ acked') = 0
      BY <2>1, FS_EmptySet
    <2>3. QED
      BY <1>1, <2>2 DEF Counting, Waits
  <1>10. Kept'
    BY <1>1, <1>3 DEF Kept, Waits
  <1>11. OnlyPoisonRaises'
    BY <1>1 DEF OnlyPoisonRaises
  <1>12. QED
    BY <1>4, <1>5, <1>6, <1>7, <1>8, <1>9, <1>10, <1>11

\* The event loop ends: the worker writes the request it was posting.
LEMMA LeavesKeeps ==
    ASSUME DeliveryInv, Leaves
    PROVE  DeliveryInv'
  <1>1. /\ disk' \in [Requests -> {"absent", "full", "torn"}]
        /\ written \subseteq written' /\ written' \in SUBSET Requests /\ IsFiniteSet(written')
        /\ \A r \in Requests : disk'[r] = "full" => r \in written' \ acked
        /\ ~TornWrites => \A r \in Requests : disk'[r] # "torn"
    BY LastPersist DEF Leaves
  <1>2. Ends /\ UNCHANGED <<delivered, acked>> /\ crashes' \in Nat
    BY DEF Leaves, DeliveryInv, TypeOK
  <1>3. QED
    BY <1>1, <1>2, EndsKeeps

\* A crash cuts at most the record that is being written.
LEMMA CrashKeeps ==
    ASSUME DeliveryInv, Crash
    PROVE  DeliveryInv'
  <1>1. PICK cut \in {{}} \union (IF TornWrites THEN {{r} : r \in AboutToWrite} ELSE {}) :
           disk' = [r \in Requests |-> IF r \in cut THEN "torn" ELSE disk[r]]
    BY DEF Crash
  <1>2. ~TornWrites => cut = {}
    BY <1>1
  <1>3. /\ disk' \in [Requests -> {"absent", "full", "torn"}]
        /\ \A r \in Requests : disk'[r] = "full" => r \in written \ acked
        /\ ~TornWrites => \A r \in Requests : disk'[r] # "torn"
    BY <1>1, <1>2 DEF DeliveryInv, TypeOK, Files
  <1>4. /\ Ends /\ UNCHANGED <<delivered, acked, written>> /\ crashes' = crashes + 1
    BY DEF Crash
  <1>5. written \in SUBSET Requests /\ IsFiniteSet(written) /\ crashes \in Nat
    BY DEF DeliveryInv, TypeOK, Finitely
  <1>6. QED
    BY <1>3, <1>4, <1>5, EndsKeeps

\* A restart queues every record that can be read, each once, in some order.
LEMMA BootKeeps ==
    ASSUME DeliveryInv, Boot
    PROVE  DeliveryInv'
  <1> USE DEF DeliveryInv
  <1> DEFINE good == {r \in Requests : disk[r] = "full"}
  <1>1. /\ ~up /\ up' = TRUE /\ accepted' = good
        /\ disk' = [r \in Requests |-> IF r \in good THEN "full" ELSE "absent"]
        /\ UNCHANGED <<written, delivered, acked, crashes>>
    BY DEF Boot
  <1>2. PICK q \in [1..Cardinality(good) -> good] : IsInjective(q) /\ FreshMemory(q)
    BY DEF Boot
  <1>3. /\ queue' = q /\ worker' = (IF q = <<>> THEN "none" ELSE "idle")
        /\ current' = NoRequest /\ retrying' = {} /\ pending' = Len(q) /\ closed' = FALSE
        /\ stop' = "none" /\ drained' = TRUE /\ gaveUp' = FALSE
    BY <1>2 DEF FreshMemory
  <1>4. good \subseteq Requests /\ good \subseteq written /\ good \intersect acked = {}
    BY DEF Files
  <1>5. IsFiniteSet(good)
    BY <1>4, FS_Subset DEF Finitely
  <1>6. \A r \in Requests : disk'[r] = IF r \in good THEN "full" ELSE "absent"
    BY <1>1
  <1> HIDE DEF good
  <1>7. q \in Seq(good) /\ Len(q) = Cardinality(good) /\ Range(q) = good
    BY <1>2, <1>5, OrderingHoldsAll
  <1>8. q \in Seq(Requests) /\ Len(q) \in Nat
    BY <1>4, <1>7, SeqMonotonic, LenProperties
  <1>9. InMemory' = good
    BY <1>3, <1>7 DEF InMemory
  <1>10. TypeOK'
    <2>1. disk' \in [Requests -> {"absent", "full", "torn"}]
      BY <1>1
    <2>2. worker' \in Workers
      BY <1>3 DEF Workers
    <2>3. QED
      BY <1>1, <1>3, <1>4, <1>8, <2>1, <2>2 DEF TypeOK, Stops
  <1>11. Finitely'
    BY <1>1, <1>5 DEF Finitely
  <1>12. OneAttemptAtATime'
    BY <1>1, <1>2, <1>3, <1>4, <1>7, <1>9, ConstantsAssumption DEF OneAttemptAtATime
  <1>13. Places'
    BY <1>1, <1>3, <1>9, ConstantsAssumption DEF Places
  <1>14. Files'
    BY <1>1, <1>3, <1>4, <1>6 DEF Files
  <1>15. Counting'
    <2>1. accepted' \ acked' = good
      BY <1>1, <1>4
    <2>2. QED
      BY <1>3, <1>7, <2>1 DEF Counting, Waits
  <1>16. Kept'
    BY <1>1, <1>3, <1>9 DEF Kept, Waits
  <1>17. OnlyPoisonRaises'
    BY <1>3 DEF OnlyPoisonRaises
  <1>18. QED
    BY <1>10, <1>11, <1>12, <1>13, <1>14, <1>15, <1>16, <1>17

-----------------------------------------------------------------------------
(* The theorems *)

\* Every step of the worker, of stop() and of the retries keeps the invariant.
LEMMA DeliveryMovesKeep ==
    ASSUME DeliveryInv,
           \/ WorkerMoves \/ AdminReceives \/ StopMoves
           \/ \E r \in Requests : RetryFires(r)
    PROVE  DeliveryInv'
  BY TakeRequestKeeps, PostSucceedsKeeps, PostFailsKeeps, AdminReceivesKeeps, RetryFiresKeeps,
     StopWaitEndsKeeps, StopCancelsRetriesKeeps, StopFlushesKeeps, StopJoinsKeeps
     DEF WorkerMoves, StopMoves

\* A step that leaves the manager alone keeps what is true of it.
LEMMA DeliveryStutters == DeliveryInv /\ UNCHANGED vars => DeliveryInv'
  <1> SUFFICES ASSUME DeliveryInv, UNCHANGED vars PROVE DeliveryInv'
    OBVIOUS
  <1> USE DEF DeliveryInv
  <1>1. UNCHANGED <<up, queue, worker, current, retrying, pending, closed, stop, drained, gaveUp,
                    disk, written, delivered, acked, accepted, crashes>>
    BY DEF vars, memory, outside
  <1>2. InMemory' = InMemory
    BY <1>1 DEF InMemory
  <1>3. TypeOK' /\ Finitely'
    BY <1>1 DEF TypeOK, Finitely
  <1>4. OneAttemptAtATime' /\ Places' /\ Files'
    BY <1>1, <1>2 DEF OneAttemptAtATime, Places, Files
  <1>5. Counting' /\ Kept' /\ OnlyPoisonRaises'
    BY <1>1, <1>2 DEF Counting, Kept, Waits, OnlyPoisonRaises
  <1>6. QED
    BY <1>3, <1>4, <1>5

\* Every step keeps the inductive invariant.
LEMMA DeliveryStep == DeliveryInv /\ [Next]_vars => DeliveryInv'
  <1> SUFFICES ASSUME DeliveryInv, [Next]_vars PROVE DeliveryInv'
    OBVIOUS
  <1>1. ASSUME NEW r \in Requests, Enqueue(r) PROVE DeliveryInv'
    BY <1>1, EnqueueKeeps
  <1>2. CASE WorkerMoves \/ AdminReceives \/ StopMoves \/ \E r \in Requests : RetryFires(r)
    BY <1>2, DeliveryMovesKeep
  <1>3. ASSUME NEW close \in BOOLEAN, StopBegins(close) PROVE DeliveryInv'
    BY <1>3, StopBeginsKeeps
  <1>4. CASE Exit
    BY <1>4, LeavesKeeps DEF Exit
  <1>5. CASE Crash
    BY <1>5, CrashKeeps
  <1>6. CASE Boot
    BY <1>6, BootKeeps
  <1>7. CASE UNCHANGED vars
    BY <1>7, DeliveryStutters
  <1>8. QED
    BY <1>1, <1>2, <1>3, <1>4, <1>5, <1>6, <1>7 DEF Next

\* The inductive invariant: where a request may be, what its file says, what the
\* counter counts and what a stop may rely on.
THEOREM DeliveryInvariant == Spec => []DeliveryInv
  BY DeliveryInit, DeliveryStep, PTL DEF Spec

\* Every variable stays within its type.
THEOREM DeliveryTypeCorrect == Spec => []TypeOK
  BY DeliveryInvariant, PTL DEF DeliveryInv

\* Retries, replays and flushes never make two attempts of one request, and none
\* of a request that is done.
THEOREM AttemptsAreSingle == Spec => []OneAttemptAtATime
  BY DeliveryInvariant, PTL DEF DeliveryInv

\* A stop() that reports success, after none that gave up, has delivered all the
\* process had accepted: whatever fails, is retried or cannot be serialised.
THEOREM DrainedIsDelivered == Spec => []DrainedMeansDelivered
  <1>1. DeliveryInv => DrainedMeansDelivered
    BY DEF DeliveryInv, Counting, DrainedMeansDelivered
  <1>2. QED
    BY <1>1, DeliveryInvariant, PTL

\* Without a request that cannot be serialised the counter is the number of
\* requests in memory, until a stop gives up or closes the manager.
THEOREM PendingCountsMemory == Unserialisable = {} /\ Spec => []PendingIsExact
  <1>1. ASSUME Unserialisable = {}, DeliveryInv PROVE PendingIsExact
    <2> USE DEF DeliveryInv
    <2> SUFFICES ASSUME Waits, ~closed PROVE pending = Cardinality(InMemory)
      BY DEF PendingIsExact, Waits
    <2>1. InMemory = accepted \ acked
      BY <1>1 DEF Kept, Places, OneAttemptAtATime
    <2>2. pending = Cardinality(accepted \ acked)
      BY <1>1 DEF Counting
    <2>3. QED
      BY ONLY <2>1, <2>2
  <1>2. Unserialisable = {} => (DeliveryInv => PendingIsExact)
    BY <1>1
  <1>3. CASE Unserialisable = {}
    <2>1. DeliveryInv => PendingIsExact
      BY <1>2, <1>3
    <2>2. QED
      BY <2>1, DeliveryInvariant, PTL
  <1>4. QED
    BY <1>3

\* Where every request can be serialised and every record is written whole, what
\* a process accepts or replays is acknowledged, in a file or in its memory, and
\* no longer in memory only once it is stopped.
THEOREM RequestsDoNotVanish == Unserialisable = {} /\ ~TornWrites /\ Spec => []NothingVanishes
  <1>1. ASSUME Unserialisable = {}, ~TornWrites, DeliveryInv PROVE NothingVanishes
    <2>1. \A r \in accepted : disk[r] # "torn"
      BY <1>1 DEF DeliveryInv, Files, TypeOK
    <2>2. QED
      BY <1>1, <2>1 DEF DeliveryInv, Kept, NothingVanishes
  <1>2. CASE Unserialisable = {} /\ ~TornWrites
    <2>1. DeliveryInv => NothingVanishes
      BY <1>1, <1>2
    <2>2. QED
      BY <2>1, DeliveryInvariant, PTL
  <1>3. QED
    BY <1>2

-----------------------------------------------------------------------------
(* The outbox: what delivery promises of each request *)

\* Where the outbox has a request, in terms of the manager.
Promise(r) ==
    IF r \in acked THEN "done"
    ELSE IF disk[r] = "full" THEN "stored"
    ELSE IF r \in accepted THEN "held" ELSE "none"

\* The state of the outbox, which ImplementsOutbox maps to it.
Promises == [r \in Requests |-> Promise(r)]

\* A step that moves no request and is not seen by the admin is none of the
\* outbox.
LEMMA OutboxStutters ==
    ASSUME UNCHANGED <<delivered, crashes>>, \A r \in Requests : Promise(r)' = Promise(r)
    PROVE  UNCHANGED Outbox!vars
  <1>1. Promises' = Promises
    BY DEF Promises
  <1>2. QED
    BY <1>1 DEF Outbox!vars, Promises, Promise

\* An accepted request is held.
LEMMA EnqueueAccepts ==
    ASSUME DeliveryInv, NEW r \in Requests, Enqueue(r)
    PROVE  Outbox!Next
  <1>1. /\ r \notin accepted /\ r \notin written /\ r \notin delivered
        /\ accepted' = accepted \union {r} /\ UNCHANGED <<disk, acked, delivered, crashes>>
    BY DEF Enqueue, outside
  <1>2. disk[r] # "full" /\ r \notin acked
    BY <1>1 DEF DeliveryInv, Files, Places
  <1>3. Promise(r) = "none" /\ Promise(r)' = "held"
    BY <1>1, <1>2 DEF Promise
  <1>4. \A x \in Requests : x # r => Promise(x)' = Promise(x)
    BY <1>1 DEF Promise
  <1>5. Promises[r] = "none" /\ Promises' = [Promises EXCEPT ![r] = "held"]
    BY <1>3, <1>4 DEF Promises
  <1>6. Outbox!Accept(r)
    BY <1>1, <1>5 DEF Outbox!Accept, Outbox!Becomes, Promises, Promise
  <1>7. QED
    BY <1>6 DEF Outbox!Next

\* A request with the worker is owed to the admin, and may be received.
LEMMA AdminReceivesReceives ==
    ASSUME DeliveryInv, AdminReceives
    PROVE  Outbox!Next
  <1>1. /\ delivered' = delivered \union {current} /\ current \in Requests
        /\ UNCHANGED <<disk, acked, accepted, crashes>>
    BY DEF AdminReceives, memory
  <1>2. current \in accepted \ acked
    BY <1>1, ConstantsAssumption DEF DeliveryInv, Places, OneAttemptAtATime, InMemory
  <1>3. Promise(current) \in {"held", "stored"}
    BY <1>2 DEF Promise
  <1>4. Promises[current] \in {"held", "stored"} /\ Promises' = Promises
    BY <1>1, <1>3 DEF Promises, Promise
  <1>5. Outbox!Receive(current)
    BY <1>1, <1>4 DEF Outbox!Receive, Promises, Promise
  <1>6. QED
    BY <1>1, <1>5 DEF Outbox!Next

\* An acknowledged request is done, whether it was stored or not.
LEMMA PostSucceedsConfirms ==
    ASSUME DeliveryInv, PostSucceeds
    PROVE  Outbox!Next
  <1>1. /\ worker = "posting" /\ current \in delivered /\ acked' = acked \union {current}
        /\ disk' = [disk EXCEPT ![current] = "absent"]
        /\ UNCHANGED <<delivered, accepted, crashes>>
    BY DEF PostSucceeds
  <1>2. current \in accepted \ acked /\ current \in Requests
    BY <1>1 DEF DeliveryInv, Places, OneAttemptAtATime, InMemory, TypeOK
  <1>3. Promise(current) \in {"held", "stored"}
    BY <1>2 DEF Promise
  <1>a. ASSUME NEW x \in Requests, x = current PROVE Promise(x)' = "done"
    BY <1>1, <1>a DEF Promise
  <1>4. \A x \in Requests : x # current => Promise(x)' = Promise(x)
    BY <1>1, <1>2 DEF Promise, DeliveryInv, TypeOK
  <1>5. /\ Promises[current] \in {"held", "stored"}
        /\ Promises' = [Promises EXCEPT ![current] = "done"]
    <2>1. Promises[current] = Promise(current)
      BY <1>2 DEF Promises
    <2>2. \A x \in Requests : Promise(x)' = IF x = current THEN "done" ELSE Promise(x)
      BY <1>a, <1>4
    <2>3. Promises' = [x \in Requests |-> IF x = current THEN "done" ELSE Promise(x)]
      BY <2>2 DEF Promises
    <2>4. QED
      BY <1>3, <2>1, <2>3 DEF Promises
  <1>6. PICK r \in Requests : r = current
    BY <1>2
  <1>7. Outbox!Confirm(r)
    BY <1>1, <1>5, <1>6 DEF Outbox!Confirm, Outbox!Becomes, Promises, Promise
  <1>8. QED
    BY <1>7 DEF Outbox!Next

\* Requests whose records are written are stored, those that were not yet.
LEMMA PersistStores ==
    ASSUME DeliveryInv, ~TornWrites, NEW S, S \subseteq accepted \ acked, Persist(S),
           UNCHANGED <<accepted, acked, delivered, crashes>>
    PROVE  Outbox!Next
  <1>1. S \in SUBSET Requests
    BY DEF DeliveryInv, TypeOK
  <1>a. PICK new \in SUBSET Requests : new = {r \in S : disk[r] # "full"}
    BY <1>1
  <1>2. /\ \A r \in Requests \ S : disk'[r] = disk[r]
        /\ \A r \in S : disk'[r] = "full"
    BY <1>1, PersistChanges DEF DeliveryInv
  <1>3. \A r \in Requests : Promise(r)' = IF r \in new THEN "stored" ELSE Promise(r)
    BY <1>a, <1>2 DEF Promise
  <1>4. \A r \in new : Promise(r) = "held"
    BY <1>1, <1>a DEF Promise
  <1>5. /\ \A r \in new : Promises[r] = "held"
        /\ Promises' = [r \in Requests |-> IF r \in new THEN "stored" ELSE Promises[r]]
    BY <1>3, <1>4 DEF Promises
  <1>6. Outbox!Store(new)
    BY <1>5 DEF Outbox!Store, Promises, Promise
  <1>7. QED
    BY <1>6 DEF Outbox!Next

\* A crash forgets what had no record.
LEMMA CrashForgets ==
    ASSUME DeliveryInv, ~TornWrites, Crash
    PROVE  Outbox!Next
  <1>1. disk' = disk
    <2>1. disk' = [r \in Requests |-> disk[r]]
      BY DEF Crash
    <2>2. QED
      BY <2>1 DEF DeliveryInv, TypeOK
  <1>2. /\ crashes < MaxCrashes /\ crashes' = crashes + 1 /\ accepted' = {}
        /\ UNCHANGED <<acked, delivered>>
    BY DEF Crash, Ends
  <1>3. \A r \in Requests : Promise(r)' = IF Promise(r) = "held" THEN "none" ELSE Promise(r)
    BY <1>1, <1>2 DEF Promise
  <1>4. Promises' = [r \in Requests |-> IF Promises[r] = "held" THEN "none" ELSE Promises[r]]
    BY <1>3 DEF Promises
  <1>5. Outbox!Forget
    BY <1>2, <1>4 DEF Outbox!Forget, Promises, Promise
  <1>6. QED
    BY <1>5 DEF Outbox!Next

\* A process that has stopped leaves nothing that is only held.
LEMMA ExitForgetsNothing ==
    ASSUME DeliveryInv, ~TornWrites, Unserialisable = {}, Exit
    PROVE  UNCHANGED Outbox!vars
  <1>1. /\ stop = "returned" /\ Persist({current} \ {NoRequest}) /\ accepted' = {}
        /\ UNCHANGED <<delivered, acked, crashes>>
    BY DEF Exit, Leaves, Ends, DeliveryInv, OnlyPoisonRaises
  <1>2. current = NoRequest
    BY <1>1 DEF DeliveryInv, Places
  <1>3. \A r \in Requests : disk'[r] = disk[r]
    <2>1. \A r \in Requests \ {current} : disk'[r] = disk[r]
      BY <1>1, LastPersist
    <2>2. QED
      BY <1>2, <2>1, ConstantsAssumption
  <1>4. \A r \in accepted : r \in acked \/ disk[r] = "full"
    <2>1. \A r \in accepted : disk[r] # "torn"
      BY DEF DeliveryInv, Files, TypeOK
    <2>2. QED
      BY <1>1, <2>1 DEF DeliveryInv, Kept
  <1>5. \A r \in Requests : Promise(r)' = Promise(r)
    BY <1>1, <1>3, <1>4 DEF Promise
  <1>6. QED
    BY <1>1, <1>5, OutboxStutters

\* A replay changes no promise.
LEMMA BootKeepsPromises ==
    ASSUME DeliveryInv, ~TornWrites, Boot
    PROVE  UNCHANGED Outbox!vars
  <1>1. /\ accepted = {} /\ accepted' = {r \in Requests : disk[r] = "full"}
        /\ disk' = [r \in Requests |->
                       IF r \in {x \in Requests : disk[x] = "full"} THEN "full" ELSE "absent"]
        /\ UNCHANGED <<delivered, acked, crashes>>
    BY DEF Boot, DeliveryInv, Places
  <1>2. \A r \in Requests : disk'[r] = IF disk[r] = "full" THEN "full" ELSE "absent"
    BY <1>1
  <1>3. \A r \in Requests : Promise(r)' = Promise(r)
    BY <1>1, <1>2 DEF Promise
  <1>4. QED
    BY <1>1, <1>3, OutboxStutters

\* Every step of the manager is a step of the outbox, or none.
LEMMA OutboxStep ==
    ASSUME DeliveryInv, ~TornWrites, Unserialisable = {}, [Next]_vars
    PROVE  [Outbox!Next]_Outbox!vars
  <1>1. ASSUME NEW r \in Requests, Enqueue(r) PROVE Outbox!Next
    BY <1>1, EnqueueAccepts
  <1>2. CASE AdminReceives
    BY <1>2, AdminReceivesReceives
  <1>3. CASE PostSucceeds
    BY <1>3, PostSucceedsConfirms
  <1>4. CASE PostFails
    <2>1. Persist({current}) /\ UNCHANGED <<accepted, acked, delivered, crashes>>
      BY <1>4 DEF PostFails
    <2>2. {current} \subseteq accepted \ acked
      BY <1>4 DEF PostFails, DeliveryInv, Places, OneAttemptAtATime, InMemory
    <2>3. QED
      BY <2>1, <2>2, PersistStores
  <1>5. CASE StopFlushes
    <2>1. UNCHANGED <<accepted, acked, delivered, crashes>>
      BY <1>5 DEF StopFlushes
    <2>2. CASE drained
      <3>1. disk' = disk
        BY <1>5, <2>2 DEF StopFlushes
      <3>2. \A r \in Requests : Promise(r)' = Promise(r)
        BY <2>1, <3>1 DEF Promise
      <3>3. QED
        BY <2>1, <3>2, OutboxStutters
    <2>3. CASE ~drained
      <3>1. Persist(Flushed)
        BY <1>5, <2>3 DEF StopFlushes
      <3>2. Flushed \subseteq Range(queue)
        BY FlushTakes DEF DeliveryInv, OneAttemptAtATime
      <3>3. Flushed \subseteq accepted \ acked
        BY <3>2 DEF DeliveryInv, Places, OneAttemptAtATime, InMemory
      <3>4. QED
        BY <2>1, <3>1, <3>3, PersistStores
    <2>4. QED
      BY <2>2, <2>3
  <1>6. CASE StopJoins
    <2>1. UNCHANGED <<accepted, acked, delivered, crashes>> /\ worker # "failed"
      BY <1>6 DEF StopJoins, DeliveryInv, OnlyPoisonRaises
    <2>2. Persist({current} \ {NoRequest})
      BY <1>6, <2>1 DEF StopJoins
    <2>3. {current} \ {NoRequest} \subseteq accepted \ acked
      BY DEF DeliveryInv, Places, OneAttemptAtATime, InMemory
    <2>4. QED
      BY <2>1, <2>2, <2>3, PersistStores
  <1>7. CASE Exit
    BY <1>7, ExitForgetsNothing
  <1>8. CASE Crash
    BY <1>8, CrashForgets
  <1>9. CASE Boot
    BY <1>9, BootKeepsPromises
  <1>10. CASE \/ TakeRequest \/ StopWakes \/ StopTimesOut \/ StopCancelsRetries
              \/ \E r \in Requests : RetryFires(r)
              \/ \E close \in BOOLEAN : StopBegins(close)
              \/ UNCHANGED vars
    <2>1. UNCHANGED <<disk, accepted, acked, delivered, crashes>>
      BY <1>10 DEF TakeRequest, StopWakes, StopTimesOut, StopCancelsRetries, RetryFires,
                   StopBegins, vars, outside
    <2>2. \A r \in Requests : Promise(r)' = Promise(r)
      BY <2>1 DEF Promise
    <2>3. QED
      BY <2>1, <2>2, OutboxStutters
  <1>11. QED
    BY <1>1, <1>2, <1>3, <1>4, <1>5, <1>6, <1>7, <1>8, <1>9, <1>10
       DEF Next, WorkerMoves, StopMoves

\* What is acknowledged is done for good and what is in a file stays there until
\* it is: through every retry, replay, stop and crash delivery implements the
\* outbox, where records are written whole and every request can be serialised.
THEOREM DeliveryImplementsOutbox ==
    Unserialisable = {} /\ ~TornWrites /\ Spec => ImplementsOutbox
  <1> SUFFICES ASSUME Unserialisable = {}, ~TornWrites
               PROVE  Spec => ImplementsOutbox
    OBVIOUS
  <1>1. Init => Outbox!Init
    BY DEF Init, Outbox!Init
  <1>2. DeliveryInv /\ [Next]_vars => [Outbox!Next]_Outbox!vars
    BY OutboxStep
  <1>3. QED
    BY <1>1, <1>2, DeliveryInvariant, PTL DEF Spec, ImplementsOutbox, Outbox!Spec
================================================================================
