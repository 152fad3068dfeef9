---------------------------- MODULE LifecycleProofs ----------------------------
(***************************************************************************)
(* Proofs about Lifecycle, over the invariant of CallbackManager: whatever *)
(* the clean-up does to the manager, and however often the process dies.   *)
(***************************************************************************)
EXTENDS Lifecycle, CallbackManagerProofs

\* What the process has accepted is owed until its result is enqueued, and the
\* manager is stopped only by a clean-up that has let the executor settle: what
\* a closed manager drops is never the result of a trigger.
Settling ==
    /\ up => promised \ owing \subseteq accepted
    /\ stop # "none" => cleanup \in {"closing", "shutting"} /\ owing = {}

\* The inductive invariant.
LifecycleInv == DeliveryInv /\ LifecycleTypeOK /\ Settling

-----------------------------------------------------------------------------
\* The delivery by itself neither begins nor undoes a stop, and accepts nothing.
LEMMA DeliveryLeavesTheRest ==
    ASSUME LifecycleInv, Delivery
    PROVE  /\ DeliveryInv'
           /\ UNCHANGED <<up, accepted, cleanup, owing, promised>>
           /\ stop = "none" => stop' = "none"
  <1>1. WorkerMoves \/ AdminReceives \/ (\E r \in Requests : RetryFires(r)) \/ StopMoves
    BY DEF Delivery
  <1>2. DeliveryInv'
    BY <1>1, DeliveryMovesKeep DEF LifecycleInv
  <1>3. UNCHANGED <<cleanup, owing, promised>>
    BY DEF Delivery, lifeVars
  <1>4. CASE TakeRequest \/ AdminReceives \/ PostFails \/ \E r \in Requests : RetryFires(r)
    BY <1>2, <1>3, <1>4 DEF TakeRequest, AdminReceives, PostFails, RetryFires, memory
  <1>5. CASE PostSucceeds
    BY <1>2, <1>3, <1>5 DEF PostSucceeds, MarkCompleted
  <1>6. CASE StopMoves
    BY <1>2, <1>3, <1>6
       DEF StopMoves, StopWakes, StopTimesOut, StopCancelsRetries, StopFlushes, StopJoins
  <1>7. QED
    BY <1>1, <1>4, <1>5, <1>6 DEF WorkerMoves

\* A process starts with nothing owed, and nothing promised.
LEMMA LifecycleStarts == LifecycleInit => LifecycleInv
  <1> SUFFICES ASSUME LifecycleInit PROVE LifecycleInv
    OBVIOUS
  <1>1. DeliveryInv
    BY DeliveryInit DEF LifecycleInit
  <1>2. LifecycleTypeOK /\ Settling
    BY <1>1 DEF LifecycleInit, Init, LifecycleTypeOK, DeliveryInv, Stages, Settling
  <1>3. QED
    BY <1>1, <1>2 DEF LifecycleInv

\* A trigger is accepted before the clean-up begins, and is owed.
LEMMA TriggerSettles ==
    ASSUME LifecycleInv, NEW r \in Requests, Trigger(r)
    PROVE  LifecycleInv'
  <1>1. /\ cleanup = "serving" /\ cleanup' = cleanup
        /\ promised' = promised \union {r} /\ owing' = owing \union {r}
        /\ UNCHANGED vars
    BY DEF Trigger
  <1>2. UNCHANGED <<up, stop, accepted>>
    BY <1>1 DEF vars, memory
  <1>3. DeliveryInv'
    BY <1>1, DeliveryStutters DEF LifecycleInv
  <1>4. up /\ stop = "none"
    BY <1>1 DEF LifecycleInv, LifecycleTypeOK, Settling
  <1>5. LifecycleTypeOK'
    BY <1>1, <1>2, <1>3, <1>4 DEF LifecycleInv, LifecycleTypeOK, DeliveryInv
  <1>6. Settling'
    BY <1>1, <1>2, <1>4 DEF LifecycleInv, Settling
  <1>7. QED
    BY <1>3, <1>5, <1>6 DEF LifecycleInv

\* A result that is owed finds the manager open.
LEMMA PushResultSettles ==
    ASSUME LifecycleInv, NEW r \in Requests, PushResult(r)
    PROVE  LifecycleInv'
  <1>1. r \in owing /\ owing' = owing \ {r} /\ UNCHANGED <<cleanup, promised>>
    BY DEF PushResult
  <1>2. stop = "none" /\ ~closed
    BY <1>1 DEF LifecycleInv, Settling, DeliveryInv, Kept
  <1>3. Enqueue(r)
    BY <1>2 DEF PushResult
  <1>4. DeliveryInv'
    BY <1>3, EnqueueKeeps DEF LifecycleInv
  <1>5. accepted' = accepted \union {r} /\ UNCHANGED <<up, stop>>
    BY <1>3 DEF Enqueue
  <1>6. LifecycleTypeOK'
    BY <1>1, <1>4, <1>5 DEF LifecycleInv, LifecycleTypeOK, DeliveryInv
  <1>7. Settling'
    BY <1>1, <1>2, <1>5 DEF LifecycleInv, Settling
  <1>8. QED
    BY <1>4, <1>6, <1>7 DEF LifecycleInv

\* The steps of the clean-up that leave the manager alone come before it is
\* stopped.
LEMMA CleanupSettles ==
    ASSUME LifecycleInv, BeginCleanup \/ Removed \/ RemovalFails \/ GracefulTimesOut
    PROVE  LifecycleInv'
  <1>1. UNCHANGED vars /\ UNCHANGED <<owing, promised>>
    BY DEF BeginCleanup, Removed, RemovalFails, GracefulTimesOut
  <1>2. /\ cleanup \in {"serving", "removing", "closing"} /\ stop = "none"
        /\ cleanup' \in {"removing", "closing", "shutting", "aborted"}
    BY DEF BeginCleanup, Removed, RemovalFails, GracefulTimesOut, Stage, LifecycleInv, Settling
  <1>3. UNCHANGED <<up, stop, accepted>>
    BY <1>1 DEF vars, memory
  <1>4. DeliveryInv'
    BY <1>1, DeliveryStutters DEF LifecycleInv
  <1>5. LifecycleTypeOK'
    BY <1>1, <1>2, <1>3, <1>4 DEF LifecycleInv, LifecycleTypeOK, DeliveryInv, Stages
  <1>6. Settling'
    BY <1>1, <1>2, <1>3 DEF LifecycleInv, Settling
  <1>7. QED
    BY <1>4, <1>5, <1>6 DEF LifecycleInv

\* The manager is stopped when nothing is owed.
LEMMA StopCallbacksSettles ==
    ASSUME LifecycleInv, StopCallbacks
    PROVE  LifecycleInv'
  <1>1. /\ cleanup \in {"closing", "shutting"} /\ owing = {}
        /\ UNCHANGED <<cleanup, owing, promised>>
    BY DEF StopCallbacks, Settled, lifeVars
  <1>2. PICK close \in BOOLEAN : StopBegins(close)
    BY DEF StopCallbacks
  <1>3. DeliveryInv'
    BY <1>2, StopBeginsKeeps DEF LifecycleInv
  <1>4. UNCHANGED <<up, accepted>>
    BY <1>2 DEF StopBegins
  <1>5. LifecycleTypeOK'
    BY <1>1, <1>3, <1>4 DEF LifecycleInv, LifecycleTypeOK, DeliveryInv
  <1>6. Settling'
    BY <1>1, <1>4 DEF LifecycleInv, Settling
  <1>7. QED
    BY <1>3, <1>5, <1>6 DEF LifecycleInv

\* A process that ends, by itself or not, forgets what it owed.
LEMMA EndSettles ==
    ASSUME LifecycleInv, Leave \/ Crashes
    PROVE  LifecycleInv'
  <1>1. Leaves \/ Crash
    BY DEF Leave, Crashes, Exit
  <1>2. DeliveryInv'
    BY <1>1, LeavesKeeps, CrashKeeps DEF LifecycleInv
  <1>3. up' = FALSE /\ stop' = "none"
    BY <1>1 DEF Leaves, Crash, Ends, FreshMemory
  <1>4. cleanup' \in {"exited", "crashed"} /\ owing' = {} /\ promised' = promised
    BY DEF Leave, Crashes, Stage
  <1>5. LifecycleTypeOK'
    BY <1>2, <1>3, <1>4 DEF LifecycleInv, LifecycleTypeOK, DeliveryInv, Stages
  <1>6. Settling'
    BY <1>3, <1>4 DEF Settling
  <1>7. QED
    BY <1>2, <1>5, <1>6 DEF LifecycleInv

\* A new process has promised nothing; what it replays is the manager's.
LEMMA RestartSettles ==
    ASSUME LifecycleInv, Restart
    PROVE  LifecycleInv'
  <1>1. Boot /\ cleanup' = "serving" /\ promised' = {} /\ owing' = owing
    BY DEF Restart
  <1>2. DeliveryInv'
    BY <1>1, BootKeeps DEF LifecycleInv
  <1>3. ~up /\ up' = TRUE /\ stop' = "none"
    BY <1>1 DEF Boot, FreshMemory
  <1>4. owing = {}
    BY <1>3 DEF LifecycleInv, LifecycleTypeOK
  <1>5. LifecycleTypeOK'
    BY <1>1, <1>2, <1>3, <1>4 DEF LifecycleTypeOK, DeliveryInv, Stages
  <1>6. Settling'
    BY <1>1, <1>3 DEF Settling
  <1>7. QED
    BY <1>2, <1>5, <1>6 DEF LifecycleInv

\* Every step keeps the inductive invariant.
LEMMA LifecycleStep == LifecycleInv /\ [LifecycleNext]_lifecycleVars => LifecycleInv'
  <1> SUFFICES ASSUME LifecycleInv, [LifecycleNext]_lifecycleVars PROVE LifecycleInv'
    OBVIOUS
  <1>1. ASSUME NEW r \in Requests, Trigger(r) \/ PushResult(r) PROVE LifecycleInv'
    BY <1>1, TriggerSettles, PushResultSettles
  <1>2. CASE Delivery
    <2>1. /\ DeliveryInv' /\ UNCHANGED <<up, accepted, cleanup, owing, promised>>
          /\ stop = "none" => stop' = "none"
      BY <1>2, DeliveryLeavesTheRest
    <2>2. LifecycleTypeOK'
      BY <2>1 DEF LifecycleInv, LifecycleTypeOK, DeliveryInv
    <2>3. Settling'
      BY <2>1 DEF LifecycleInv, Settling
    <2>4. QED
      BY <2>1, <2>2, <2>3 DEF LifecycleInv
  <1>3. CASE BeginCleanup \/ Removed \/ RemovalFails \/ GracefulTimesOut
    BY <1>3, CleanupSettles
  <1>4. CASE StopCallbacks
    BY <1>4, StopCallbacksSettles
  <1>5. CASE Leave \/ Crashes
    BY <1>5, EndSettles
  <1>6. CASE Restart
    BY <1>6, RestartSettles
  <1>7. CASE UNCHANGED lifecycleVars
    <2>1. UNCHANGED vars /\ UNCHANGED <<up, stop, accepted, cleanup, owing, promised>>
      BY <1>7 DEF lifecycleVars, vars, memory, lifeVars
    <2>2. DeliveryInv'
      BY <2>1, DeliveryStutters DEF LifecycleInv
    <2>3. LifecycleTypeOK' /\ Settling'
      BY <2>1, <2>2 DEF LifecycleInv, LifecycleTypeOK, Settling, DeliveryInv
    <2>4. QED
      BY <2>2, <2>3 DEF LifecycleInv
  <1>8. QED
    BY <1>1, <1>2, <1>3, <1>4, <1>5, <1>6, <1>7 DEF LifecycleNext

-----------------------------------------------------------------------------
\* The inductive invariant: the manager's own, and that it is stopped only by a
\* clean-up, after the executor has settled.
THEOREM LifecycleInvariant == LifecycleSpec => []LifecycleInv
  BY LifecycleStarts, LifecycleStep, PTL DEF LifecycleSpec

\* Every variable stays within its type; a process that is down owes nothing.
THEOREM LifecycleTypeCorrect == LifecycleSpec => []LifecycleTypeOK
  BY LifecycleInvariant, PTL DEF LifecycleInv

\* Retries, replays, flushes and a clean-up that is aborted never make two
\* attempts of one request.
THEOREM AttemptsStaySingle == LifecycleSpec => []OneAttemptAtATime
  BY LifecycleInvariant, PTL DEF LifecycleInv, DeliveryInv

\* While a process is up no serialisable result of a trigger it has accepted is
\* lost: it is owed, acknowledged, in a file or, until a clean-up has stopped the
\* manager for good, in memory.  Exempt are the results that cannot be serialised
\* themselves, and, once a stop has begun, those whose record was cut short.
THEOREM ResultsAreKept == LifecycleSpec => []ResultsSurvive
  <1>1. LifecycleInv => ResultsSurvive
    BY DEF LifecycleInv, Settling, DeliveryInv, Kept, ResultsSurvive
  <1>2. QED
    BY <1>1, LifecycleInvariant, PTL

\* A process that leaves in the middle of an orderly clean-up.
OrderlyExit == cleanup \in {"closing", "shutting"} /\ cleanup' = "exited"

\* A clean-up that no exception has left loses nothing when the process exits,
\* where every result can be serialised and every record is written whole: the
\* aborted ones alone are behind the violation the run cleanup_aborts finds.
THEOREM OrderlyCleanupKeepsResults ==
    Unserialisable = {} /\ ~TornWrites /\ LifecycleSpec =>
        [][OrderlyExit => CleanupKeepsResults']_lifecycleVars
  <1> SUFFICES ASSUME Unserialisable = {}, ~TornWrites
               PROVE  LifecycleSpec =>
                        [][OrderlyExit => CleanupKeepsResults']_lifecycleVars
    OBVIOUS
  <1>1. ASSUME LifecycleInv, LifecycleNext, cleanup \in {"closing", "shutting"}, cleanup' = "exited"
        PROVE  \A r \in promised' : r \in acked' \/ disk'[r] = "full"
    <2> USE <1>1 DEF LifecycleInv
    <2>1. Leave
      BY DEF LifecycleNext, Trigger, PushResult, Delivery, BeginCleanup, Removed, RemovalFails,
             GracefulTimesOut, StopCallbacks, Crashes, Restart, Stage, lifeVars
    <2>2. Exit /\ promised' = promised
      BY <2>1 DEF Leave
    <2>3. stop = "returned" /\ up /\ Persist({current} \ {NoRequest}) /\ acked' = acked
      BY <2>2 DEF Exit, Leaves, DeliveryInv, OnlyPoisonRaises
    <2>4. current = NoRequest
      BY <2>3 DEF DeliveryInv, Places
    <2>5. \A r \in Requests : disk'[r] = disk[r]
      <3>1. \A r \in Requests \ {current} : disk'[r] = disk[r]
        BY <2>3, LastPersist
      <3>2. QED
        BY <2>4, <3>1, ConstantsAssumption
    <2>6. promised \subseteq accepted /\ promised \subseteq Requests
      BY <2>3 DEF Settling, LifecycleTypeOK
    <2>7. \A r \in promised : r \in acked \/ disk[r] = "full"
      BY <2>3, <2>6 DEF DeliveryInv, Kept, Files
    <2>8. QED
      BY <2>2, <2>3, <2>5, <2>6, <2>7
  <1>2. ASSUME LifecycleInv, [LifecycleNext]_lifecycleVars
        PROVE  [OrderlyExit => CleanupKeepsResults']_lifecycleVars
    <2>1. CASE LifecycleNext
      BY <1>1, <1>2, <2>1 DEF CleanupKeepsResults, OrderlyExit
    <2>2. CASE UNCHANGED lifecycleVars
      BY <2>2
    <2>3. QED
      BY <1>2, <2>1, <2>2
  <1>3. QED
    BY <1>2, LifecycleInvariant, PTL DEF LifecycleSpec
=============================================================================
