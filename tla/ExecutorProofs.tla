--------------------------- MODULE ExecutorProofs ---------------------------
(***************************************************************************)
(* Proofs about Executor, for every set of jobs and triggers, every queue  *)
(* length and with or without instrumentation.                             *)
(***************************************************************************)
EXTENDS Executor, QueueLemmas

-----------------------------------------------------------------------------
(* Types *)

\* What _finish starts next is a trigger, or nothing.
LEMMA NextUpType ==
    ASSUME TypeOK, NEW j \in Jobs
    PROVE  NextUp(j) \in Logs \union {NoLog}
  BY GetElement DEF TypeOK, NextUp

\* Task.cancel() leaves every task in one of the phases.
LEMMA CancelTaskType ==
    ASSUME ConstantsAssumption, TypeOK, NEW j \in Jobs
    PROVE  CancelTask(j) \in [Logs -> Phases]
  BY DEF TypeOK, CancelTask, Cancelled, Phases, ConstantsAssumption

\* Pushing results keeps the history typed.
LEMMA PushType ==
    ASSUME TypeOK, NEW S, NEW ok, Push(S, ok)
    PROVE  /\ owed' \in [Logs -> Int]
           /\ result' \in [Logs -> {"none", "ok", "failed"}]
           /\ ticket' \in [Logs -> Nat]
           /\ clock' \in Nat
  BY DEF TypeOK, Push

\* So does accepting a trigger.
LEMMA AcceptType ==
    ASSUME TypeOK, NEW l \in Logs, NEW S, AcceptAndDrop(l, S)
    PROVE  /\ owed' \in [Logs -> Int]
           /\ result' \in [Logs -> {"none", "ok", "failed"}]
           /\ ticket' \in [Logs -> Nat]
           /\ clock' \in Nat
  BY DEF TypeOK, AcceptAndDrop

\* cancel_job's section keeps the types.
LEMMA CancelJobType ==
    ASSUME ConstantsAssumption, TypeOK, NEW j \in Jobs, CancelJob(j),
           closing' \in {"open", "shutdown", "graceful", "closed", "timedout"},
           toCancel' \in SUBSET Jobs, awaited' \in SUBSET Logs
    PROVE  TypeOK'
  <1>1. phase' \in [Logs -> Phases]
    BY CancelTaskType DEF CancelJob
  <1>2. queue' \in [Jobs -> Seq(Logs)] /\ \A i \in Jobs : MaxQueue > 0 => Len(queue'[i]) <= MaxQueue
    BY EmptySeq DEF TypeOK, CancelJob, ConstantsAssumption
  <1>3. QED
    BY <1>1, <1>2, PushType DEF TypeOK, CancelJob

\* _finish keeps the types.
LEMMA FinishType ==
    ASSUME ConstantsAssumption, TypeOK, NEW l \in Logs, Finish(l)
    PROVE  /\ tasks' \in [Jobs -> Logs \union {NoLog}]
           /\ queue' \in [Jobs -> Seq(Logs)]
           /\ \A i \in Jobs : MaxQueue > 0 => Len(queue'[i]) <= MaxQueue
           /\ cover' \in [Jobs -> Logs \union {NoLog}]
           /\ logIds' \in [Jobs -> SUBSET Logs]
           /\ phase' \in [Logs -> Phases]
           /\ requestCtx' \in SUBSET Logs
  <1> DEFINE j == JobOf[l]
             q == queue[j]
  <1>1. j \in Jobs
    BY DEF ConstantsAssumption
  <1>2. NextUp(j) \in Logs \union {NoLog}
    BY <1>1, NextUpType
  <1>3. q # <<>> => Tail(q) \in Seq(Logs) /\ Len(Tail(q)) = Len(q) - 1 /\ Len(q) \in Nat
    BY <1>1, HeadTailProperties, LenProperties DEF TypeOK
  <1>4. /\ queue' \in [Jobs -> Seq(Logs)]
        /\ \A i \in Jobs : MaxQueue > 0 => Len(queue'[i]) <= MaxQueue
    <2>1. CASE queue' = queue
      BY <2>1 DEF TypeOK
    <2>2. CASE q # <<>> /\ queue' = [queue EXCEPT ![j] = Tail(q)]
      BY <1>1, <1>3, <2>2 DEF TypeOK, ConstantsAssumption
    <2>3. queue' = queue \/ (q # <<>> /\ queue' = [queue EXCEPT ![j] = Tail(q)])
      <3>1. [queue EXCEPT ![j] = q] = queue
        BY <1>1 DEF TypeOK
      <3>2. CASE tasks[j] # l
        BY <3>2 DEF Finish
      <3>3. CASE tasks[j] = l /\ (cover[j] # NoLog \/ q = <<>>)
        BY <3>1, <3>3 DEF Finish
      <3>4. CASE tasks[j] = l /\ ~(cover[j] # NoLog \/ q = <<>>)
        BY <3>4 DEF Finish
      <3>5. QED
        BY <3>2, <3>3, <3>4
    <2>4. QED
      BY <2>1, <2>2, <2>3
  <1>5. phase' \in [Logs -> Phases]
    BY DEF TypeOK, Finish, Phases
  <1>6. /\ tasks' \in [Jobs -> Logs \union {NoLog}]
        /\ cover' \in [Jobs -> Logs \union {NoLog}]
    <2>1. [tasks EXCEPT ![j] = NextUp(j)] \in [Jobs -> Logs \union {NoLog}]
      BY <1>1, <1>2 DEF TypeOK
    <2>2. [cover EXCEPT ![j] = NoLog] \in [Jobs -> Logs \union {NoLog}]
      BY <1>1 DEF TypeOK
    <2>3. QED
      BY <2>1, <2>2 DEF TypeOK, Finish
  <1>7. logIds' \in [Jobs -> SUBSET Logs] /\ requestCtx' \in SUBSET Logs
    BY <1>1 DEF TypeOK, Finish
  <1>8. QED
    BY <1>4, <1>5, <1>6, <1>7

\* Every step keeps the types.
LEMMA TypeStep ==
    ASSUME ConstantsAssumption, TypeOK, [Next]_vars
    PROVE  TypeOK'
  <1> USE ConstantsAssumption
  <1>1. ASSUME NEW l \in Logs, RunNow(l) PROVE TypeOK'
    BY <1>1, AcceptType
       DEF TypeOK, RunNow, Phases, ConstantsAssumption, closeVars
  <1>2. ASSUME NEW l \in Logs, RunSerial(l) PROVE TypeOK'
    <2>1. JobOf[l] \in Jobs
      BY DEF ConstantsAssumption
    <2>2. /\ Append(queue[JobOf[l]], l) \in Seq(Logs)
          /\ Len(Append(queue[JobOf[l]], l)) = Len(queue[JobOf[l]]) + 1
          /\ Len(queue[JobOf[l]]) \in Nat
      BY <2>1, AppendProperties, LenProperties DEF TypeOK
    <2>3. \A i \in Jobs : MaxQueue > 0 => Len(queue'[i]) <= MaxQueue
      BY <1>2, <2>1, <2>2 DEF TypeOK, RunSerial, QueueFull, ConstantsAssumption
    <2>4. QED
      BY <1>2, <2>1, <2>2, <2>3, AcceptType DEF TypeOK, RunSerial, closeVars
  <1>3. ASSUME NEW l \in Logs, RunCoverEarly(l) PROVE TypeOK'
    <2>1. JobOf[l] \in Jobs
      BY DEF ConstantsAssumption
    <2>2. phase' \in [Logs -> Phases]
      BY <1>3, <2>1, CancelTaskType DEF TypeOK, RunCoverEarly, Phases
    <2>3. /\ queue' \in [Jobs -> Seq(Logs)]
          /\ \A i \in Jobs : MaxQueue > 0 => Len(queue'[i]) <= MaxQueue
      BY <1>3, EmptySeq DEF TypeOK, RunCoverEarly, ConstantsAssumption
    <2>4. QED
      BY <1>3, <2>1, <2>2, <2>3, AcceptType DEF TypeOK, RunCoverEarly, closeVars
  <1>4. ASSUME NEW j \in Jobs, Kill(j) PROVE TypeOK'
    BY <1>4, CancelJobType DEF Kill, closeVars, TypeOK
  <1>5. ASSUME NEW l \in Logs, TaskStep(l) PROVE TypeOK'
    BY <1>5 DEF TypeOK, TaskStep, Phases, history, closeVars
  <1>6. ASSUME NEW l \in Logs, NEW ok \in BOOLEAN, RunEnds(l, ok) PROVE TypeOK'
    BY <1>6, FinishType, PushType DEF TypeOK, RunEnds, closeVars
  <1>7. ASSUME NEW l \in Logs, CleanupDead(l) PROVE TypeOK'
    <2>1. CASE Instrumented /\ l \in requestCtx
      BY <1>7, <2>1, PushType DEF TypeOK, CleanupDead, Phases, closeVars
    <2>2. CASE ~(Instrumented /\ l \in requestCtx)
      BY <1>7, <2>2, FinishType, PushType DEF TypeOK, CleanupDead, closeVars
    <2>3. QED
      BY <2>1, <2>2
  <1>8. ASSUME NEW j \in Jobs, ShutdownCancel(j) PROVE TypeOK'
    BY <1>8, CancelJobType DEF ShutdownCancel, TypeOK
  <1>9. CASE BeginShutdown \/ ShutdownDone \/ BeginGraceful \/ GracefulDone \/ GracefulTimeout
    BY <1>9 DEF TypeOK, BeginShutdown, ShutdownDone, BeginGraceful, GracefulDone,
                GracefulTimeout, scheduling, history
  <1>10. CASE UNCHANGED vars
    BY <1>10 DEF TypeOK, vars, scheduling, history, closeVars
  <1>11. QED
    BY <1>1, <1>2, <1>3, <1>4, <1>5, <1>6, <1>7, <1>8, <1>9, <1>10
       DEF Next, RunJob, TaskMoves, CloseMoves

-----------------------------------------------------------------------------
(* The inductive invariant.  What a job holds is spread over five variables  *)
(* (tasks, cover, queue, logIds, phase) and every operation moves triggers   *)
(* between them, so the properties are only preserved together.              *)

CoreInv ==
    /\ TypeOK
    /\ OneTaskPerJob
    /\ HeldOnce
    /\ DedupMatchesHeld
    /\ NothingStranded
    /\ ReplacedTaskIsStopping
    /\ AnsweredExactlyOnce

USE ConstantsAssumption DEF ConstantsAssumption

\* What waits for a job is a set of triggers.
LEMMA WaitingType ==
    ASSUME TypeOK, NEW j \in Jobs
    PROVE  Waiting(j) \subseteq Logs
  BY RangeOfSeq DEF TypeOK, Waiting, CoverSet

\* A trigger that waits has no task and is owed its result.
LEMMA WaitingFacts ==
    ASSUME CoreInv, NEW j \in Jobs, NEW l \in Waiting(j)
    PROVE  /\ l \in Logs
           /\ JobOf[l] = j
           /\ tasks[j] # l
           /\ phase[l] = "none"
           /\ owed[l] = 1
  <1>1. l \in Logs /\ JobOf[l] = j /\ tasks[j] # l
    BY DEF CoreInv, HeldOnce, Held
  <1>2. QED
    BY <1>1 DEF CoreInv, OneTaskPerJob, AnsweredExactlyOnce

\* RunNow keeps the invariant: the job was empty, and now holds one task.
LEMMA RunNowKeepsCore ==
    ASSUME CoreInv, TypeOK', NEW l \in Logs, RunNow(l)
    PROVE  CoreInv'
  <1> DEFINE j == JobOf[l]
  <1>1. /\ j \in Jobs
        /\ tasks[j] = NoLog
        /\ Waiting(j) = {}
        /\ tasks' = [tasks EXCEPT ![j] = l]
        /\ phase' = [phase EXCEPT ![l] = "created"]
        /\ logIds' = [logIds EXCEPT ![j] = @ \union {l}]
        /\ queue' = queue /\ cover' = cover
    BY EmptyQueue DEF RunNow, CanStartNow, Waiting, CoverSet
  <1>2. \A i \in Jobs : Waiting(i)' = Waiting(i)
    BY <1>1 DEF Waiting, CoverSet
  <1>3. Held(j) = {} /\ Held(j)' = {l}
    BY <1>1, <1>2 DEF Held, CoreInv, TypeOK
  <1>4. \A i \in Jobs \ {j} : Held(i)' = Held(i)
    BY <1>1, <1>2 DEF Held, CoreInv, TypeOK
  <1>5. OneTaskPerJob'
    BY <1>1 DEF CoreInv, TypeOK, OneTaskPerJob
  <1>6. HeldOnce'
    BY <1>1, <1>2, <1>3, <1>4 DEF CoreInv, TypeOK, HeldOnce
  <1>7. DedupMatchesHeld'
    BY <1>1, <1>3, <1>4 DEF CoreInv, TypeOK, DedupMatchesHeld
  <1>8. NothingStranded'
    BY <1>1, <1>2 DEF CoreInv, TypeOK, NothingStranded
  <1>9. ReplacedTaskIsStopping'
    BY <1>1 DEF CoreInv, TypeOK, ReplacedTaskIsStopping, OneTaskPerJob, Waiting, CoverSet
  <1>10. AnsweredExactlyOnce'
    <2>1. owed' = [k \in Logs |-> owed[k] + (IF k = l THEN 1 ELSE 0)]
      BY DEF RunNow, AcceptAndDrop, CoreInv, TypeOK
    <2>2. l \notin Waiting(j) /\ phase[l] = "none"
      BY <1>1 DEF CoreInv, TypeOK, OneTaskPerJob
    <2>3. QED
      BY <1>1, <1>2, <2>1, <2>2 DEF CoreInv, TypeOK, AnsweredExactlyOnce
  <1>11. QED
    BY <1>5, <1>6, <1>7, <1>8, <1>9, <1>10 DEF CoreInv

\* RunSerial keeps the invariant: the trigger is new to the job and joins the
\* end of its queue.
LEMMA RunSerialKeepsCore ==
    ASSUME CoreInv, TypeOK', NEW l \in Logs, RunSerial(l)
    PROVE  CoreInv'
  <1> DEFINE j == JobOf[l]
  <1>1. /\ j \in Jobs
        /\ l \notin Held(j)
        /\ queue' = [queue EXCEPT ![j] = Append(@, l)]
        /\ logIds' = [logIds EXCEPT ![j] = @ \union {l}]
        /\ tasks' = tasks /\ cover' = cover /\ phase' = phase
    BY DEF RunSerial, Admissible, CoreInv, DedupMatchesHeld
  <1>2. tasks[j] # NoLog
    <2>1. ~CanStartNow(j)
      BY DEF RunSerial
    <2>2. tasks[j] = NoLog => Waiting(j) = {}
      BY <1>1 DEF CoreInv, NothingStranded
    <2>3. Waiting(j) = {} => queue[j] = <<>> /\ cover[j] = NoLog
      BY <1>1, NothingQueued DEF Waiting, CoverSet, CoreInv, TypeOK
    <2>4. QED
      BY <2>1, <2>2, <2>3 DEF CanStartNow
  <1>3. /\ Range(queue'[j]) = Range(queue[j]) \union {l}
        /\ IsInjective(queue[j]) => IsInjective(queue'[j])
    <2>1. queue'[j] = Append(queue[j], l) /\ queue[j] \in Seq(Logs)
      BY <1>1 DEF CoreInv, TypeOK
    <2>2. l \notin Range(queue[j])
      BY <1>1 DEF Held, Waiting
    <2>3. QED
      BY <2>1, <2>2, PutElement
  <1>4. Waiting(j)' = Waiting(j) \union {l} /\ Held(j)' = Held(j) \union {l}
    BY <1>1, <1>3 DEF Held, Waiting, CoverSet
  <1>5. \A i \in Jobs \ {j} :
           queue'[i] = queue[i] /\ Waiting(i)' = Waiting(i) /\ Held(i)' = Held(i)
    BY <1>1 DEF Held, Waiting, CoverSet, CoreInv, TypeOK
  <1>6. OneTaskPerJob'
    BY <1>1 DEF CoreInv, OneTaskPerJob
  <1>7. HeldOnce'
    <2>1. tasks[j] # l /\ cover[j] # l
      BY <1>1 DEF Held, Waiting, CoverSet
    <2>2. QED
      BY <1>1, <1>3, <1>4, <1>5, <2>1 DEF CoreInv, HeldOnce
  <1>8. DedupMatchesHeld'
    BY <1>1, <1>4, <1>5 DEF CoreInv, TypeOK, DedupMatchesHeld
  <1>9. NothingStranded'
    BY <1>1, <1>2, <1>5 DEF CoreInv, NothingStranded
  <1>10. ReplacedTaskIsStopping'
    BY <1>1 DEF CoreInv, ReplacedTaskIsStopping
  <1>11. AnsweredExactlyOnce'
    <2>1. owed' = [k \in Logs |-> owed[k] + (IF k = l THEN 1 ELSE 0)]
      BY DEF RunSerial, AcceptAndDrop, CoreInv, TypeOK
    <2>2. l \notin Waiting(j) /\ phase[l] = "none"
      BY <1>1 DEF CoreInv, TypeOK, OneTaskPerJob, Held
    <2>3. \A k \in Logs : k \in Waiting(JobOf[k])' <=> k \in Waiting(JobOf[k]) \/ k = l
      BY <1>4, <1>5
    <2>4. phase' = phase
      BY <1>1
    <2>5. QED
      BY <2>1, <2>2, <2>3, <2>4 DEF CoreInv, TypeOK, AnsweredExactlyOnce
  <1>12. QED
    BY <1>6, <1>7, <1>8, <1>9, <1>10, <1>11 DEF CoreInv

\* What a cancellation does to the phases: only the current task's may change,
\* and a task is none, or stuck, after it exactly when it was before.
LEMMA CancelTaskFacts ==
    ASSUME TypeOK, NEW j \in Jobs
    PROVE  /\ CancelTask(j) \in [Logs -> Phases]
           /\ \A k \in Logs : CancelTask(j)[k] = "none" <=> phase[k] = "none"
           /\ \A k \in Logs : CancelTask(j)[k] = "stuck" <=> phase[k] = "stuck"
           /\ \A k \in Logs : phase[k] \in {"doomed", "dead", "stuck", "cancelling"}
                               => CancelTask(j)[k] = phase[k]
           /\ tasks[j] \in Logs /\ phase[tasks[j]] # "none" =>
                 CancelTask(j)[tasks[j]] \in {"doomed", "dead", "stuck", "cancelling"}
  <1>1. CancelTask(j) \in [Logs -> Phases]
    BY CancelTaskType
  <1>2. CASE tasks[j] = NoLog
    BY <1>1, <1>2 DEF CancelTask, TypeOK
  <1>3. CASE tasks[j] # NoLog
    <2>1. CancelTask(j) = [phase EXCEPT ![tasks[j]] = Cancelled(@)]
      BY <1>3 DEF CancelTask
    <2>2. tasks[j] \in Logs
      BY <1>3 DEF TypeOK
    <2>3. QED
      BY <1>1, <2>1, <2>2 DEF Cancelled, TypeOK, Phases
  <1>4. QED
    BY <1>2, <1>3

\* RunCoverEarly keeps the invariant: the trigger is new to the job, all that
\* waited is dropped and answered, and the trigger waits alone behind a task
\* that has been told to stop.
LEMMA RunCoverEarlyKeepsCore ==
    ASSUME CoreInv, TypeOK', NEW l \in Logs, RunCoverEarly(l)
    PROVE  CoreInv'
  <1> DEFINE j == JobOf[l]
  <1>1. j \in Jobs /\ l \notin Held(j)
    BY DEF RunCoverEarly, Admissible, CoreInv, DedupMatchesHeld
  <1>2. tasks[j] # NoLog /\ tasks[j] \in Logs
    <2>1. ~CanStartNow(j)
      BY DEF RunCoverEarly
    <2>2. tasks[j] = NoLog => Waiting(j) = {}
      BY <1>1 DEF CoreInv, NothingStranded
    <2>3. Waiting(j) = {} => queue[j] = <<>> /\ cover[j] = NoLog
      BY <1>1, NothingQueued DEF Waiting, CoverSet, CoreInv, TypeOK
    <2>4. QED
      BY <1>1, <2>1, <2>2, <2>3 DEF CanStartNow, CoreInv, TypeOK
  <1>3. /\ queue' = [queue EXCEPT ![j] = <<>>]
        /\ cover' = [cover EXCEPT ![j] = l]
        /\ tasks' = tasks
        /\ phase' = CancelTask(j)
        /\ logIds' = [logIds EXCEPT ![j] = (@ \ Waiting(j)) \union {l}]
    <2>1. [tasks EXCEPT ![j] = tasks[j]] = tasks
      BY <1>1 DEF CoreInv, TypeOK
    <2>2. QED
      BY <1>2, <2>1 DEF RunCoverEarly
  <1>4. /\ Range(queue'[j]) = {} /\ IsInjective(queue'[j])
        /\ cover'[j] = l
    BY <1>1, <1>3, EmptyQueue DEF CoreInv, TypeOK
  <1>5. Waiting(j)' = {l} /\ Held(j)' = {l, tasks[j]}
    BY <1>2, <1>3, <1>4 DEF Held, Waiting, CoverSet
  <1>6. \A i \in Jobs \ {j} :
           /\ queue'[i] = queue[i] /\ cover'[i] = cover[i]
           /\ Waiting(i)' = Waiting(i) /\ Held(i)' = Held(i)
    BY <1>1, <1>3 DEF Held, Waiting, CoverSet, CoreInv, TypeOK
  <1>7. tasks[j] # l
    BY <1>1, <1>2 DEF Held
  <1>8. OneTaskPerJob'
    BY <1>1, <1>3, CancelTaskFacts DEF CoreInv, OneTaskPerJob
  <1>9. HeldOnce'
    <2>1. JobOf[tasks[j]] = j
      BY <1>1, <1>2 DEF CoreInv, HeldOnce, Held
    <2>2. QED
      BY <1>1, <1>2, <1>3, <1>4, <1>5, <1>6, <1>7, <2>1 DEF CoreInv, HeldOnce
  <1>10. DedupMatchesHeld'
    <2>1. logIds'[j] = (Held(j) \ Waiting(j)) \union {l}
      BY <1>1, <1>3 DEF CoreInv, TypeOK, DedupMatchesHeld
    <2>2. Held(j) \ Waiting(j) = {tasks[j]}
      BY <1>1, <1>2 DEF CoreInv, HeldOnce, Held
    <2>3. \A i \in Jobs \ {j} : logIds'[i] = logIds[i]
      BY <1>3 DEF CoreInv, TypeOK
    <2>4. QED
      BY <1>5, <1>6, <2>1, <2>2, <2>3 DEF CoreInv, DedupMatchesHeld
  <1>11. NothingStranded'
    BY <1>2, <1>3, <1>6 DEF CoreInv, NothingStranded
  <1>12. ReplacedTaskIsStopping'
    <2>1. tasks[j] \in Logs /\ JobOf[tasks[j]] = j /\ phase[tasks[j]] # "none"
      BY <1>1, <1>2 DEF CoreInv, HeldOnce, Held, OneTaskPerJob
    <2>2. phase'[tasks'[j]] \in {"doomed", "dead", "stuck", "cancelling"}
      BY <1>1, <1>3, <2>1, CancelTaskFacts DEF CoreInv
    <2>3. ASSUME NEW i \in Jobs \ {j}, cover'[i] # NoLog
          PROVE  tasks'[i] # NoLog /\ phase'[tasks'[i]] \in {"doomed", "dead", "stuck", "cancelling"}
      <3>1. /\ tasks[i] # NoLog /\ tasks[i] \in Logs
            /\ phase[tasks[i]] \in {"doomed", "dead", "stuck", "cancelling"}
        BY <1>6, <2>3 DEF CoreInv, TypeOK, ReplacedTaskIsStopping
      <3>2. QED
        BY <1>1, <1>3, <3>1, CancelTaskFacts DEF CoreInv
    <2>4. QED
      BY <1>2, <1>3, <2>2, <2>3 DEF ReplacedTaskIsStopping
  <1>13. AnsweredExactlyOnce'
    <2>1. owed' = [k \in Logs |-> owed[k] + (IF k = l THEN 1 ELSE 0)
                                         - (IF k \in Waiting(j) THEN 1 ELSE 0)]
      BY DEF RunCoverEarly, AcceptAndDrop, Dropped
    <2>2. l \notin Waiting(j) /\ phase[l] = "none" /\ owed[l] = 0
      BY <1>1, <1>7 DEF CoreInv, TypeOK, OneTaskPerJob, Held, AnsweredExactlyOnce
    <2>3. \A k \in Logs : phase'[k] \in {"none", "stuck"} <=> phase[k] \in {"none", "stuck"}
      BY <1>1, <1>3, CancelTaskFacts DEF CoreInv
    <2>4. ASSUME NEW k \in Logs
          PROVE  owed'[k] = IF k \in Waiting(JobOf[k])' \/ phase'[k] \notin {"none", "stuck"}
                            THEN 1 ELSE 0
      <3>1. CASE k = l
        BY <1>5, <2>1, <2>2, <3>1
      <3>2. CASE k \in Waiting(j)
        <4>1. JobOf[k] = j /\ phase[k] = "none" /\ owed[k] = 1 /\ k # l
          BY <1>1, <2>2, <3>2, WaitingFacts
        <4>2. QED
          BY <1>5, <2>1, <2>3, <3>2, <4>1
      <3>3. CASE k # l /\ k \notin Waiting(j)
        <4>1. owed'[k] = owed[k]
          BY <2>1, <3>3 DEF CoreInv, TypeOK
        <4>2. k \in Waiting(JobOf[k])' <=> k \in Waiting(JobOf[k])
          BY <1>5, <1>6, <3>3
        <4>3. QED
          BY <2>3, <4>1, <4>2 DEF CoreInv, AnsweredExactlyOnce
      <3>4. QED
        BY <3>1, <3>2, <3>3
    <2>5. QED
      BY <2>4 DEF AnsweredExactlyOnce
  <1>14. QED
    BY <1>8, <1>9, <1>10, <1>11, <1>12, <1>13 DEF CoreInv

\* cancel_job keeps the invariant, for /kill and for shutdown: what waited is
\* dropped and answered, the task stays until it ends.
LEMMA CancelJobKeepsCore ==
    ASSUME CoreInv, TypeOK', NEW j \in Jobs, CancelJob(j)
    PROVE  CoreInv'
  <1>1. /\ queue' = [queue EXCEPT ![j] = <<>>]
        /\ cover' = [cover EXCEPT ![j] = NoLog]
        /\ tasks' = tasks
        /\ phase' = CancelTask(j)
        /\ logIds' = [logIds EXCEPT ![j] = @ \ Waiting(j)]
    BY DEF CancelJob
  <1>2. /\ Range(queue'[j]) = {} /\ IsInjective(queue'[j])
        /\ cover'[j] = NoLog
    BY <1>1, EmptyQueue DEF CoreInv, TypeOK
  <1>3. Waiting(j)' = {} /\ Held(j)' = {tasks[j]} \ {NoLog}
    BY <1>1, <1>2 DEF Held, Waiting, CoverSet
  <1>4. \A i \in Jobs \ {j} :
           /\ queue'[i] = queue[i] /\ cover'[i] = cover[i]
           /\ Waiting(i)' = Waiting(i) /\ Held(i)' = Held(i)
    BY <1>1 DEF Held, Waiting, CoverSet, CoreInv, TypeOK
  <1>5. OneTaskPerJob'
    BY <1>1, CancelTaskFacts DEF CoreInv, OneTaskPerJob
  <1>6. HeldOnce'
    <2>1. Held(j)' \subseteq Held(j)
      BY <1>3 DEF Held
    <2>2. NoLog \notin Range(queue'[j]) /\ tasks'[j] \notin Waiting(j)'
      BY <1>2, <1>3
    <2>3. QED
      BY <1>1, <1>2, <1>4, <2>1, <2>2 DEF CoreInv, HeldOnce
  <1>7. DedupMatchesHeld'
    <2>1. logIds'[j] = Held(j) \ Waiting(j)
      BY <1>1 DEF CoreInv, TypeOK, DedupMatchesHeld
    <2>2. Held(j) \ Waiting(j) = {tasks[j]} \ {NoLog}
      BY DEF CoreInv, HeldOnce, Held
    <2>3. \A i \in Jobs \ {j} : logIds'[i] = logIds[i]
      BY <1>1 DEF CoreInv, TypeOK
    <2>4. QED
      BY <1>3, <1>4, <2>1, <2>2, <2>3 DEF CoreInv, DedupMatchesHeld
  <1>8. NothingStranded'
    BY <1>1, <1>3, <1>4 DEF CoreInv, NothingStranded
  <1>9. ReplacedTaskIsStopping'
    <2>1. ASSUME NEW i \in Jobs \ {j}, cover'[i] # NoLog
          PROVE  tasks'[i] # NoLog /\ phase'[tasks'[i]] \in {"doomed", "dead", "stuck", "cancelling"}
      <3>1. /\ tasks[i] # NoLog /\ tasks[i] \in Logs
            /\ phase[tasks[i]] \in {"doomed", "dead", "stuck", "cancelling"}
        BY <1>4, <2>1 DEF CoreInv, TypeOK, ReplacedTaskIsStopping
      <3>2. QED
        BY <1>1, <3>1, CancelTaskFacts DEF CoreInv
    <2>2. QED
      BY <1>2, <2>1 DEF ReplacedTaskIsStopping
  <1>10. AnsweredExactlyOnce'
    <2>1. owed' = [k \in Logs |-> owed[k] - (IF k \in Waiting(j) THEN 1 ELSE 0)]
      BY DEF CancelJob, Push
    <2>2. \A k \in Logs : phase'[k] \in {"none", "stuck"} <=> phase[k] \in {"none", "stuck"}
      BY <1>1, CancelTaskFacts DEF CoreInv
    <2>3. ASSUME NEW k \in Logs
          PROVE  owed'[k] = IF k \in Waiting(JobOf[k])' \/ phase'[k] \notin {"none", "stuck"}
                            THEN 1 ELSE 0
      <3>1. CASE k \in Waiting(j)
        <4>1. JobOf[k] = j /\ phase[k] = "none" /\ owed[k] = 1
          BY <3>1, WaitingFacts
        <4>2. QED
          BY <1>3, <2>1, <2>2, <3>1, <4>1
      <3>2. CASE k \notin Waiting(j)
        <4>1. owed'[k] = owed[k]
          BY <2>1, <3>2 DEF CoreInv, TypeOK
        <4>2. k \in Waiting(JobOf[k])' <=> k \in Waiting(JobOf[k])
          BY <1>3, <1>4, <3>2
        <4>3. QED
          BY <2>2, <4>1, <4>2 DEF CoreInv, AnsweredExactlyOnce
      <3>3. QED
        BY <3>1, <3>2
    <2>4. QED
      BY <2>3 DEF AnsweredExactlyOnce
  <1>11. QED
    BY <1>5, <1>6, <1>7, <1>8, <1>9, <1>10 DEF CoreInv

\* The first step of a task keeps the invariant.
LEMMA TaskStepKeepsCore ==
    ASSUME CoreInv, TypeOK', NEW l \in Logs, TaskStep(l)
    PROVE  CoreInv'
  <1>1. /\ UNCHANGED <<tasks, queue, cover, logIds, owed>>
        /\ phase[l] \in {"created", "doomed"}
        /\ phase' = [phase EXCEPT ![l] = IF @ = "created" THEN "running" ELSE "dead"]
    BY DEF TaskStep, history
  <1>2. \A i \in Jobs : Waiting(i)' = Waiting(i) /\ Held(i)' = Held(i)
    BY <1>1 DEF Held, Waiting, CoverSet
  <1>3. \A k \in Logs : /\ phase'[k] = "none" <=> phase[k] = "none"
                        /\ phase'[k] = "stuck" <=> phase[k] = "stuck"
    BY <1>1 DEF CoreInv, TypeOK
  <1>4. OneTaskPerJob'
    BY <1>1, <1>3 DEF CoreInv, OneTaskPerJob
  <1>5. HeldOnce'
    BY <1>1, <1>2 DEF CoreInv, HeldOnce
  <1>6. DedupMatchesHeld'
    BY <1>1, <1>2 DEF CoreInv, DedupMatchesHeld
  <1>7. NothingStranded'
    BY <1>1, <1>2 DEF CoreInv, NothingStranded
  <1>8. ReplacedTaskIsStopping'
    BY <1>1 DEF CoreInv, TypeOK, ReplacedTaskIsStopping
  <1>9. AnsweredExactlyOnce'
    BY <1>1, <1>2, <1>3 DEF CoreInv, AnsweredExactlyOnce
  <1>10. QED
    BY <1>4, <1>5, <1>6, <1>7, <1>8, <1>9 DEF CoreInv

\* _finish of the current task: the next trigger is taken from what waits, from
\* the right place, and everything else stays.
LEMMA FinishFacts ==
    ASSUME CoreInv, TypeOK', NEW l \in Logs, tasks[JobOf[l]] = l, Finish(l)
    PROVE  LET j == JobOf[l]
               n == NextUp(j)
           IN  /\ tasks' = [tasks EXCEPT ![j] = n]
               /\ cover' = [cover EXCEPT ![j] = NoLog]
               /\ logIds' = [logIds EXCEPT ![j] = @ \ {l}]
               /\ phase' = [k \in Logs |-> IF k = l THEN "none"
                                           ELSE IF k = n THEN "created"
                                           ELSE phase[k]]
               /\ n \in Waiting(j) \/ (n = NoLog /\ Waiting(j) = {})
               /\ Waiting(j)' = Waiting(j) \ {n}
               /\ Waiting(j)' = Range(queue'[j])
               /\ IsInjective(queue'[j])
               /\ \A i \in Jobs \ {j} : queue'[i] = queue[i]
  <1> DEFINE j == JobOf[l]
             n == NextUp(j)
             q == queue[j]
  <1>1. /\ j \in Jobs
        /\ tasks' = [tasks EXCEPT ![j] = n]
        /\ cover' = [cover EXCEPT ![j] = NoLog]
        /\ logIds' = [logIds EXCEPT ![j] = @ \ {l}]
        /\ phase' = [k \in Logs |-> IF k = l THEN "none"
                                    ELSE IF k = n THEN "created"
                                    ELSE phase[k]]
    BY DEF Finish
  <1>2. queue' = [queue EXCEPT ![j] = IF cover[j] # NoLog \/ q = <<>> THEN q ELSE Tail(q)]
    BY DEF Finish
  <1>3. \A i \in Jobs \ {j} : queue'[i] = queue[i]
    BY <1>2 DEF CoreInv, TypeOK
  <1>4. queue'[j] = IF cover[j] # NoLog \/ q = <<>> THEN q ELSE Tail(q)
    BY <1>1, <1>2 DEF CoreInv, TypeOK
  <1>5. Waiting(j)' = Range(queue'[j])
    BY <1>1 DEF Waiting, CoverSet, CoreInv, TypeOK
  <1>6. q \in Seq(Logs) /\ IsInjective(q) /\ cover[j] \notin Range(q)
    BY <1>1 DEF CoreInv, TypeOK, HeldOnce
  <1>7. CASE cover[j] # NoLog
    BY <1>1, <1>3, <1>4, <1>5, <1>6, <1>7 DEF NextUp, Waiting, CoverSet
  <1>8. CASE cover[j] = NoLog /\ q # <<>>
    <2>1. n = Head(q) /\ queue'[j] = Tail(q) /\ Waiting(j) = Range(q)
      BY <1>4, <1>8 DEF NextUp, Waiting, CoverSet
    <2>2. /\ Range(q) = {n} \union Range(queue'[j])
          /\ n \notin Range(queue'[j])
          /\ IsInjective(queue'[j])
      BY <1>6, <1>8, <2>1, GetElement
    <2>3. QED
      BY <1>1, <1>3, <1>5, <2>1, <2>2
  <1>9. CASE cover[j] = NoLog /\ q = <<>>
    <2>1. n = NoLog /\ queue'[j] = q /\ Waiting(j) = {}
      BY <1>4, <1>9, EmptyQueue DEF NextUp, Waiting, CoverSet
    <2>2. QED
      BY <1>1, <1>3, <1>5, <1>6, <1>9, <2>1, EmptyQueue
  <1>10. QED
    BY <1>7, <1>8, <1>9

\* The end of a task, with its result pushed, keeps the invariant.
LEMMA EndKeepsCore ==
    ASSUME CoreInv, TypeOK', NEW l \in Logs, NEW ok,
           phase[l] \notin {"none", "stuck"}, Push({l}, ok), Finish(l)
    PROVE  CoreInv'
  <1> DEFINE j == JobOf[l]
             n == NextUp(j)
  <1>1. j \in Jobs /\ tasks[j] = l /\ l # NoLog
    BY DEF CoreInv, OneTaskPerJob
  <1>2. /\ tasks' = [tasks EXCEPT ![j] = n]
        /\ cover' = [cover EXCEPT ![j] = NoLog]
        /\ logIds' = [logIds EXCEPT ![j] = @ \ {l}]
        /\ phase' = [k \in Logs |-> IF k = l THEN "none"
                                    ELSE IF k = n THEN "created"
                                    ELSE phase[k]]
        /\ n \in Waiting(j) \/ (n = NoLog /\ Waiting(j) = {})
        /\ Waiting(j)' = Waiting(j) \ {n}
        /\ Waiting(j)' = Range(queue'[j])
        /\ IsInjective(queue'[j])
        /\ \A i \in Jobs \ {j} : queue'[i] = queue[i]
    BY <1>1, FinishFacts
  <1> HIDE DEF n
  <1>3. /\ tasks'[j] = n /\ cover'[j] = NoLog
        /\ \A i \in Jobs \ {j} : tasks'[i] = tasks[i] /\ cover'[i] = cover[i]
    BY <1>1, <1>2 DEF CoreInv, TypeOK
  <1>4. \A i \in Jobs \ {j} : Waiting(i)' = Waiting(i) /\ Held(i)' = Held(i)
    BY <1>2, <1>3 DEF Held, Waiting, CoverSet
  <1>5. l \notin Waiting(j) /\ Waiting(j) \subseteq Logs /\ n # l
    BY <1>1, <1>2, WaitingType DEF CoreInv, HeldOnce
  <1>6. Held(j) = Waiting(j) \union {l} /\ Held(j)' = Waiting(j)
    BY <1>1, <1>2, <1>3, <1>5 DEF Held
  <1>7. n # NoLog => n \in Logs /\ JobOf[n] = j
    BY <1>1, <1>2, WaitingFacts
  <1>8. OneTaskPerJob'
    BY <1>1, <1>2, <1>3, <1>5, <1>7 DEF CoreInv, OneTaskPerJob
  <1>9. HeldOnce'
    <2>1. NoLog \notin Waiting(j)
      BY <1>5
    <2>2. tasks'[j] \notin Waiting(j)' /\ cover'[j] \notin Range(queue'[j])
      BY <1>2, <1>3, <2>1
    <2>3. QED
      BY <1>1, <1>2, <1>3, <1>4, <1>6, <2>2 DEF CoreInv, HeldOnce
  <1>10. DedupMatchesHeld'
    <2>1. logIds'[j] = Held(j) \ {l}
      BY <1>1, <1>2 DEF CoreInv, TypeOK, DedupMatchesHeld
    <2>2. \A i \in Jobs \ {j} : logIds'[i] = logIds[i]
      BY <1>2 DEF CoreInv, TypeOK
    <2>3. logIds'[j] = Held(j)'
      BY <1>5, <1>6, <2>1
    <2>4. QED
      BY <1>4, <2>2, <2>3 DEF CoreInv, DedupMatchesHeld
  <1>11. NothingStranded'
    BY <1>2, <1>3, <1>4, <1>5 DEF CoreInv, NothingStranded
  <1>12. ReplacedTaskIsStopping'
    <2>1. ASSUME NEW i \in Jobs \ {j}, cover'[i] # NoLog
          PROVE  tasks'[i] # NoLog /\ phase'[tasks'[i]] \in {"doomed", "dead", "stuck", "cancelling"}
      <3>1. /\ tasks[i] # NoLog /\ tasks[i] \in Logs /\ JobOf[tasks[i]] = i
            /\ phase[tasks[i]] \in {"doomed", "dead", "stuck", "cancelling"}
        BY <1>3, <2>1 DEF CoreInv, TypeOK, ReplacedTaskIsStopping, HeldOnce, Held
      <3>2. tasks[i] # l /\ tasks[i] # n
        BY <1>7, <3>1
      <3>3. QED
        BY <1>2, <1>3, <3>1, <3>2
    <2>2. QED
      BY <1>3, <2>1 DEF ReplacedTaskIsStopping
  <1>13. AnsweredExactlyOnce'
    <2>1. owed' = [k \in Logs |-> owed[k] - (IF k \in {l} THEN 1 ELSE 0)]
      BY DEF Push
    <2>2. ASSUME NEW k \in Logs
          PROVE  owed'[k] = IF k \in Waiting(JobOf[k])' \/ phase'[k] \notin {"none", "stuck"}
                            THEN 1 ELSE 0
      <3>1. CASE k = l
        <4>1. owed[l] = 1 /\ phase'[l] = "none" /\ l \notin Waiting(j)'
          BY <1>2, <1>5 DEF CoreInv, AnsweredExactlyOnce
        <4>2. QED
          BY <2>1, <3>1, <4>1
      <3>2. CASE k = n /\ k # l
        <4>1. owed[k] = 1 /\ phase'[k] = "created"
          BY <1>1, <1>2, <3>2, WaitingFacts
        <4>2. QED
          BY <2>1, <3>2, <4>1
      <3>3. CASE k # n /\ k # l
        <4>1. owed'[k] = owed[k] /\ phase'[k] = phase[k]
          BY <1>2, <2>1, <3>3 DEF CoreInv, TypeOK
        <4>2. k \in Waiting(JobOf[k])' <=> k \in Waiting(JobOf[k])
          BY <1>2, <1>4, <3>3
        <4>3. QED
          BY <4>1, <4>2 DEF CoreInv, AnsweredExactlyOnce
      <3>4. QED
        BY <3>1, <3>2, <3>3
    <2>3. QED
      BY <2>2 DEF AnsweredExactlyOnce
  <1>14. QED
    BY <1>8, <1>9, <1>10, <1>11, <1>12, <1>13 DEF CoreInv

\* A clean-up that raises after its push keeps the invariant too: the trigger
\* is answered, and the job keeps it for ever.
LEMMA StuckKeepsCore ==
    ASSUME CoreInv, TypeOK', NEW l \in Logs, phase[l] = "dead", Push({l}, FALSE),
           phase' = [phase EXCEPT ![l] = "stuck"],
           UNCHANGED <<tasks, queue, cover, logIds, requestCtx>>
    PROVE  CoreInv'
  <1>1. \A i \in Jobs : Waiting(i)' = Waiting(i) /\ Held(i)' = Held(i)
    BY DEF Held, Waiting, CoverSet
  <1>2. OneTaskPerJob'
    BY DEF CoreInv, TypeOK, OneTaskPerJob
  <1>3. HeldOnce'
    BY <1>1 DEF CoreInv, HeldOnce
  <1>4. DedupMatchesHeld'
    BY <1>1 DEF CoreInv, DedupMatchesHeld
  <1>5. NothingStranded'
    BY <1>1 DEF CoreInv, NothingStranded
  <1>6. ReplacedTaskIsStopping'
    BY DEF CoreInv, TypeOK, ReplacedTaskIsStopping
  <1>7. AnsweredExactlyOnce'
    <2>1. owed' = [k \in Logs |-> owed[k] - (IF k \in {l} THEN 1 ELSE 0)]
      BY DEF Push
    <2>2. owed[l] = 1 /\ l \notin Waiting(JobOf[l])
      BY DEF CoreInv, AnsweredExactlyOnce, OneTaskPerJob, HeldOnce
    <2>3. \A k \in Logs \ {l} : owed'[k] = owed[k] /\ phase'[k] = phase[k]
      BY <2>1 DEF CoreInv, TypeOK
    <2>4. owed'[l] = 0 /\ phase'[l] = "stuck"
      BY <2>1, <2>2 DEF CoreInv, TypeOK
    <2>5. QED
      BY <1>1, <2>2, <2>3, <2>4 DEF CoreInv, AnsweredExactlyOnce
  <1>8. QED
    BY <1>2, <1>3, <1>4, <1>5, <1>6, <1>7 DEF CoreInv

\* The invariant depends on the scheduling variables and on owed alone.
LEMMA CoreDepends ==
    ASSUME CoreInv, TypeOK', UNCHANGED <<scheduling, history>>
    PROVE  CoreInv'
  <1>1. UNCHANGED <<tasks, queue, cover, logIds, phase, owed>>
    BY DEF scheduling, history
  <1>2. \A i \in Jobs : Waiting(i)' = Waiting(i) /\ Held(i)' = Held(i)
    BY <1>1 DEF Held, Waiting, CoverSet
  <1>3. OneTaskPerJob' /\ ReplacedTaskIsStopping'
    BY <1>1 DEF CoreInv, OneTaskPerJob, ReplacedTaskIsStopping
  <1>4. HeldOnce'
    BY <1>1, <1>2 DEF CoreInv, HeldOnce
  <1>5. DedupMatchesHeld'
    BY <1>1, <1>2 DEF CoreInv, DedupMatchesHeld
  <1>6. NothingStranded'
    BY <1>1, <1>2 DEF CoreInv, NothingStranded
  <1>7. AnsweredExactlyOnce'
    BY <1>1, <1>2 DEF CoreInv, AnsweredExactlyOnce
  <1>8. QED
    BY <1>3, <1>4, <1>5, <1>6, <1>7 DEF CoreInv

\* The invariant holds when the executor is created.
LEMMA CoreInit == Init => CoreInv
  <1> SUFFICES ASSUME Init PROVE CoreInv
    OBVIOUS
  <1>1. TypeOK
    BY EmptySeq DEF Init, TypeOK, Phases
  <1>2. \A j \in Jobs : Waiting(j) = {} /\ Held(j) = {} /\ IsInjective(queue[j])
    BY EmptyQueue DEF Init, Held, Waiting, CoverSet
  <1>3. \A j \in Jobs : Range(queue[j]) = {}
    BY EmptyQueue DEF Init
  <1>4. OneTaskPerJob /\ ReplacedTaskIsStopping
    BY DEF Init, OneTaskPerJob, ReplacedTaskIsStopping
  <1>5. HeldOnce
    BY <1>2, <1>3 DEF HeldOnce
  <1>6. DedupMatchesHeld
    BY <1>2 DEF Init, DedupMatchesHeld
  <1>7. NothingStranded
    BY <1>2 DEF NothingStranded
  <1>8. AnsweredExactlyOnce
    BY <1>2 DEF Init, AnsweredExactlyOnce
  <1>9. QED
    BY <1>1, <1>4, <1>5, <1>6, <1>7, <1>8 DEF CoreInv

\* Every step keeps it.
LEMMA CoreStep ==
    ASSUME CoreInv, [Next]_vars
    PROVE  CoreInv'
  <1>1. TypeOK'
    BY TypeStep DEF CoreInv
  <1>2. ASSUME NEW l \in Logs, RunJob(l) PROVE CoreInv'
    BY <1>1, <1>2, RunNowKeepsCore, RunSerialKeepsCore, RunCoverEarlyKeepsCore DEF RunJob
  <1>3. ASSUME NEW j \in Jobs, Kill(j) PROVE CoreInv'
    BY <1>1, <1>3, CancelJobKeepsCore DEF Kill
  <1>4. ASSUME NEW l \in Logs, TaskStep(l) PROVE CoreInv'
    BY <1>1, <1>4, TaskStepKeepsCore
  <1>5. ASSUME NEW l \in Logs, NEW ok \in BOOLEAN, RunEnds(l, ok) PROVE CoreInv'
    BY <1>1, <1>5, EndKeepsCore DEF RunEnds
  <1>6. ASSUME NEW l \in Logs, CleanupDead(l) PROVE CoreInv'
    <2>1. CASE Instrumented /\ l \in requestCtx
      BY <1>1, <1>6, <2>1, StuckKeepsCore DEF CleanupDead
    <2>2. CASE ~(Instrumented /\ l \in requestCtx)
      BY <1>1, <1>6, <2>2, EndKeepsCore DEF CleanupDead
    <2>3. QED
      BY <2>1, <2>2
  <1>7. ASSUME NEW j \in Jobs, ShutdownCancel(j) PROVE CoreInv'
    BY <1>1, <1>7, CancelJobKeepsCore DEF ShutdownCancel
  <1>8. CASE BeginShutdown \/ ShutdownDone \/ BeginGraceful \/ GracefulDone \/ GracefulTimeout
    BY <1>1, <1>8, CoreDepends
       DEF BeginShutdown, ShutdownDone, BeginGraceful, GracefulDone, GracefulTimeout
  <1>9. CASE UNCHANGED vars
    BY <1>1, <1>9, CoreDepends DEF vars
  <1>10. QED
    BY <1>2, <1>3, <1>4, <1>5, <1>6, <1>7, <1>8, <1>9 DEF Next, TaskMoves, CloseMoves

\* The inductive invariant is an invariant of the executor.
THEOREM CoreInvariant == Spec => []CoreInv
  BY CoreInit, CoreStep, PTL DEF Spec

-----------------------------------------------------------------------------
(* The theorems *)

\* Type correctness; no queue outgrows config.task_queue_length.
THEOREM TypeCorrect == Spec => []TypeOK
  BY CoreInvariant, PTL DEF CoreInv

\* A trigger has a live task exactly when it is the current task of its job,
\* whatever the order of triggers, kills, take-overs, ends and closes.
THEOREM JobsRunOneTask == Spec => []OneTaskPerJob
  BY CoreInvariant, PTL DEF CoreInv

\* A job holds each of its triggers in one place, once.
THEOREM TriggersAreHeldOnce == Spec => []HeldOnce
  BY CoreInvariant, PTL DEF CoreInv

\* The dedup set of a job is exactly what it holds: a trigger is refused as a
\* duplicate when, and only when, it is there.
THEOREM DedupIsExact == Spec => []DedupMatchesHeld
  BY CoreInvariant, PTL DEF CoreInv

\* No trigger is left waiting by a job that has no task to start it.
THEOREM NobodyIsStranded == Spec => []NothingStranded
  BY CoreInvariant, PTL DEF CoreInv

\* A replacement waits only behind a task that has been told to stop.
THEOREM ReplacementsPreempt == Spec => []ReplacedTaskIsStopping
  BY CoreInvariant, PTL DEF CoreInv

\* Every accepted trigger is owed one result as long as it is outstanding, and
\* gets no second one.
THEOREM OneAnswerPerTrigger == Spec => []AnsweredExactlyOnce
  BY CoreInvariant, PTL DEF CoreInv
-----------------------------------------------------------------------------
(* The closing of the executor.  That a finished shutdown has settled every  *)
(* trigger rests on two facts: what shutdown has passed starts nothing new,  *)
(* and the invariant of the scheduler ties an owed result to a trigger that  *)
(* waits or has a live task.                                                 *)

CloseInv == ShutdownStartsNothing /\ ClosedMeansSettled

\* What a job holds, and what shutdown has to do with it.
LEMMA HoldsDepends ==
    ASSUME UNCHANGED <<queue, cover>>
    PROVE  \A j \in Jobs : Waiting(j)' = Waiting(j)
  BY DEF Waiting, CoverSet

\* A trigger that is finished leaves no successor where nothing waits.
LEMMA FinishStartsNothing ==
    ASSUME TypeOK, NEW l \in Logs, Finish(l), NEW j \in Jobs, Waiting(j) = {}
    PROVE  Waiting(j)' = {} /\ tasks'[j] \in {tasks[j], NoLog}
  <1>1. queue[j] = <<>> /\ cover[j] = NoLog
    BY NothingQueued DEF Waiting, CoverSet, TypeOK
  <1>2. queue'[j] = <<>> /\ cover'[j] = NoLog
    BY <1>1 DEF Finish, TypeOK
  <1>3. Waiting(j)' = {}
    BY <1>2, EmptyQueue DEF Waiting, CoverSet
  <1>4. tasks'[j] \in {tasks[j], NoLog}
    BY <1>1 DEF Finish, NextUp, TypeOK
  <1>5. QED
    BY <1>3, <1>4

\* A pushed result is one result less that is owed.
LEMMA PushSettles ==
    ASSUME TypeOK, NEW S, NEW ok, Push(S, ok)
    PROVE  \A l \in Logs : owed[l] <= 0 => owed'[l] <= 0
  BY DEF Push, TypeOK

\* The end of a task, as shutdown sees it.
LEMMA EndKeepsClose ==
    ASSUME CoreInv, CloseInv, NEW l \in Logs, NEW ok,
           Push({l}, ok), Finish(l), UNCHANGED closeVars
    PROVE  CloseInv'
  <1>1. ShutdownStartsNothing'
    BY FinishStartsNothing DEF CoreInv, CloseInv, ShutdownStartsNothing, closeVars
  <1>2. ClosedMeansSettled'
    BY PushSettles DEF CoreInv, CloseInv, ClosedMeansSettled, closeVars
  <1>3. QED
    BY <1>1, <1>2 DEF CloseInv

\* A job with neither a live task nor anything that waits owes nothing.
LEMMA SettledJob ==
    ASSUME CoreInv, NEW l \in Logs, Waiting(JobOf[l]) = {}, phase[l] \in {"none", "stuck"}
    PROVE  owed[l] <= 0
  BY DEF CoreInv, AnsweredExactlyOnce

\* shutdown() has awaited every task there is when it returns.
LEMMA ShutdownSettles ==
    ASSUME CoreInv, CloseInv, ShutdownDone, NEW l \in Logs
    PROVE  owed[l] <= 0
  <1>1. /\ Waiting(JobOf[l]) = {}
        /\ tasks[JobOf[l]] \in awaited \union {NoLog}
    BY DEF ShutdownDone, CloseInv, ShutdownStartsNothing
  <1>2. phase[l] \in {"none", "stuck"}
    BY <1>1 DEF ShutdownDone, CoreInv, OneTaskPerJob
  <1>3. QED
    BY <1>1, <1>2, SettledJob

\* graceful_close() has seen every job idle when it goes on.
LEMMA GracefulSettles ==
    ASSUME CoreInv, GracefulDone, NEW l \in Logs
    PROVE  owed[l] <= 0
  <1>1. tasks[JobOf[l]] = NoLog
    BY DEF GracefulDone, Busy
  <1>2. Waiting(JobOf[l]) = {}
    BY <1>1 DEF CoreInv, NothingStranded
  <1>3. phase[l] = "none"
    BY <1>1 DEF CoreInv, OneTaskPerJob
  <1>4. QED
    BY <1>2, <1>3, SettledJob

\* Initially the executor is open.
LEMMA CloseInit == Init => CloseInv
  BY DEF Init, CloseInv, ShutdownStartsNothing, ClosedMeansSettled

\* Every step keeps what closing promises.
LEMMA CloseStep ==
    ASSUME CoreInv, CoreInv', CloseInv, [Next]_vars
    PROVE  CloseInv'
  <1>1. ASSUME NEW l \in Logs, RunJob(l) PROVE CloseInv'
    BY <1>1 DEF RunJob, RunNow, RunSerial, RunCoverEarly, Admissible, closeVars,
                CloseInv, ShutdownStartsNothing, ClosedMeansSettled
  <1>2. ASSUME NEW j \in Jobs, Kill(j) PROVE CloseInv'
    BY <1>2 DEF Kill, closeVars, CloseInv, ShutdownStartsNothing, ClosedMeansSettled
  <1>3. ASSUME NEW l \in Logs, TaskStep(l) PROVE CloseInv'
    BY <1>3, HoldsDepends
       DEF TaskStep, history, closeVars, CloseInv, ShutdownStartsNothing, ClosedMeansSettled
  <1>4. ASSUME NEW l \in Logs, NEW ok \in BOOLEAN, RunEnds(l, ok) PROVE CloseInv'
    BY <1>4, EndKeepsClose DEF RunEnds
  <1>5. ASSUME NEW l \in Logs, CleanupDead(l) PROVE CloseInv'
    <2>1. CASE Instrumented /\ l \in requestCtx
      <3>1. UNCHANGED <<tasks, queue, cover, closing, toCancel, awaited>>
        BY <1>5, <2>1 DEF CleanupDead, closeVars
      <3>2. Push({l}, FALSE)
        BY <1>5 DEF CleanupDead
      <3>3. ShutdownStartsNothing'
        BY <3>1, HoldsDepends DEF CloseInv, ShutdownStartsNothing
      <3>4. ClosedMeansSettled'
        BY <3>1, <3>2, PushSettles DEF CoreInv, CloseInv, ClosedMeansSettled
      <3>5. QED
        BY <3>3, <3>4 DEF CloseInv
    <2>2. CASE ~(Instrumented /\ l \in requestCtx)
      BY <1>5, <2>2, EndKeepsClose DEF CleanupDead
    <2>3. QED
      BY <2>1, <2>2
  <1>6. CASE BeginShutdown
    <2>1. \A j \in Jobs \ toCancel' : Waiting(j) = {} /\ tasks[j] = NoLog
      BY <1>6, EmptyQueue DEF BeginShutdown, Busy, Waiting, CoverSet
    <2>2. QED
      BY <1>6, <2>1, HoldsDepends
         DEF BeginShutdown, scheduling, CloseInv, ShutdownStartsNothing, ClosedMeansSettled
  <1>7. ASSUME NEW j \in Jobs, ShutdownCancel(j) PROVE CloseInv'
    <2>1. /\ queue' = [queue EXCEPT ![j] = <<>>]
          /\ cover' = [cover EXCEPT ![j] = NoLog]
          /\ Push(Waiting(j), FALSE)
          /\ UNCHANGED <<tasks, closing>>
          /\ toCancel' = toCancel \ {j}
          /\ awaited' = awaited \union ({tasks[j]} \ {NoLog})
      BY <1>7 DEF ShutdownCancel, CancelJob
    <2>2. Waiting(j)' = {}
      BY <2>1, EmptyQueue DEF CoreInv, TypeOK, Waiting, CoverSet
    <2>3. \A i \in Jobs \ {j} : Waiting(i)' = Waiting(i)
      BY <2>1 DEF CoreInv, TypeOK, Waiting, CoverSet
    <2>4. ShutdownStartsNothing'
      BY <2>1, <2>2, <2>3 DEF CloseInv, ShutdownStartsNothing
    <2>5. ClosedMeansSettled'
      BY <2>1, PushSettles DEF CoreInv, CloseInv, ClosedMeansSettled
    <2>6. QED
      BY <2>4, <2>5 DEF CloseInv
  <1>8. CASE ShutdownDone
    BY <1>8, ShutdownSettles
       DEF ShutdownDone, history, CloseInv, ShutdownStartsNothing, ClosedMeansSettled
  <1>9. CASE GracefulDone
    BY <1>9, GracefulSettles
       DEF GracefulDone, history, CloseInv, ShutdownStartsNothing, ClosedMeansSettled
  <1>10. CASE BeginGraceful \/ GracefulTimeout
    BY <1>10 DEF BeginGraceful, GracefulTimeout, CloseInv, ShutdownStartsNothing, ClosedMeansSettled
  <1>11. CASE UNCHANGED vars
    BY <1>11, HoldsDepends DEF vars, scheduling, history, closeVars,
                               CloseInv, ShutdownStartsNothing, ClosedMeansSettled
  <1>12. QED
    BY <1>1, <1>2, <1>3, <1>4, <1>5, <1>6, <1>7, <1>8, <1>9, <1>10, <1>11
       DEF Next, TaskMoves, CloseMoves

\* What shutdown has passed, and what a finished close has settled, together.
LEMMA CloseInvariant == Spec => []CloseInv
  <1>1. CoreInv /\ CoreInv' /\ CloseInv /\ [Next]_vars => CloseInv'
    BY CloseStep
  <1>2. QED
    BY <1>1, CoreInvariant, CloseInit, PTL DEF Spec

\* Once shutdown() has passed a job, the end of its task starts no successor.
THEOREM ShutdownIsFinal == Spec => []ShutdownStartsNothing
  BY CloseInvariant, PTL DEF CloseInv

\* When shutdown() or the wait of graceful_close() is over, every accepted
\* trigger has its result in the callback queue.
THEOREM CloseSettlesEverything == Spec => []ClosedMeansSettled
  BY CloseInvariant, PTL DEF CloseInv
============================================================================
