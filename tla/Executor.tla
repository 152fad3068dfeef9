------------------------------ MODULE Executor ------------------------------
(***************************************************************************)
(* The scheduler of pyxxl/runtime/executor.py: per job one executing       *)
(* trigger, a bounded SERIAL queue behind it, at most one COVER_EARLY      *)
(* replacement in front of that queue, and the set of log ids used to      *)
(* refuse a trigger that is already outstanding.                           *)
(*                                                                         *)
(* Granularity.  The program is one asyncio loop.  Every section the code  *)
(* guards with the per-job lock runs from the lock to its release without  *)
(* suspending (the callback queue is unbounded, so _push_callback does not *)
(* suspend either); such a section is one action.  What does interleave is *)
(* modelled: a task is created now and takes its first step later; cancel()*)
(* is a request that the task honours later, or never if its handler has   *)
(* just finished; the clean-up of a task cancelled before its first step   *)
(* is a second task; kill, shutdown and graceful close run between any of  *)
(* these.                                                                  *)
(***************************************************************************)
EXTENDS Integers, Sequences, Functions

CONSTANTS
    Jobs,          \* job ids
    Logs,          \* log ids: one per trigger the admin sends
    JobOf,         \* the job a trigger belongs to
    NoLog,         \* stands for None
    MaxQueue,      \* config.task_queue_length; 0 makes asyncio.Queue unbounded
    MaxAccepts,    \* bound: triggers accepted in one behaviour
    Instrumented   \* failed_callback reads the run data of the current context
                   \* (InstrumentedExecutor) and raises where there is none

ASSUME ConstantsAssumption ==
    /\ JobOf \in [Logs -> Jobs]
    /\ NoLog \notin Logs
    /\ MaxQueue \in Nat
    /\ MaxAccepts \in Nat
    /\ Instrumented \in BOOLEAN

VARIABLES
    tasks,       \* job -> the trigger of its XXLTask            (self.tasks)
    queue,       \* job -> triggers waiting in SERIAL order      (self.queue)
    cover,       \* job -> the replacement that waits            (_cover_replacements)
    logIds,      \* job -> log ids refused as duplicates         (_job_log_ids)
    phase,       \* trigger -> where the asyncio task of its XXLTask stands
    requestCtx,  \* triggers whose task was created in an HTTP request's context
    owed,        \* history: results accepted and not yet pushed, per trigger
    result,      \* history: the last result pushed for the trigger
    ticket,      \* history: the order in which triggers were accepted
    clock,       \* number of triggers accepted so far
    closing,     \* how far the runner's clean-up of the executor has come
    toCancel,    \* jobs shutdown() still has to cancel
    awaited      \* triggers whose task shutdown() awaits

scheduling == <<tasks, queue, cover, logIds, phase, requestCtx>>
history    == <<owed, result, ticket, clock>>
closeVars  == <<closing, toCancel, awaited>>
vars       == <<scheduling, history, closeVars>>

Phases ==
    {"none",        \* no task: never accepted, waiting, or finished
     "created",     \* create_task() called, first step not taken
     "doomed",      \* cancelled in that window: _run will never execute
     "dead",        \* the cancelled task is done, _cleanup_task not yet run
     "stuck",       \* _cleanup_task has raised before _finish
     "running",     \* inside handler.start
     "cancelling"}  \* cancel() requested while inside handler.start

Init ==
    /\ tasks = [j \in Jobs |-> NoLog]
    /\ queue = [j \in Jobs |-> <<>>]
    /\ cover = [j \in Jobs |-> NoLog]
    /\ logIds = [j \in Jobs |-> {}]
    /\ phase = [l \in Logs |-> "none"]
    /\ requestCtx = {}
    /\ owed = [l \in Logs |-> 0]
    /\ result = [l \in Logs |-> "none"]
    /\ ticket = [l \in Logs |-> 0]
    /\ clock = 0
    /\ closing = "open"
    /\ toCancel = {}
    /\ awaited = {}

-----------------------------------------------------------------------------
(* What a job holds. *)

CoverSet(j) == {cover[j]} \ {NoLog}
Waiting(j)  == CoverSet(j) \union Range(queue[j])
Held(j)     == Waiting(j) \union ({tasks[j]} \ {NoLog})

\* is_running_or_has_queue: what /idleBeat reports as busy.
Busy(j) == tasks[j] # NoLog \/ queue[j] # <<>> \/ cover[j] # NoLog

\* Mutant: a queue that is never full.
QueueNeverFull(j) == FALSE

\* asyncio.Queue.full(): a queue with maxsize 0 never is.
QueueFull(j) == MaxQueue > 0 /\ Len(queue[j]) >= MaxQueue

\* Mutant: a running task is not told to stop.
CancelledUnlessRunning(p) == IF p = "created" THEN "doomed" ELSE p

\* Task.cancel() on a task in phase p; it has no effect on a task that is done.
Cancelled(p) ==
    IF p = "created" THEN "doomed"
    ELSE IF p = "running" THEN "cancelling"
    ELSE p

CancelTask(j) ==
    IF tasks[j] = NoLog THEN phase
    ELSE [phase EXCEPT ![tasks[j]] = Cancelled(@)]

\* Mutant: the queue is forgotten.
NextUpIgnoringQueue(j) == cover[j]

\* Mutant: the queue is served before the replacement.
NextUpQueueFirst(j) == IF queue[j] # <<>> THEN Head(queue[j]) ELSE cover[j]

\* The trigger _finish starts next: the replacement before the queue.
NextUp(j) ==
    IF cover[j] # NoLog THEN cover[j]
    ELSE IF queue[j] # <<>> THEN Head(queue[j])
    ELSE NoLog

-----------------------------------------------------------------------------
(* Callbacks: every accepted trigger owes the admin one result.  ok is the   *)
(* handler's verdict (code 200 or 500); a dropped trigger is failed.         *)

Push(answered, ok) ==
    /\ owed' = [l \in Logs |-> owed[l] - (IF l \in answered THEN 1 ELSE 0)]
    /\ result' = [l \in Logs |-> IF l \notin answered THEN result[l]
                                 ELSE IF ok THEN "ok" ELSE "failed"]
    /\ UNCHANGED <<ticket, clock>>

\* Accept trigger new and push a failure for each of the dropped ones.
AcceptAndDrop(new, dropped) ==
    /\ owed' = [l \in Logs |-> owed[l] + (IF l = new THEN 1 ELSE 0)
                                       - (IF l \in dropped THEN 1 ELSE 0)]
    /\ result' = [l \in Logs |-> IF l \in dropped THEN "failed" ELSE result[l]]
    /\ ticket' = [ticket EXCEPT ![new] = clock + 1]
    /\ clock' = clock + 1

-----------------------------------------------------------------------------
(* run_job.  A trigger that is refused (handler not found, repeated log id,  *)
(* DISCARD_LATER while busy, SERIAL with a full queue, unknown strategy)     *)
(* raises before any state is changed: it is not a step.                     *)

\* Mutant: no check of the log id.
AdmissibleWithoutDedup(l) == closing = "open" /\ clock < MaxAccepts

\* The dedup check.  The HTTP server is stopped before the executor closes.
Admissible(l) ==
    /\ closing = "open"
    /\ clock < MaxAccepts
    /\ l \notin logIds[JobOf[l]]

\* Mutant: the current task is not looked at.
CanStartNowIgnoringTask(j) == queue[j] = <<>> /\ cover[j] = NoLog

CanStartNow(j) == tasks[j] = NoLog /\ queue[j] = <<>> /\ cover[j] = NoLog

RunNow(l) ==
    LET j == JobOf[l] IN
    /\ Admissible(l)
    /\ CanStartNow(j)
    /\ logIds' = [logIds EXCEPT ![j] = @ \union {l}]
    /\ tasks' = [tasks EXCEPT ![j] = l]
    /\ phase' = [phase EXCEPT ![l] = "created"]
    /\ requestCtx' = requestCtx \union {l}
    /\ AcceptAndDrop(l, {})
    /\ UNCHANGED <<queue, cover, closeVars>>

RunSerial(l) ==
    LET j == JobOf[l] IN
    /\ Admissible(l)
    /\ ~CanStartNow(j)
    /\ ~QueueFull(j)
    /\ queue' = [queue EXCEPT ![j] = Append(@, l)]
    /\ logIds' = [logIds EXCEPT ![j] = @ \union {l}]
    /\ AcceptAndDrop(l, {})
    /\ UNCHANGED <<tasks, cover, phase, requestCtx, closeVars>>

\* Mutant: the replacement that is replaced gets no failure.
DroppedWithoutReplacement(j) == Range(queue[j])

\* dropped_tasks: the drained queue and the replacement taken off.
Dropped(j) == Waiting(j)

\* Everything that waits is dropped, the trigger waits alone, and the current
\* task is cancelled; were there none, the trigger would start at once.
RunCoverEarly(l) ==
    LET j == JobOf[l]
        idle == tasks[j] = NoLog
    IN
    /\ Admissible(l)
    /\ ~CanStartNow(j)
    /\ queue' = [queue EXCEPT ![j] = <<>>]
    /\ logIds' = [logIds EXCEPT ![j] = (@ \ Waiting(j)) \union {l}]
    /\ cover' = [cover EXCEPT ![j] = IF idle THEN NoLog ELSE l]
    /\ tasks' = [tasks EXCEPT ![j] = IF idle THEN l ELSE @]
    /\ phase' = IF idle THEN [phase EXCEPT ![l] = "created"] ELSE CancelTask(j)
    /\ requestCtx' = IF idle THEN requestCtx \union {l} ELSE requestCtx
    /\ AcceptAndDrop(l, Dropped(j))
    /\ UNCHANGED closeVars

RunJob(l) == RunNow(l) \/ RunSerial(l) \/ RunCoverEarly(l)

-----------------------------------------------------------------------------
(* cancel_job: drop what waits, request the cancellation of the task.        *)

\* Mutant: the drained triggers keep their log ids.
CancelJobKeepingLogIds(j) ==
    /\ queue' = [queue EXCEPT ![j] = <<>>]
    /\ cover' = [cover EXCEPT ![j] = NoLog]
    /\ phase' = CancelTask(j)
    /\ Push(Waiting(j), FALSE)
    /\ UNCHANGED <<tasks, requestCtx, logIds>>

\* Mutant: include_queue is False.
CancelJobRunningOnly(j) ==
    /\ phase' = CancelTask(j)
    /\ UNCHANGED <<tasks, queue, cover, logIds, requestCtx, history>>

CancelJob(j) ==
    /\ queue' = [queue EXCEPT ![j] = <<>>]
    /\ cover' = [cover EXCEPT ![j] = NoLog]
    /\ logIds' = [logIds EXCEPT ![j] = @ \ Waiting(j)]
    /\ phase' = CancelTask(j)
    /\ Push(Waiting(j), FALSE)
    /\ UNCHANGED <<tasks, requestCtx>>

\* POST /kill.
Kill(j) ==
    /\ closing = "open"
    /\ CancelJob(j)
    /\ UNCHANGED closeVars

-----------------------------------------------------------------------------
(* The life of a task. *)

\* First step of the asyncio task: _run reaches the handler, unless cancel()
\* came first, and then the coroutine body never runs.
TaskStep(l) ==
    /\ phase[l] \in {"created", "doomed"}
    /\ phase' = [phase EXCEPT ![l] = IF @ = "created" THEN "running" ELSE "dead"]
    /\ UNCHANGED <<tasks, queue, cover, logIds, requestCtx, history, closeVars>>

\* _finish: free the job and its log id, then start whoever is next.  A task
\* started here inherits a context that holds run data.
Finish(l) ==
    LET j == JobOf[l] IN
    /\ logIds' = [logIds EXCEPT ![j] = @ \ {l}]
    /\ requestCtx' = requestCtx \ {l}
    /\ IF tasks[j] = l
       THEN /\ tasks' = [tasks EXCEPT ![j] = NextUp(j)]
            /\ cover' = [cover EXCEPT ![j] = NoLog]
            /\ queue' = [queue EXCEPT ![j] = IF cover[j] # NoLog \/ @ = <<>>
                                             THEN @ ELSE Tail(@)]
            /\ phase' = [k \in Logs |-> IF k = l THEN "none"
                                        ELSE IF k = NextUp(j) THEN "created"
                                        ELSE phase[k]]
       ELSE /\ phase' = [phase EXCEPT ![l] = "none"]
            /\ UNCHANGED <<tasks, cover, queue>>

\* handler.start returns, raises, times out or is cancelled; _run pushes the
\* result and its finally clause finishes the task.  A cancellation that meets
\* a handler which has just finished may be swallowed, so every outcome is
\* possible in both phases.
RunEnds(l, ok) ==
    /\ phase[l] \in {"running", "cancelling"}
    /\ Push({l}, ok)
    /\ Finish(l)
    /\ UNCHANGED closeVars

\* Mutant: push_cancel_callback is False.
CleanupDeadWithoutPush(l) ==
    /\ phase[l] = "dead"
    /\ Finish(l)
    /\ UNCHANGED <<history, closeVars>>

\* Mutant: _finish is never reached.
CleanupDeadWithoutFinish(l) ==
    /\ phase[l] = "dead"
    /\ Push({l}, FALSE)
    /\ phase' = [phase EXCEPT ![l] = "stuck"]
    /\ UNCHANGED <<tasks, queue, cover, logIds, requestCtx, closeVars>>

\* _cleanup_task of a task that never ran.  With InstrumentedExecutor the
\* failed_callback after the push raises when the context has no run data,
\* and _finish is not reached.
CleanupDead(l) ==
    /\ phase[l] = "dead"
    /\ Push({l}, FALSE)
    /\ IF Instrumented /\ l \in requestCtx
       THEN /\ phase' = [phase EXCEPT ![l] = "stuck"]
            /\ UNCHANGED <<tasks, queue, cover, logIds, requestCtx>>
       ELSE Finish(l)
    /\ UNCHANGED closeVars

-----------------------------------------------------------------------------
(* The runner's clean-up: shutdown() or graceful_close(). *)

BeginShutdown ==
    /\ closing = "open"
    /\ closing' = "shutdown"
    /\ toCancel' = {j \in Jobs : Busy(j)}
    /\ UNCHANGED <<scheduling, history, awaited>>

ShutdownCancel(j) ==
    /\ j \in toCancel
    /\ toCancel' = toCancel \ {j}
    /\ awaited' = awaited \union ({tasks[j]} \ {NoLog})
    /\ CancelJob(j)
    /\ UNCHANGED closing

\* Mutant: the cancelled tasks are not awaited.
ShutdownDoneWithoutAwait ==
    /\ closing = "shutdown"
    /\ toCancel = {}
    /\ closing' = "closed"
    /\ UNCHANGED <<scheduling, history, toCancel, awaited>>

\* gather() returns once every awaited task has left the loop.  A task that
\* died before its first step has scheduled its clean-up by then, ahead of
\* gather in the loop's FIFO of ready callbacks.
ShutdownDone ==
    /\ closing = "shutdown"
    /\ toCancel = {}
    /\ \A l \in awaited : phase[l] \in {"none", "stuck"}
    /\ closing' = "closed"
    /\ UNCHANGED <<scheduling, history, toCancel, awaited>>

BeginGraceful ==
    /\ closing = "open"
    /\ closing' = "graceful"
    /\ UNCHANGED <<scheduling, history, toCancel, awaited>>

GracefulDone ==
    /\ closing = "graceful"
    /\ \A j \in Jobs : ~Busy(j)
    /\ closing' = "closed"
    /\ UNCHANGED <<scheduling, history, toCancel, awaited>>

\* wait_for gives up: TimeoutError leaves graceful_close.
GracefulTimeout ==
    /\ closing = "graceful"
    /\ closing' = "timedout"
    /\ UNCHANGED <<scheduling, history, toCancel, awaited>>

-----------------------------------------------------------------------------
TaskMoves(l) == TaskStep(l) \/ CleanupDead(l) \/ \E ok \in BOOLEAN : RunEnds(l, ok)

CloseMoves ==
    \/ BeginShutdown
    \/ \E j \in Jobs : ShutdownCancel(j)
    \/ ShutdownDone
    \/ BeginGraceful
    \/ GracefulDone
    \/ GracefulTimeout

Next ==
    \/ \E l \in Logs : RunJob(l)
    \/ \E j \in Jobs : Kill(j)
    \/ \E l \in Logs : TaskMoves(l)
    \/ CloseMoves

Spec == Init /\ [][Next]_vars

\* The loop runs every ready callback, and a handler ends: it honours its
\* cancellation or reaches its timeout.  Nothing forces a trigger, a kill, a
\* close or the graceful timeout.
Fairness ==
    /\ \A l \in Logs : WF_vars(TaskMoves(l))
    /\ \A j \in Jobs : WF_vars(ShutdownCancel(j))
    /\ WF_vars(ShutdownDone)
    /\ WF_vars(GracefulDone)

FairSpec == Spec /\ Fairness

-----------------------------------------------------------------------------
(* Properties *)

\* Every variable stays within its type, and no queue outgrows its bound.
TypeOK ==
    /\ tasks \in [Jobs -> Logs \union {NoLog}]
    /\ queue \in [Jobs -> Seq(Logs)]
    /\ \A j \in Jobs : MaxQueue > 0 => Len(queue[j]) <= MaxQueue
    /\ cover \in [Jobs -> Logs \union {NoLog}]
    /\ logIds \in [Jobs -> SUBSET Logs]
    /\ phase \in [Logs -> Phases]
    /\ requestCtx \in SUBSET Logs
    /\ owed \in [Logs -> Int]
    /\ result \in [Logs -> {"none", "ok", "failed"}]
    /\ ticket \in [Logs -> Nat]
    /\ clock \in Nat
    /\ closing \in {"open", "shutdown", "graceful", "closed", "timedout"}
    /\ toCancel \in SUBSET Jobs
    /\ awaited \in SUBSET Logs

\* One execution per job: a trigger has a live asyncio task exactly when it is
\* the current task of its job, whatever finishes, is cancelled or takes over.
OneTaskPerJob ==
    \A l \in Logs : phase[l] # "none" <=> tasks[JobOf[l]] = l

\* What a job holds is its own, and each trigger is held in one place once: a
\* race of cancel, take-over and dequeue never runs or drops a trigger twice.
HeldOnce ==
    \A j \in Jobs :
        /\ Held(j) \subseteq {l \in Logs : JobOf[l] = j}
        /\ IsInjective(queue[j])
        /\ tasks[j] \notin Waiting(j)
        /\ cover[j] \notin Range(queue[j])

\* The dedup set is the set of triggers the job holds: a forgotten release
\* would refuse a trigger for ever, an early one would run it twice.
DedupMatchesHeld == \A j \in Jobs : logIds[j] = Held(j)

\* Nothing waits behind an idle job: only the end of a task starts the next
\* trigger, so one that waits with no task would wait for ever.
NothingStranded ==
    \A j \in Jobs : tasks[j] = NoLog => Waiting(j) = {}

\* A COVER_EARLY replacement waits only for a task that has been told to stop.
ReplacedTaskIsStopping ==
    \A j \in Jobs : cover[j] # NoLog =>
        /\ tasks[j] # NoLog
        /\ phase[tasks[j]] \in {"doomed", "dead", "stuck", "cancelling"}

\* An accepted trigger is owed its one result as long as it waits or runs, and
\* is never owed one, nor given a second, afterwards.
AnsweredExactlyOnce ==
    \A l \in Logs :
        owed[l] = IF \/ l \in Waiting(JobOf[l])
                     \/ phase[l] \notin {"none", "stuck"}
                  THEN 1 ELSE 0

\* /idleBeat is true to the admin: a job reports busy exactly while it owes
\* the result of one of its triggers.
IdleBeatTruthful ==
    \A j \in Jobs : Busy(j) <=> \E l \in Logs : JobOf[l] = j /\ owed[l] > 0

\* Triggers of a job are served in the order they were accepted: the running
\* one is older than all that wait, the replacement is older than the queue
\* that formed behind it, and the queue is first in, first out.
ServedInOrder ==
    \A j \in Jobs :
        /\ \A l \in Waiting(j) : tasks[j] # NoLog => ticket[tasks[j]] < ticket[l]
        /\ \A l \in Range(queue[j]) : cover[j] # NoLog => ticket[cover[j]] < ticket[l]
        /\ \A m, n \in DOMAIN queue[j] :
              m < n => ticket[queue[j][m]] < ticket[queue[j][n]]

\* Once shutdown has passed a job, the end of its task starts no successor:
\* all it still holds is a task shutdown awaits.
ShutdownStartsNothing ==
    closing = "shutdown" =>
        \A j \in Jobs \ toCancel :
            /\ Waiting(j) = {}
            /\ tasks[j] \in awaited \union {NoLog}

\* The runner closes the callback queue after a finished shutdown or graceful
\* close: by then every accepted trigger has its result in that queue.
ClosedMeansSettled ==
    closing = "closed" => \A l \in Logs : owed[l] <= 0

\* Every accepted trigger is answered.
EveryTriggerAnswered ==
    \A l \in Logs : owed[l] > 0 ~> owed[l] = 0

\* A COVER_EARLY replacement gets its turn, unless it is itself dropped.
ReplacementTakesOver ==
    \A l \in Logs : cover[JobOf[l]] = l ~> cover[JobOf[l]] # l

\* A clean-up that has begun comes to an end.
CloseEnds ==
    closing \in {"shutdown", "graceful"} ~> closing \in {"closed", "timedout"}

-----------------------------------------------------------------------------
(* The executor is a TriggerService: the replacement and the queue behind it *)
(* are one line, and a trigger is pending while its result is owed.          *)

Line(j) == IF cover[j] = NoLog THEN queue[j] ELSE <<cover[j]>> \o queue[j]

Service == INSTANCE TriggerService WITH
    serving <- tasks,
    line    <- [j \in Jobs |-> Line(j)],
    answer  <- [l \in Logs |-> IF owed[l] > 0 THEN "pending" ELSE result[l]]

\* Every behaviour of the fair executor is one the service allows, its promise
\* to answer included.
ImplementsService == Service!Spec
=============================================================================
