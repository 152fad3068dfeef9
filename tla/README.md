# A TLA+ development of pyxxl

pyxxl is a Python executor for XXL-JOB: an HTTP server that receives triggers from a
scheduling centre (the *admin*), runs the handlers registered for them, and reports each
result back. These modules model the parts of it that are hard to test, check them with TLC
on small instances, and prove with TLAPS the safety of each for every instance, two refinements
included.

## 1. The system

One process, one asyncio loop. Between two suspension points a coroutine runs alone, so the
interleavings that matter are those at `await`, at task creation and cancellation, between
the loop and the child processes it starts, and between the process and the admin.

| Component | State | Operations | Hard behaviour | What makes it correct |
|---|---|---|---|---|
| Executor scheduling, `runtime/executor.py` | per job: current task, queue, COVER_EARLY replacement, log ids, a lock | `run_job` (three block strategies), `cancel_job`, `_run`, `_cleanup_task`, `_finish`, `shutdown`, `graceful_close` | cancellation before the first step; take-over racing with an end; close racing with ends | one task per job; nothing runs twice, is stranded or unanswered; order; a close leaves nothing behind |
| Callback delivery, `runtime/callbacks.py` | queue, worker task, retry tasks, pending counter, files | `enqueue`, worker loop, retry, `stop`, replay at `start` | lost answers, crash at any point, stop racing with worker and retries | a written result survives until delivered; stop reports truly; delivery in the end |
| Process- and thread-mode handlers, `runtime/handlers.py`, `runtime/process.py` | child process, result pipe, cancel event; a pool of threads they share | start, poll, stop step by step, join; submit, interrupt, return | result racing with exit; cancellation during the stop; a thread outlives its cancellation and keeps its place in the pool | one handler of a job at a time; a delivered result is read; start() ends |
| Admin client, `protocol/admin_client.py` | none across calls | `registry`, `registryRemove`, `callback`: rounds over a list of admins | failover, lost answers, unexpected replies | gives up only when it must |
| Runner life cycle, `app/runner.py` | register task, clean-up context | registry loop; clean-up: removal, close of the executor, stop of the callbacks | clean-up steps that raise or time out; a request under way when its task is cancelled; crash and restart | listed while serving, not listed afterwards; what was accepted is answered, stored or still owed; only a handler can hold the clean-up |
| HTTP server, `protocol/server.py` | none | `/run`, `/kill`, `/idleBeat`, `/log`, `/beat` | | part of the actions of the executor and of the task logs |
| Task logs, `logger/*` | a file or Redis list per trigger | write, trim, paged read, expiry, cleaning loop | paging while the log grows, is trimmed or is deleted; calls to Redis that fail | lines in order and once; a finished log can be read whole; old logs go |
| Configuration, handler registration, context, metrics, daemon | | | none, or only read | not modelled |

Interaction: the server calls `run_job` and `cancel_job`; the executor calls
`HandlerInfo.start` and `CallbackManager.enqueue`; the callback worker and the runner call
the admin client; the runner's clean-up cancels the register task, removes the registration,
closes the executor and then the callback manager.

The hazards of the code, each at its line with the properties that would catch it or the
reason why none does, are the `hazards` of `PROJECT.json`.

## 2. Modules

| Module | Models |
|---|---|
| `TriggerService` | abstract: each job serves one line of triggers and answers each once |
| `Executor` | the scheduler; `MCExecutor` holds its instances, `ExecutorProofs` and `ExecutorOrderProofs` its theorems |
| `Outbox` | abstract: what delivery promises of each request |
| `CallbackManager` | delivery, persistence, stop and restart; `MCCallbackManager` names the requests, `CallbackManagerProofs` holds its theorems |
| `Lifecycle` | composition: the runner's clean-up, exit and restart around `CallbackManager`; `MCLifecycle` names the requests, `LifecycleProofs` holds its theorems |
| `Handlers` | `HandlerInfo.start` in process and thread mode, the child, the pool; `HandlersProofs` holds its theorems |
| `Registration` | the register task, `_post`, and the clean-up as far as `registryRemove`; `RegistrationProofs` holds its theorems |
| `TaskLog` | a task's log on both backends, its readers and the cleaning loop; `TaskLogProofs` holds its theorems |
| `QueueLemmas` | no code: facts about sequences without repetition that the proofs about queues share |

`Executor` implements `TriggerService` by the refinement mapping at its end: the replacement
and the queue behind it are one line, and an answer is "pending" while a result is owed.
`CallbackManager` implements `Outbox`: a request is "done" once its answer was seen, "stored"
while its file is complete, "held" while only memory has it.

Operators whose comment starts with *Mutant* are not part of a model. Each is a plausible bug:
put in place of the definition that follows it, it makes a property fail, which shows that
the property says something about the code. `PROJECT.json` pairs them.

### Executor

A section under the per-job lock never suspends before the lock is released: the callback
queue is unbounded, and `put` on the SERIAL queue comes after `full()` was tested with the lock
held. Such a section is one action, its trailing `_push_failed_queued_tasks` included.

| Code | Model |
|---|---|
| `self.tasks`, `self.queue`, `_cover_replacements`, `_job_log_ids` | `tasks`, `queue`, `cover`, `logIds` |
| the asyncio task of an `XXLTask`, with `started` and `cleaned` | `phase` |
| the context a task was created in | `requestCtx`: an HTTP request's (no run data) or another task's |
| callbacks pushed | `owed`, `result` (history) |
| `run_job` | `RunNow`, `RunSerial`, `RunCoverEarly`; refusals change nothing and are no step |
| `cancel_job` under its lock | `CancelJob`; `Kill` from HTTP, `ShutdownCancel` from `shutdown` |
| first step of a task | `TaskStep` |
| `_run` from `handler.start` to the end | `RunEnds`: the result, then `Finish` |
| `_on_executor_task_done` and its `_cleanup_task` | `CleanupDead` |
| `_finish` | `Finish`, part of both |
| `shutdown`, `graceful_close` | `BeginShutdown`, `ShutdownCancel`, `ShutdownDone`; `BeginGraceful`, `GracefulDone`, `GracefulTimeout` |

A trigger's strategy is chosen when it is accepted, so any mixture of strategies occurs. A log
id may come again after its trigger is finished: the admin retries with it, and the code
allows it. `MaxAccepts` bounds how often anything is accepted. `MaxQueue` is
`config.task_queue_length`, and 0 stands for no bound, as in asyncio.

### CallbackManager

| Code | Model |
|---|---|
| `_queue`, `_worker`, `_retry_tasks`, `_pending`, `_closed` | `queue`, `worker` with `current`, `retrying`, `pending`, `closed` |
| the files of `store_dir` | `disk`: absent, full, or torn (cut short) |
| `enqueue`; `_worker_loop`; `_requeue_later` | `Enqueue`; `TakeRequest`, `PostSucceeds`, `PostFails`; `RetryFires` |
| `stop`, split where it suspends | `StopBegins`, `StopWakes` or `StopTimesOut`, `StopCancelsRetries`, `StopFlushes`, `StopJoins` |
| `start` and `_replay_persisted_requests` | `Boot` |

`_worker_lock` and `_state_lock` are held across a suspension only by `stop` while it joins
the worker, so the code between two awaits of the network, a sleep or a task is one action.
`Boot` is the next process: it replays the files in any order, for file names do not tell the
order of requests with different log ids. The admin's reception of a request and this side's
sight of the answer are two steps, so answers get lost.

A crash may come between any two actions. With `TornWrites` a record may also be cut short,
by a crash inside `write_text` or by a full disk, whose error the code only logs.

### Lifecycle

`_cleanup_ctx`, from the start of the clean-up to the exit of the process, and the process
after it. The executor is seen as the results it still owes. `ClosedMeansSettled`, proved of
`Executor`, is what allows `StopCallbacks` to wait for `Settled`. `graceful_close` waits for
idle jobs, which is more where a job stays occupied after its result was pushed
(`executor_wedged`): it then ends in `GracefulTimesOut`, which is therefore enabled whether or
not anything is owed, as it also is in the sleep between two polls. The removal is seen as how
it ends. Where an exception leaves `_cleanup_ctx` (`RemovalFails`, `GracefulTimesOut`), the
process ends without the steps that follow: `run_app` cancels the tasks that are left, and a
worker that is posting writes its request. A process ends here when its event loop does; that
the interpreter then waits for threads of the pool is left out.

### Handlers

The parent's looks at the pipe and at the child are separate actions, with the child running
between them. Timeouts and cancellations arrive where the parent awaits; `MaxInterrupts`
bounds them per `start()`. The next `start()` is that of the next trigger of the same job.
A thread-mode work item is unborn, queued, executing or ended; when its `start()` is
interrupted a queued one is withdrawn, and an executing one goes on and keeps its thread. The
join of a child needs a thread of the same pool, so both modes are in one module.

### TaskLog

The task writes to both backends and each has a reader, so that the two can be compared; a
running process has one backend. A line is its number. The disk backend reads in one step, as
its file only grows; the Redis backend counts and fetches in two calls, and the list may be
trimmed between them. A reader goes on behind the `toLineNum` of its last answer. A file that
was listed as old is deleted later, whatever is written to it in between, and an exception
ends the cleaning loop.

### Registration

One attempt at one admin is one action. A failed or cancelled attempt leaves a request that
was lost, served, or will be served late. The admins share one registry and may strike the
executor off at any time.

## 3. Runs

| Run | Instance | Shows |
|---|---|---|
| `executor_safe` | 2 jobs (3 triggers and 1), 4 accepts, queue of 2, metrics callbacks that may raise | one task per job; each trigger held once; log ids exact; nothing stranded; replacements preempt; one answer each; service in order; a close starts no successor and ends with all results in the callback queue |
| `executor_live` | 1 job, 4 triggers, 3 accepts, queue of 1, no metrics | types and the bound on the queue; `/idleBeat` truthful; every trigger answered; replacements get their turn; a close ends; the executor implements `TriggerService`, its liveness included |
| `executor_wedged` | as `executor_live`, with metrics | violation, see below |
| `callback_reliable` | 2 requests, 2 crashes, whole records | delivery implements `Outbox`; exact counter; nothing accepted vanishes; `stop` reports truly and ends; a process that stays up delivers all |
| `callback_poison` | 2 requests, one unserialisable | violation |
| `lifecycle` | 3 requests, one unserialisable; 2 crashes; records cut short | one attempt at a time; what a process has accepted is owed, held, stored or acknowledged until its clean-up is over; nothing but a cancelled `start()` that does not end can hold a clean-up |
| `cleanup_aborts` | 2 requests, no crash, whole records | violation |
| `process` | 2 triggers of each mode, 2 interrupts each, a pool of 1 thread | a `start()` interrupted once leaves no child running, and no thread that was not told; a delivered result is read; every `start()` ends, in process mode if the pool has room again and again |
| `process_orphan` | the same | violation |
| `task_log` | 4 lines, pages of 2, a Redis list of 3 | no line twice and none out of order; a finished log is read whole; what the disk backend skips; old files go as long as the cleaning loop lives |
| `registration` | 2 admins, 3 and 2 rounds, unexpected replies | a call gives up only when it must; listed again and again; the removal ends and holds |
| `registration_dies` | 2 admins | violation |

Why the bounds are enough.

* Jobs share nothing but the close, so one busy job shows all of scheduling, and a second one
  a close that is part way. A job has a running trigger, a replacement and a queue; three
  triggers fill all three, or a queue of two, and a fourth accept lets one come back under its
  old log id.
* Two requests let one be retried while the other is posted; `lifecycle` has a third, one that
  cannot be serialised, in front of, between or behind the others. Two crashes allow one during
  the recovery from another.
* A second interrupt is the first that can hit the stop itself. With one thread in the pool, a
  single abandoned handler exhausts it.
* Four lines with pages of two give a page that is part full, one that ends exactly with the
  log, and a page past the end; a list of three is trimmed by the fourth line.
* Two admins and two rounds show failover, the last admin of a round, and the last round.

Deadlock checking is off where the system may rightly stop: an executor or a clean-up that is
closed, a last trigger that is over, a log that is finished and read. The callback models never
stop, since a process that ended is started again.

### What the code does against its documents

* `executor_wedged`: a trigger cancelled before its first step, in an instrumented executor,
  leaves its job occupied for ever. The clean-up runs in a context without run data, and the
  metrics callback raises before `_finish`. Without instrumentation the same property holds.
* `callback_poison`: a result that is no JSON value ends the worker and is lost. `ResultsSurvive`
  of the run `lifecycle` shows that while the process is up it takes no other result with it.
* `process_orphan`: a second cancellation during the step-by-step stop leaves the child running.
  The next trigger of the job starts, and two handlers of it execute at once. `StoppedBeforeOver` shows that one interrupt is safe.
* `registration_dies`: a reply with status 200 that is no JSON object ends the register task; without such a reply `KeepsRegistered` holds.
* `cleanup_aborts`: if no admin answers `registryRemove`, or a handler outlasts
  `graceful_timeout`, an exception leaves the clean-up. Neither the executor nor the callback
  manager is closed then, and results that were owed or queued are lost.

Other behaviour met while modelling, which no document speaks of:

* Records are rewritten in place. A crash in the middle, or a full disk, destroys one that was
  complete, and the next start deletes it: with `TornWrites = TRUE` `CallbackManager` does not
  implement `Outbox`.
* `stop` that flushes its queue loses what lies behind a request that cannot be serialised when
  the process ends. A record that is not UTF-8 makes `start` fail.
* The Redis backend answers with the end of the page as `toLineNum`, however few lines it sent.
  A reader that follows a running task from line 1 therefore misses what is written later on
  that page, and with `max_lines` equal to the page, as by default, it gets only its first
  answer. `CompleteLogIsReadWhole` is about readers that come when the task is over.
* The disk backend answers a poll without lines with a `toLineNum` one too far: each such
  answer skips one line, which is what `DiskSkipsOnePerEmptyAnswer` says, and no more.
* `shutdown` awaits each task it has cancelled without a limit. A coroutine that swallows its
  cancellation, or a child's join that finds no thread in the pool, holds the clean-up for ever;
  `CleanupEnds` says that nothing else does.
* Behind a result that ended the worker the queue waits for the next enqueue or retry, however
  long that takes. A registry request that is under way when its task is cancelled may list the
  executor again after the removal, until the admin's sweep.
* The cleaning loop ends with the first exception. A file it has listed is deleted although its
  task has written to it since.

## 4. Fairness

* `Executor`: the loop runs what is ready, so a created or dead task moves on; a handler ends,
  since `start` has a timeout and a cancellation is honoured or outrun by it (for process and
  thread mode that is `StartEndsUnlessStarved` of `Handlers`, with its proviso on the pool).
  Nothing forces a trigger, a kill, a close, or the timeout of a graceful close.
* `CallbackManager`: worker, retries, `stop` and restart move on. The admin's reception and its
  acknowledgement are strongly fair per request: posts repeated for ever are not refused for
  ever. No fairness for crashes and enqueues.
* `Lifecycle`: the steps of the clean-up and of `stop` that have a timeout, or wait for nothing,
  move on, and a graceful close that is held times out. Nothing is assumed of the admin, of the
  handlers, or of a restart: no `PushResult` is fair, of a cancelled task either, and a process
  that an aborted clean-up leaves with results owed need not end. `CleanupEnds` has the premise
  that the clean-up is not held by a handler for ever (`HeldByHandler`) in its statement.
* `Handlers`: the parent's loop moves, and its timeout strikes in the end. The child owes
  nothing, not even an end, and neither does a thread. The timeout is strongly fair because it
  is enabled only while the parent sleeps between two polls. The join is strongly fair because
  the pool serves its queue in order.
* `TaskLog`: the cleaning loop wakes. Nothing forces a task to write or a reader to ask.
* `Registration`: attempts and sleeps end. While serving, a call repeated for ever succeeds in
  the end; at the clean-up nothing is assumed of the admins.

## 5. Proofs

Every safety invariant the passing runs check is a theorem too, and both abstract specifications are
shown to be implemented, fairness apart. A theorem holds for every set of jobs, triggers and
requests, every length of a queue, a log or a page, any number of admins, rounds, interrupts
and crashes, and any bound on the accepts. The assumptions are the `ConstantsAssumption` of
each module, and a hypothesis where the table has one:

* `~Instrumented`: with metrics a task can be stuck for good, as `executor_wedged` shows, and
  the property is false then.
* *serialisable* is `Unserialisable = {}`, *whole records* is `~TornWrites`. Without the first
  `callback_poison` is the counterexample; without the second a record that was complete can be
  cut by a crash or a full disk, and the next start deletes it. `ResultsAreKept` says what is
  kept without either, which is less: it exempts the results that cannot be serialised, and the
  cut records once a stop has begun.

| Module | Theorem | States, for every reachable state |
|---|---|---|
| `ExecutorProofs` | `CoreInvariant` | `CoreInv`, inductive |
| | `TypeCorrect` | `TypeOK`, with the bound on the queues |
| | `JobsRunOneTask` | `OneTaskPerJob` |
| | `TriggersAreHeldOnce` | `HeldOnce` |
| | `DedupIsExact` | `DedupMatchesHeld` |
| | `NobodyIsStranded` | `NothingStranded` |
| | `ReplacementsPreempt` | `ReplacedTaskIsStopping` |
| | `OneAnswerPerTrigger` | `AnsweredExactlyOnce` |
| | `ShutdownIsFinal` | `ShutdownStartsNothing` |
| | `CloseSettlesEverything` | `ClosedMeansSettled` |
| `ExecutorOrderProofs` | `ServedInOrderAlways` | `ServedInOrder` |
| | `IdleBeatWithoutInstrumentation` | `~Instrumented => IdleBeatTruthful` |
| | `ExecutorServes` | if `~Instrumented`: `Service!Init /\ [][Service!Next]_(Service!vars)` |
| `CallbackManagerProofs` | `DeliveryInvariant` | `DeliveryInv`, inductive |
| | `DeliveryTypeCorrect` | `TypeOK` |
| | `AttemptsAreSingle` | `OneAttemptAtATime` |
| | `DrainedIsDelivered` | `DrainedMeansDelivered` |
| | `PendingCountsMemory` | if serialisable: `PendingIsExact` |
| | `RequestsDoNotVanish` | if serialisable and whole records: `NothingVanishes` |
| | `DeliveryImplementsOutbox` | if serialisable and whole records: `ImplementsOutbox` |
| `LifecycleProofs` | `LifecycleInvariant` | `LifecycleInv`, inductive |
| | `LifecycleTypeCorrect` | `LifecycleTypeOK` |
| | `AttemptsStaySingle` | `OneAttemptAtATime` |
| | `ResultsAreKept` | `ResultsSurvive`: serialisable results only, and not those whose record was cut short once a stop has begun |
| | `OrderlyCleanupKeepsResults` | if serialisable and whole records: `[][OrderlyExit => CleanupKeepsResults']_lifecycleVars`, for a clean-up that no exception has left |
| `HandlersProofs` | `HandlersInvariant`, `HandlersTypeCorrect` | `HandlersInv`, inductive; `TypeOK` |
| | `OneInterruptStops` | `StoppedBeforeOver` |
| | `ResultsAreRead` | `DeliveredResultIsRead` |
| `TaskLogProofs` | `TaskLogInvariant`, `TaskLogTypeCorrect` | `TaskLogInv`, inductive; `TypeOK` |
| | `LinesAreSentInOrder` | `NeverTwice` |
| | `WholeLogIsSent` | `CompleteLogIsReadWhole` |
| | `DiskSkipsAreCounted` | `DiskSkipsOnePerEmptyAnswer` |
| `RegistrationProofs` | `RegistrationInvariant`, `RegistrationTypeCorrect` | `RegistrationInv`, inductive; `TypeOK` |
| | `GivesUpOnlyWhenItMust` | `FailureIsExhaustive` |
| | `RemovalHolds` | `RemovedStaysRemoved` |

### The arguments

*Executor.* None of the invariants is inductive alone: that the log ids match what is held
needs each trigger to be held once, which needs an idle job to have nothing waiting, which
needs a live task to belong to the current trigger. `CoreInv` is their conjunction, and it is
inductive. The proof has a lemma per action, on top of lemmas on what `Waiting` becomes and on
`CancelTask` and `Finish`, which several actions share; actions that change only the closing
state need just `CoreDepends`. The rest adds one invariant each to `CoreInv` and uses that
unprimed and primed:

* Closing: `CloseInv` is the two properties together. When `shutdown()` returns, no job has
  anything waiting and every current task was awaited, so by `OneTaskPerJob` no task is live
  and by `AnsweredExactlyOnce` nothing is owed. `graceful_close()` sees only idle jobs, and
  `NothingStranded` says that nothing waits behind those.
* Order: `OrderInv` adds that no ticket is later than the last one issued. A new trigger then
  goes behind everything, and dropping or taking the first keeps what is left in order. A
  COVER_EARLY needs `NothingStranded` as well: it always finds a task to wait for.
* Idle beat: `NoneStuck` says that without instrumentation `_cleanup_task` reaches `_finish`.
* Refinement: with `NoneStuck` a trigger is "pending" exactly while its job holds it
  (`OwedIsHeld`), and `Line` has its replacement in front. Each action is then one of the
  service: accepting serves, joins or replaces, `cancel_job` drops, the end of a task, also of
  one that never ran, answers and serves the next. Everything else is a stutter.

*CallbackManager.* `DeliveryInv` has five parts besides types and `OneAttemptAtATime`.
`Places` says where a request can be while the worker and `stop` stand where they do; `Files`
that a complete record is of a request not yet acknowledged; `OnlyPoisonRaises` that nothing
but an unserialisable request ends the worker or a `stop`. The other two carry the theorems:

* `Counting`: as long as `stop` may wait, the counter is the number of requests accepted and
  not acknowledged. It is *not* the number in memory: a request the worker has dropped, or
  whose retry met a closed manager, still counts. That is why `DrainedMeansDelivered` holds
  without hypotheses: a `stop` that was woken has seen zero, so nothing is missing.
  `PendingIsExact` follows where nothing is dropped.
* `Kept`: until a `stop` closes the manager or gives up, all that can be serialised is in memory;
  memory is dropped only behind a record.

The flush needs the lemma that the places it writes are a prefix of the queue
(`ClosedPlacesArePrefix`), and what lies behind that prefix (`DropElements`). The refinement
has a lemma per kind of step; `ExitForgetsNothing` is where `Kept` is needed: a process that
leaves forgets no request the outbox still holds.

*Lifecycle.* `Settling` adds that the manager is stopped only by a clean-up in which the
executor owes nothing, so no result of a trigger ever meets a closed manager. Each step of the
composition is one the proof about `CallbackManager` has a lemma for; only the place from which
the process may leave is wider, which `LeavesKeeps` allows.

*Handlers.* `PointsTell` says what each place of `start()` lets the loop conclude: a last look
at the pipe is a look at a dead child, and with one interrupt the join is reached only when the
handler has stopped executing. `PipeTells` ties a payload to a child that has left its handler.

*TaskLog.* `DiskOrder` and `RedisOrder` say that a log, and what its reader was sent, are
increasing, and that whatever stands at the places the reader still asks for is later than what
it was sent: trimming moves lines to earlier places only, whether it comes between two requests
or between the count and the fetch of one. `WholeSoFar` says how many lines the reader of a
finished log has been sent after each page.

*Registration.* `RoundProgress` says that the admins before the one asked have failed the round
and the others are untried; `OneCaller` that the register task and the clean-up never call at
the same time.

### Model-checked only

Liveness, which is out of the prover's reach: `EveryTriggerAnswered`, `ReplacementTakesOver`,
`CloseEnds`, `StayingUpDelivers`, `StopCompletes`, `CleanupEnds`, `StartEndsUnlessStarved`,
`OldLogGoes`, `KeepsRegistered`, `RemovalSettles`, and the fairness of `TriggerService` within
`ImplementsService`. The violations, too, are found by TLC.

## 6. Not modelled

* File errors that leave a record as it was; a record that is not UTF-8; the logging handlers'
  formatting, or a record of several lines.
* `reset_handler` and the registration of handlers: dictionaries filled before the program
  serves. Callbacks of the user that raise: the runner supplies none.
* `enqueue` during `stop`: the runner stops the manager only after the executor has settled.
* The feeder thread of the child's result queue: a result that cannot be pickled is a child
  that ends without a payload.
* Async mode beyond "a handler that ends, raises, times out or is cancelled": it is a coroutine
  of the loop, and `Executor` has its interleavings.
* URL and JSON handling, tokens, configuration, the metrics page, the daemon process: no state
  of the running system, or only read.

## 7. Plan

1. Done: the scheduler and its abstraction, callback delivery and its abstraction, the life
   cycle around it, process and thread mode, registration, task logs.
2. Done: proofs of every safety invariant the passing runs check, and of the steps of both
   refinements.
3. Proofs to come: what `TriggerService` and `Outbox` promise by themselves (a line holds a
   trigger once, nothing done is ever undone), which then holds of what implements them; what is
   kept of a stored request where records may be cut short.
4. Models to come: `Lifecycle` over `Executor` itself instead of the results it owes, for one
   job, if the product stays within TLC's reach.
