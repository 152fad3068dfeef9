------------------------------ MODULE Handlers ------------------------------
(***************************************************************************)
(* How pyxxl/runtime/handlers.py runs a handler outside the event loop.    *)
(* Process mode: a child process is polled for its result and stopped step *)
(* by step (cancel event, terminate, kill) after a timeout or a            *)
(* cancellation.  Thread mode: a thread of the executor's pool, which      *)
(* cannot be stopped, only told.  The pool is the loop's default executor: *)
(* the join of a child needs one of its threads too.                       *)
(*                                                                         *)
(* Two jobs, one of each mode; the triggers of a job run in turn, the next *)
(* start() comes from _finish, after the one before it is over.            *)
(*                                                                         *)
(* Granularity.  Child and threads run beside the loop, so each look of    *)
(* the loop at the pipe, at the child or at the pool is an action.  A      *)
(* cancellation is delivered where the loop awaits: in the polling sleep,  *)
(* in the sleeps of _stop_process, in the join, and in to_thread.  Sleeps  *)
(* that are counted (10 and 20 polls) or timed (the 0.2 s join) end        *)
(* nondeterministically.                                                   *)
(***************************************************************************)
EXTENDS Integers, FiniteSets

CONSTANTS
    Runs,           \* how many triggers of the process-mode job run in turn
    MaxInterrupts,  \* bound: timeouts and cancellations that hit one start()
    ThreadRuns,     \* how many triggers of the thread-mode job run in turn
    Workers         \* threads of the pool (max_workers)

ASSUME ConstantsAssumption ==
    /\ {Runs, ThreadRuns, Workers} \subseteq Nat \ {0}
    /\ MaxInterrupts \in Nat

VARIABLES
    run,         \* the process-mode trigger that runs
    pc,          \* where its start() stands
    child,       \* run -> its child process
    piped,       \* run -> the payload the child has written to result_queue
    signalled,   \* run -> whether its cancel_event is set
    outcome,     \* run -> how its start() ends
    interrupts,  \* run -> timeouts and cancellations of its start()
    thread,      \* thread-mode trigger -> its work item in the pool
    over,        \* thread-mode triggers whose start() has ended
    told         \* thread-mode triggers whose cancel event is set

processVars == <<run, pc, child, piped, signalled, outcome, interrupts>>
threadVars  == <<thread, over, told>>
vars        == <<processVars, threadVars>>

Points ==
    {"sleeping",  \* wait_for: the poll's sleep
     "get",       \* get_nowait of _wait_process_result
     "check",     \* the pipe was empty: is_alive
     "lastget",   \* the child was dead: get_nowait once more
     "asking",    \* _stop_process, cancel_event set
     "forcing",   \* _stop_process, terminated
     "joining",   \* the finally clause
     "over"}

Init ==
    /\ run = 1
    /\ pc = "sleeping"
    /\ child = [r \in 1..Runs |-> IF r = 1 THEN "running" ELSE "unborn"]
    /\ piped = [r \in 1..Runs |-> "none"]
    /\ signalled = [r \in 1..Runs |-> FALSE]
    /\ outcome = [r \in 1..Runs |-> "none"]
    /\ interrupts = [r \in 1..Runs |-> 0]
    /\ thread = [t \in 1..ThreadRuns |-> "unborn"]
    /\ over = {}
    /\ told = {}

Alive(r) == child[r] \in {"running", "exiting"}

PoolHasRoom == Cardinality({t \in 1..ThreadRuns : thread[t] = "executing"}) < Workers

-----------------------------------------------------------------------------
(* _start_thread *)

ThreadSubmitted(t) ==
    /\ thread[t] = "unborn"
    /\ t = 1 \/ t - 1 \in over
    /\ thread' = [thread EXCEPT ![t] = "queued"]
    /\ UNCHANGED <<over, told, processVars>>

ThreadPicked(t) ==
    /\ thread[t] = "queued"
    /\ PoolHasRoom
    /\ thread' = [thread EXCEPT ![t] = "executing"]
    /\ UNCHANGED <<over, told, processVars>>

\* The handler returns or raises, perhaps long after its start() is over.
ThreadReturns(t) ==
    /\ thread[t] = "executing"
    /\ thread' = [thread EXCEPT ![t] = "ended"]
    /\ UNCHANGED <<over, told, processVars>>

\* The loop learns of it.
ThreadStartReturns(t) ==
    /\ thread[t] = "ended" /\ t \notin over
    /\ over' = over \union {t}
    /\ UNCHANGED <<thread, told, processVars>>

\* A timeout or a cancellation: the event is set and start() ends.  A work item
\* that no thread has taken is withdrawn; one that executes goes on.
ThreadInterrupted(t) ==
    /\ thread[t] # "unborn" /\ t \notin over
    /\ thread' = [thread EXCEPT ![t] = IF @ = "queued" THEN "ended" ELSE @]
    /\ over' = over \union {t}
    /\ told' = told \union {t}
    /\ UNCHANGED processVars

-----------------------------------------------------------------------------
(* The child.  Nothing makes it look at its cancel_event. *)

\* The handler returns or raises and the payload reaches the pipe, unless the
\* result cannot be pickled.
ChildPuts(r) ==
    /\ child[r] = "running"
    /\ child' = [child EXCEPT ![r] = "exiting"]
    /\ \E payload \in {"none", "ok", "error"} : piped' = [piped EXCEPT ![r] = payload]
    /\ UNCHANGED <<run, pc, signalled, outcome, interrupts, threadVars>>

ChildExits(r) ==
    /\ Alive(r)
    /\ child' = [child EXCEPT ![r] = "dead"]
    /\ UNCHANGED <<run, pc, piped, signalled, outcome, interrupts, threadVars>>

-----------------------------------------------------------------------------
(* _wait_process_result *)

Moves(from, to) == pc = from /\ pc' = to

Wake ==
    /\ Moves("sleeping", "get")
    /\ UNCHANGED <<run, child, piped, signalled, outcome, interrupts, threadVars>>

GetResult ==
    /\ pc = "get"
    /\ pc' = IF piped[run] = "none" THEN "check" ELSE "joining"
    /\ outcome' = [outcome EXCEPT ![run] = piped[run]]
    /\ UNCHANGED <<run, child, piped, signalled, interrupts, threadVars>>

\* Mutant: a dead child is reported without a last look at the pipe.
CheckChildHastily ==
    /\ pc = "check"
    /\ pc' = IF Alive(run) THEN "sleeping" ELSE "joining"
    /\ outcome' = [outcome EXCEPT ![run] = IF Alive(run) THEN @ ELSE "crashed"]
    /\ UNCHANGED <<run, child, piped, signalled, interrupts, threadVars>>

CheckChild ==
    /\ pc = "check"
    /\ pc' = IF Alive(run) THEN "sleeping" ELSE "lastget"
    /\ UNCHANGED <<run, child, piped, signalled, outcome, interrupts, threadVars>>

LastGet ==
    /\ Moves("lastget", "joining")
    /\ outcome' = [outcome EXCEPT ![run] =
                      IF piped[run] = "none" THEN "crashed" ELSE piped[run]]
    /\ UNCHANGED <<run, child, piped, signalled, interrupts, threadVars>>

-----------------------------------------------------------------------------
(* Interrupts *)

Interrupted ==
    /\ interrupts[run] < MaxInterrupts
    /\ interrupts' = [interrupts EXCEPT ![run] = @ + 1]

\* wait_for gives up, or the task is cancelled in it: _stop_process begins.
StopBegins(how) ==
    /\ Interrupted
    /\ Moves("sleeping", "asking")
    /\ signalled' = [signalled EXCEPT ![run] = TRUE]
    /\ outcome' = [outcome EXCEPT ![run] = how]
    /\ UNCHANGED <<run, child, piped, threadVars>>

Timeout == StopBegins("timeout")

Cancel == StopBegins("cancelled")

\* A cancellation inside _stop_process leaves it for the finally clause; one
\* inside the join leaves start().
CancelAgain ==
    /\ Interrupted
    /\ pc \in {"asking", "forcing", "joining"}
    /\ pc' = IF pc = "joining" THEN "over" ELSE "joining"
    /\ outcome' = [outcome EXCEPT ![run] = "cancelled"]
    /\ UNCHANGED <<run, child, piped, signalled, threadVars>>

-----------------------------------------------------------------------------
(* _stop_process and _join_process *)

ChildStopped ==
    /\ pc \in {"asking", "forcing"}
    /\ ~Alive(run)
    /\ pc' = "joining"
    /\ UNCHANGED <<run, child, piped, signalled, outcome, interrupts, threadVars>>

\* SIGTERM ends the child unless its handler catches or ignores the signal.
Terminate ==
    /\ Moves("asking", "forcing")
    /\ Alive(run)
    /\ \E after \in {child[run], "dead"} : child' = [child EXCEPT ![run] = after]
    /\ UNCHANGED <<run, piped, signalled, outcome, interrupts, threadVars>>

\* Mutant: terminate() is the last resort.
KillWithoutSignal ==
    /\ Moves("forcing", "joining")
    /\ Alive(run)
    /\ UNCHANGED <<run, child, piped, signalled, outcome, interrupts, threadVars>>

Kill ==
    /\ Moves("forcing", "joining")
    /\ Alive(run)
    /\ child' = [child EXCEPT ![run] = "dead"]
    /\ UNCHANGED <<run, piped, signalled, outcome, interrupts, threadVars>>

\* Mutant: the join waits for the child, without a timeout.
JoinForever ==
    /\ Moves("joining", "over")
    /\ PoolHasRoom
    /\ child[run] = "dead"
    /\ UNCHANGED <<run, child, piped, signalled, outcome, interrupts, threadVars>>

\* A thread of the pool joins the child, for 0.2 s at most.
Join ==
    /\ Moves("joining", "over")
    /\ PoolHasRoom
    /\ UNCHANGED <<run, child, piped, signalled, outcome, interrupts, threadVars>>

\* Mutant: process.start() is forgotten.
StartNextWithoutChild ==
    /\ pc = "over"
    /\ run < Runs
    /\ run' = run + 1
    /\ pc' = "sleeping"
    /\ UNCHANGED <<child, piped, signalled, outcome, interrupts, threadVars>>

\* _finish starts the next trigger of the job.
StartNext ==
    /\ pc = "over"
    /\ run < Runs
    /\ run' = run + 1
    /\ pc' = "sleeping"
    /\ child' = [child EXCEPT ![run + 1] = "running"]
    /\ UNCHANGED <<piped, signalled, outcome, interrupts, threadVars>>

-----------------------------------------------------------------------------
ParentMoves ==
    \/ Wake \/ GetResult \/ CheckChild \/ LastGet
    \/ ChildStopped \/ Terminate \/ Kill \/ StartNext

ThreadMoves(t) == ThreadSubmitted(t) \/ ThreadPicked(t) \/ ThreadStartReturns(t)

Next ==
    \/ ParentMoves
    \/ Join
    \/ Timeout
    \/ Cancel
    \/ CancelAgain
    \/ \E r \in 1..Runs : ChildPuts(r) \/ ChildExits(r)
    \/ \E t \in 1..ThreadRuns : ThreadMoves(t) \/ ThreadReturns(t) \/ ThreadInterrupted(t)

Spec == Init /\ [][Next]_vars

\* The loop goes on, and every start() has a timeout, which strikes in a sleep or
\* in to_thread.  The pool serves its queue in order, so a join that keeps finding
\* a free thread gets one.  Neither a child nor a thread owes its return.
Fairness ==
    /\ WF_vars(ParentMoves) /\ SF_vars(Timeout) /\ SF_vars(Join)
    /\ \A t \in 1..ThreadRuns : WF_vars(ThreadMoves(t)) /\ WF_vars(ThreadInterrupted(t))

FairSpec == Spec /\ Fairness

-----------------------------------------------------------------------------
(* Properties *)

\* Every variable stays within its type; runs that have not begun have no
\* child, and runs before the current one have ended.
TypeOK ==
    /\ run \in 1..Runs
    /\ pc \in Points
    /\ child \in [1..Runs -> {"unborn", "running", "exiting", "dead"}]
    /\ piped \in [1..Runs -> {"none", "ok", "error"}]
    /\ signalled \in [1..Runs -> BOOLEAN]
    /\ outcome \in [1..Runs -> {"none", "ok", "error", "crashed", "timeout", "cancelled"}]
    /\ interrupts \in [1..Runs -> 0..MaxInterrupts]
    /\ \A r \in 1..Runs : child[r] = "unborn" <=> r > run
    /\ thread \in [1..ThreadRuns -> {"unborn", "queued", "executing", "ended"}]
    /\ {over, told} \subseteq SUBSET (1..ThreadRuns)

\* A handler still executes although its start() is over.
Outlives(r) == child[r] = "running" /\ (r < run \/ pc = "over")

\* A process-mode start() that is interrupted once, by its timeout or by a kill,
\* leaves no handler executing behind it: the step-by-step stop always gets to
\* its end.  A thread that goes on behind its start() has been told to stop.
StoppedBeforeOver ==
    /\ \A r \in 1..Runs : interrupts[r] <= 1 => ~Outlives(r)
    /\ \A t \in over : thread[t] = "executing" => t \in told

\* Two handlers of one job never execute at once, however often the start() of
\* the old one is interrupted.
OneHandlerAtATime ==
    \A r, s \in 1..Runs : child[r] = "running" /\ child[s] = "running" => r = s

\* A child that delivered its result before it ended is never reported as
\* having exited unexpectedly.
DeliveredResultIsRead ==
    \A r \in 1..Runs : outcome[r] = "crashed" => piped[r] = "none"

\* Every start() ends, whatever children and threads do: in thread mode even
\* when abandoned threads hold the whole pool, in process mode if the pool has
\* room again and again.
StartEndsUnlessStarved ==
    /\ <>(over = 1..ThreadRuns)
    /\ []<>PoolHasRoom => <>(run = Runs /\ pc = "over")
=============================================================================
