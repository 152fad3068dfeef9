------------------------------ MODULE Lifecycle ------------------------------
(***************************************************************************)
(* One executor process after the other, from start to clean-up: the       *)
(* _cleanup_ctx of pyxxl/app/runner.py composed with CallbackManager.  The *)
(* executor is seen as the results it still owes; that a shutdown or a     *)
(* graceful close which ends owes none is a theorem about Executor         *)
(* (CloseSettlesEverything).  The removal from the registry is seen as how *)
(* it ends, which is the subject of Registration.                          *)
(***************************************************************************)
EXTENDS CallbackManager

VARIABLES
    cleanup,   \* where the process stands
    owing,     \* accepted triggers whose result has not been pushed
    promised   \* history: triggers this process has accepted

lifeVars == <<cleanup, owing, promised>>

Stages ==
    {"serving",
     "removing",  \* registryRemove is under way
     "closing",   \* graceful_close
     "shutting",  \* shutdown, without graceful_close
     "aborted",   \* an exception has left _cleanup_ctx
     "exited",    \* the process has ended by itself
     "crashed"}

LifecycleInit ==
    /\ Init
    /\ cleanup = "serving"
    /\ owing = {}
    /\ promised = {}

Stage(from, to) == cleanup \in from /\ cleanup' = to

-----------------------------------------------------------------------------
\* /run is accepted; the server stops listening before the clean-up begins.
Trigger(r) ==
    /\ cleanup = "serving"
    /\ r \notin promised \union accepted \union written \union delivered
    /\ promised' = promised \union {r}
    /\ owing' = owing \union {r}
    /\ UNCHANGED <<vars, cleanup>>

\* A trigger ends, one way or another, and its result is enqueued; a manager that
\* is closed drops it.
PushResult(r) ==
    /\ r \in owing
    /\ IF closed THEN UNCHANGED vars ELSE Enqueue(r)
    /\ owing' = owing \ {r}
    /\ UNCHANGED <<cleanup, promised>>

BeginCleanup ==
    /\ Stage({"serving"}, "removing")
    /\ UNCHANGED <<vars, owing, promised>>

\* registryRemove returns; graceful_close or shutdown, as configured.
Removed ==
    /\ \/ Stage({"removing"}, "closing")
       \/ Stage({"removing"}, "shutting")
    /\ UNCHANGED <<vars, owing, promised>>

\* registryRemove raises: nothing of the clean-up after it is executed.
RemovalFails ==
    /\ Stage({"removing"}, "aborted")
    /\ UNCHANGED <<vars, owing, promised>>

\* Mutant: graceful_close waits without a limit.
GracefulWaitsForEver == FALSE

\* wait_for in graceful_close gives up: TimeoutError leaves it before it stops
\* the callback manager, and _cleanup_ctx before it does.  It may do so with
\* nothing owed, in the sleep between two polls or when a job whose clean-up
\* raised is occupied for good.
GracefulTimesOut ==
    /\ stop = "none"
    /\ Stage({"closing"}, "aborted")
    /\ UNCHANGED <<vars, owing, promised>>

\* Mutant: the close does not wait for the tasks it has cancelled.
NotAwaited == TRUE

\* shutdown has awaited every task; the poll of graceful_close has found every job
\* idle.  A job that stays occupied after its result was pushed keeps graceful_close
\* waiting: that is GracefulTimesOut.
Settled == owing = {}

\* The executor has settled.  graceful_close stops the manager with what is left
\* of its time, then the runner closes it; without graceful_close it is closed at
\* once.
StopCallbacks ==
    /\ cleanup \in {"closing", "shutting"}
    /\ Settled
    /\ StopBegins(cleanup = "shutting" \/ stop = "between")
    /\ UNCHANGED lifeVars

\* The clean-up is over, orderly or by an exception, and the process ends.
Leave ==
    /\ Stage({"closing", "shutting", "aborted"}, "exited")
    /\ IF cleanup = "aborted" THEN Leaves ELSE Exit
    /\ owing' = {}
    /\ UNCHANGED promised

Crashes ==
    /\ Crash
    /\ cleanup' = "crashed"
    /\ owing' = {}
    /\ UNCHANGED promised

Restart ==
    /\ Boot
    /\ cleanup' = "serving"
    /\ promised' = {}
    /\ UNCHANGED owing

Delivery ==
    /\ \/ WorkerMoves
       \/ AdminReceives
       \/ \E r \in Requests : RetryFires(r)
       \/ StopMoves
    /\ UNCHANGED lifeVars

LifecycleNext ==
    \/ \E r \in Requests : Trigger(r) \/ PushResult(r)
    \/ Delivery
    \/ BeginCleanup \/ Removed \/ RemovalFails \/ GracefulTimesOut
    \/ StopCallbacks \/ Leave \/ Crashes \/ Restart

lifecycleVars == <<vars, lifeVars>>

LifecycleSpec == LifecycleInit /\ [][LifecycleNext]_lifecycleVars

\* A start() does not end although its task is cancelled: the handler swallows the
\* cancellation, or the join of its child finds no thread.  shutdown awaits the
\* task without a limit, and so does run_app after an aborted clean-up.
HeldByHandler == cleanup \in {"shutting", "aborted"} /\ owing # {}

\* Calls and waits that have a timeout end, and so does what waits for nothing.
\* Nothing is assumed of the admin, of the handlers, cancelled ones included, or
\* of a restart.
LifecycleFairness ==
    /\ WF_lifecycleVars(Removed \/ RemovalFails)
    /\ WF_lifecycleVars(GracefulTimesOut)
    /\ WF_lifecycleVars(StopCallbacks)
    /\ WF_lifecycleVars(StopMoves /\ UNCHANGED lifeVars)
    /\ WF_lifecycleVars(Leave /\ ~HeldByHandler)

LifecycleFairSpec == LifecycleSpec /\ LifecycleFairness

-----------------------------------------------------------------------------
(* Properties *)

\* Every variable stays within its type; a process that is down owes nothing
\* any more, and one that is up owes only what it has accepted.
LifecycleTypeOK ==
    /\ TypeOK
    /\ cleanup \in Stages
    /\ up <=> cleanup \notin {"exited", "crashed"}
    /\ promised \subseteq Requests
    /\ owing \subseteq (IF up THEN promised ELSE {})

\* While a process is up, every trigger it has accepted is still owed, or its
\* result is acknowledged, in a file, or in memory; once a clean-up has stopped
\* the manager for good, memory does not count.  A result that cannot be
\* serialised takes no other with it as long as the process is up.  Where the disk
\* was full, the record a stop relies on may be a cut one.
ResultsSurvive ==
    up => \A r \in promised \ Unserialisable :
        \/ r \in owing \union acked
        \/ disk[r] = "full"
        \/ r \in InMemory /\ stop # "returned"
        \/ disk[r] = "torn" /\ stop # "none"

\* A process that ends by itself leaves every result it owed with the admin or
\* in a file.
CleanupKeepsResults ==
    cleanup = "exited" => \A r \in promised : r \in acked \/ disk[r] = "full"

\* A clean-up, once begun, ends, unless a cancelled start() does not.  Nothing else
\* can hold it: neither admins that do not answer, nor results that cannot be
\* delivered or written, nor, in a graceful close, handlers that do not end.
CleanupEnds ==
    []<>~HeldByHandler => (cleanup = "removing" ~> ~up)
=============================================================================
