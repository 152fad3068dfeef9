--------------------------- MODULE CallbackManager ---------------------------
(***************************************************************************)
(* Delivery of results to the admin: pyxxl/runtime/callbacks.py.  Requests *)
(* wait in an unbounded queue for one worker task; a request whose post    *)
(* failed is written to a file and queued again by a retry task; stop()    *)
(* waits for the counter of pending requests, then cancels the retries,    *)
(* writes what is left to files and joins the worker; the next process     *)
(* replays the files.                                                      *)
(*                                                                         *)
(* Granularity.  _worker_lock and _state_lock are only held across a       *)
(* suspension by stop() while it joins the worker, so everything between   *)
(* two awaits of the network, of a sleep or of a task is one action.  A    *)
(* crash may come between any two actions, and in the middle of a file     *)
(* write.  The runner calls stop() after the executor has settled, so      *)
(* nothing is enqueued once a stop has begun.                              *)
(***************************************************************************)
EXTENDS Integers, Sequences, FiniteSets, Functions

CONSTANTS
    Requests,        \* callback requests
    NoRequest,
    Unserialisable,  \* requests whose msg is no JSON value: they can be neither
                     \* posted nor written
    MaxCrashes,      \* bound: how often the process dies
    TornWrites       \* whether a record may be cut short, by a crash or because
                     \* the disk is full

ASSUME ConstantsAssumption ==
    /\ NoRequest \notin Requests
    /\ Unserialisable \subseteq Requests
    /\ MaxCrashes \in Nat
    /\ TornWrites \in BOOLEAN

VARIABLES
    up,         \* whether the process runs
    queue,      \* requests waiting for the worker               (_queue)
    worker,     \* the worker task                               (_worker)
    current,    \* the request the worker is posting
    retrying,   \* requests a retry task sleeps on               (_retry_tasks)
    pending,    \* the counter stop() waits for                  (_pending)
    closed,     \*                                               (_closed)
    stop,       \* where stop() stands
    drained,    \* what stop() will return, or has returned last
    gaveUp,     \* history: a stop of this process has reset the counter
    disk,       \* the request's file
    accepted,   \* history: requests this process has enqueued or replayed
    written,    \* history: requests whose file was once written in full
    delivered,  \* external: requests the admin has received
    acked,      \* history: requests whose delivery this side has seen
    crashes     \* crashes so far

memory  == <<queue, worker, current, retrying, pending, closed, stop, drained, gaveUp>>
outside == <<disk, written, delivered, acked>>
vars    == <<up, memory, outside, accepted, crashes>>

Workers == {"none", "idle", "posting", "cancelled", "failed"}

Stops ==
    {"none",      \* not called in this process
     "waiting",   \* for _pending_empty
     "woken",     \* the event was set, stop() has not run yet
     "proceed",   \* past the wait
     "quieted",   \* the retry tasks are cancelled and awaited
     "joining",   \* _worker.cancel() done, _worker_lock held
     "between",   \* stop(close=False) has returned (end of graceful_close)
     "returned",  \* stop(close=True) has returned
     "raised"}    \* an exception left stop()

InMemory ==
    Range(queue) \union retrying \union ({current} \ {NoRequest})

FreshMemory(q) ==
    /\ queue' = q
    /\ worker' = IF q = <<>> THEN "none" ELSE "idle"
    /\ current' = NoRequest
    /\ retrying' = {}
    /\ pending' = Len(q)
    /\ closed' = FALSE
    /\ stop' = "none"
    /\ drained' = TRUE
    /\ gaveUp' = FALSE

Init ==
    /\ up = TRUE
    /\ queue = <<>>
    /\ worker = "none"
    /\ current = NoRequest
    /\ retrying = {}
    /\ pending = 0
    /\ closed = FALSE
    /\ stop = "none"
    /\ drained = TRUE
    /\ gaveUp = FALSE
    /\ disk = [r \in Requests |-> "absent"]
    /\ accepted = {}
    /\ written = {}
    /\ delivered = {}
    /\ acked = {}
    /\ crashes = 0

-----------------------------------------------------------------------------
(* Helpers *)

\* _ensure_worker: a task that is done is replaced.
EnsuredWorker == IF worker \in {"none", "failed"} THEN "idle" ELSE worker

\* _persist_request for each request of S, all serialisable.  On a full disk the
\* record has been truncated when the error comes, which is only logged.
Persist(S) ==
    \E cut \in IF TornWrites THEN SUBSET S ELSE {{}} :
        /\ disk' = [r \in Requests |-> IF r \in cut THEN "torn"
                                       ELSE IF r \in S THEN "full" ELSE disk[r]]
        /\ written' = written \union (S \ cut)

\* Mutant: the counter may go below zero.
MarkCompletedUnbounded ==
    /\ pending' = pending - 1
    /\ stop' = IF pending = 1 /\ stop = "waiting" THEN "woken" ELSE stop

\* _mark_completed; the last completion sets the event stop() waits for.
MarkCompleted ==
    LET left == IF pending > 0 THEN pending - 1 ELSE 0 IN
    /\ pending' = left
    /\ stop' = IF left = 0 /\ stop = "waiting" THEN "woken" ELSE stop

-----------------------------------------------------------------------------
(* enqueue and the worker *)

Enqueue(r) ==
    /\ up
    /\ stop = "none"
    /\ r \notin accepted \union written \union delivered
    /\ accepted' = accepted \union {r}
    /\ pending' = pending + 1
    /\ worker' = EnsuredWorker
    /\ queue' = Append(queue, r)
    /\ UNCHANGED <<up, current, retrying, closed, stop, drained, gaveUp, outside, crashes>>

\* The worker takes the next request and posts it.  For one that cannot be
\* serialised the post raises before anything is sent, json.dumps raises again
\* in _persist_request, and that ends the worker task.
TakeRequest ==
    /\ up
    /\ worker = "idle"
    /\ queue # <<>>
    /\ queue' = Tail(queue)
    /\ IF Head(queue) \in Unserialisable
       THEN worker' = "failed" /\ UNCHANGED current
       ELSE worker' = "posting" /\ current' = Head(queue)
    /\ UNCHANGED <<up, retrying, pending, closed, stop, drained, gaveUp, outside, accepted, crashes>>

\* The admin receives the request; its answer is still on the way.
AdminReceives ==
    /\ up
    /\ worker \in {"posting", "cancelled"}
    /\ current \in Requests \ delivered
    /\ delivered' = delivered \union {current}
    /\ UNCHANGED <<up, memory, disk, written, acked, accepted, crashes>>

\* xxl_client.callback returns: remove the file, count the request off.
PostSucceeds ==
    /\ up
    /\ worker = "posting"
    /\ current \in delivered
    /\ acked' = acked \union {current}
    /\ disk' = [disk EXCEPT ![current] = "absent"]
    /\ MarkCompleted
    /\ worker' = "idle"
    /\ current' = NoRequest
    /\ UNCHANGED <<up, queue, retrying, closed, drained, gaveUp, written, delivered, accepted, crashes>>

\* Mutant: no retry task.
PostFailsWithoutRetry ==
    /\ up
    /\ worker = "posting"
    /\ Persist({current})
    /\ worker' = "idle"
    /\ current' = NoRequest
    /\ UNCHANGED <<up, queue, retrying, pending, closed, stop, drained, gaveUp, delivered, acked, accepted, crashes>>

\* xxl_client.callback raises, whether the admin has received the request or
\* not: write the file, leave the request to a retry task.
PostFails ==
    /\ up
    /\ worker = "posting"
    /\ Persist({current})
    /\ retrying' = retrying \union {current}
    /\ worker' = "idle"
    /\ current' = NoRequest
    /\ UNCHANGED <<up, queue, pending, closed, stop, drained, gaveUp, delivered, acked, accepted, crashes>>

\* Mutant: the retry task stays in the set of retry tasks.
RetryFiresAndStays(r) ==
    /\ up
    /\ r \in retrying
    /\ stop # "joining"
    /\ ~closed
    /\ worker' = EnsuredWorker
    /\ queue' = Append(queue, r)
    /\ UNCHANGED <<up, current, retrying, pending, closed, stop, drained, gaveUp, outside, accepted, crashes>>

\* Mutant: the retry is counted as a new request.
RetryFiresCountedAgain(r) ==
    /\ up
    /\ r \in retrying
    /\ stop # "joining"
    /\ ~closed
    /\ retrying' = retrying \ {r}
    /\ pending' = pending + 1
    /\ worker' = EnsuredWorker
    /\ queue' = Append(queue, r)
    /\ UNCHANGED <<up, current, closed, stop, drained, gaveUp, outside, accepted, crashes>>

\* _requeue_later wakes; _worker_lock makes it wait while stop() joins.
RetryFires(r) ==
    /\ up
    /\ r \in retrying
    /\ stop # "joining"
    /\ retrying' = retrying \ {r}
    /\ IF closed
       THEN UNCHANGED <<queue, worker>>
       ELSE /\ worker' = EnsuredWorker
            /\ queue' = Append(queue, r)
    /\ UNCHANGED <<up, current, pending, closed, stop, drained, gaveUp, outside, accepted, crashes>>

-----------------------------------------------------------------------------
(* stop: once with close=False at the end of graceful_close, then, or at     *)
(* once, with close=True.                                                    *)

StopBegins(close) ==
    /\ up
    /\ stop = "none" \/ (stop = "between" /\ close)
    /\ closed' = (closed \/ close)
    /\ drained' = TRUE
    /\ stop' = IF pending > 0 THEN "waiting" ELSE "proceed"
    /\ UNCHANGED <<up, queue, worker, current, retrying, pending, gaveUp, outside, accepted, crashes>>

StopWakes ==
    /\ up
    /\ stop = "woken"
    /\ stop' = "proceed"
    /\ UNCHANGED <<up, queue, worker, current, retrying, pending, closed, drained, gaveUp, outside, accepted, crashes>>

\* Mutant: giving up is not reported.
StopTimesOutSilently ==
    /\ up
    /\ stop = "waiting"
    /\ stop' = "proceed"
    /\ UNCHANGED <<up, queue, worker, current, retrying, pending, closed, drained, gaveUp, outside, accepted, crashes>>

\* Mutant: stop() is called without a timeout.
StopTimesOutNever == FALSE

StopTimesOut ==
    /\ up
    /\ stop = "waiting"
    /\ stop' = "proceed"
    /\ drained' = FALSE
    /\ UNCHANGED <<up, queue, worker, current, retrying, pending, closed, gaveUp, outside, accepted, crashes>>

\* The retry tasks are cancelled and awaited; the worker runs on meanwhile, and
\* a retry task it creates now is in nobody's list.
StopCancelsRetries ==
    /\ up
    /\ stop = "proceed"
    /\ retrying # {}
    /\ retrying' = {}
    /\ stop' = "quieted"
    /\ UNCHANGED <<up, queue, worker, current, pending, closed, drained, gaveUp, outside, accepted, crashes>>

\* _persist_buffered_requests takes one request after the other, until one cannot
\* be serialised.
FlushedPlaces == {n \in DOMAIN queue : \A m \in 1..n : queue[m] \notin Unserialisable}

Flushed == {queue[n] : n \in FlushedPlaces}

\* After a timeout what is buffered goes to files; then, without a suspension,
\* the worker is cancelled.  A request that cannot be serialised raises.
StopFlushes ==
    /\ up
    /\ stop = "quieted" \/ (stop = "proceed" /\ retrying = {})
    /\ IF drained
       THEN stop' = "joining" /\ UNCHANGED <<queue, disk, written>>
       ELSE /\ Persist(Flushed)
            /\ queue' = SubSeq(queue, Cardinality(FlushedPlaces) + 2, Len(queue))
            /\ stop' = IF FlushedPlaces = DOMAIN queue THEN "joining" ELSE "raised"
    /\ worker' = IF stop' = "joining" /\ worker \in {"idle", "posting"}
                 THEN "cancelled" ELSE worker
    /\ UNCHANGED <<up, current, retrying, pending, closed, drained, gaveUp, delivered, acked, accepted, crashes>>

\* Mutant: the cancelled worker drops the request it was posting.
StopJoinsWithoutWriting ==
    /\ up
    /\ stop = "joining"
    /\ worker # "failed"
    /\ current' = NoRequest
    /\ stop' = IF closed THEN "returned" ELSE "between"
    /\ worker' = "none"
    /\ pending' = IF drained THEN pending ELSE 0
    /\ gaveUp' = (gaveUp \/ ~drained)
    /\ UNCHANGED <<up, queue, retrying, closed, drained, outside, accepted, crashes>>

\* The cancelled worker writes the request it was posting and ends; stop()
\* resets the counter if it has given up, and returns.  Awaiting a worker that
\* had failed raises its exception.
StopJoins ==
    /\ up
    /\ stop = "joining"
    /\ current' = NoRequest
    /\ IF worker = "failed"
       THEN /\ stop' = "raised"
            /\ UNCHANGED <<worker, pending, gaveUp, disk, written>>
       ELSE /\ stop' = IF closed THEN "returned" ELSE "between"
            /\ worker' = "none"
            /\ Persist({current} \ {NoRequest})
            /\ pending' = IF drained THEN pending ELSE 0
            /\ gaveUp' = (gaveUp \/ ~drained)
    /\ UNCHANGED <<up, queue, retrying, closed, drained, delivered, acked, accepted, crashes>>

-----------------------------------------------------------------------------
(* The process ends and starts again *)

\* What the process held in memory is gone; the files stay.
Ends ==
    /\ up' = FALSE
    /\ FreshMemory(<<>>)
    /\ accepted' = {}

\* run_app cancels the tasks that are left: a worker that is posting writes its
\* request.
Leaves ==
    /\ up
    /\ Persist({current} \ {NoRequest})
    /\ Ends
    /\ UNCHANGED <<delivered, acked, crashes>>

Exit == stop \in {"returned", "raised"} /\ Leaves

\* Requests whose file some next step writes.
AboutToWrite ==
    ({current} \ {NoRequest}) \union
    (IF stop \in {"proceed", "quieted"} /\ ~drained THEN Flushed ELSE {})

\* The process dies, perhaps inside a write: write_text truncates the file and
\* then fills it, which leaves a cut record, whatever the file held before.
Crash ==
    /\ up
    /\ crashes < MaxCrashes
    /\ crashes' = crashes + 1
    /\ \E cut \in {{}} \union (IF TornWrites THEN {{r} : r \in AboutToWrite} ELSE {}) :
          disk' = [r \in Requests |-> IF r \in cut THEN "torn" ELSE disk[r]]
    /\ Ends
    /\ UNCHANGED <<written, delivered, acked>>

\* Mutant: a file is removed when it is replayed.
BootUnlinking ==
    LET good == {r \in Requests : disk[r] = "full"} IN
    /\ ~up
    /\ up' = TRUE
    /\ \E q \in [1..Cardinality(good) -> good] : IsInjective(q) /\ FreshMemory(q)
    /\ accepted' = good
    /\ disk' = [r \in Requests |-> "absent"]
    /\ UNCHANGED <<written, delivered, acked, crashes>>

\* start(): replay the files in the order of their names, which says nothing
\* of the order of the requests; a record that cannot be read is deleted.
Boot ==
    LET good == {r \in Requests : disk[r] = "full"} IN
    /\ ~up
    /\ up' = TRUE
    /\ \E q \in [1..Cardinality(good) -> good] : IsInjective(q) /\ FreshMemory(q)
    /\ accepted' = good
    /\ disk' = [r \in Requests |-> IF r \in good THEN "full" ELSE "absent"]
    /\ UNCHANGED <<written, delivered, acked, crashes>>

-----------------------------------------------------------------------------
WorkerMoves == TakeRequest \/ PostSucceeds \/ PostFails

StopMoves == StopWakes \/ StopTimesOut \/ StopCancelsRetries \/ StopFlushes \/ StopJoins

Next ==
    \/ \E r \in Requests : Enqueue(r)
    \/ WorkerMoves
    \/ AdminReceives
    \/ \E r \in Requests : RetryFires(r)
    \/ \E close \in BOOLEAN : StopBegins(close)
    \/ StopMoves
    \/ Exit
    \/ Crash
    \/ Boot

Spec == Init /\ [][Next]_vars

\* The loop runs what is ready, sleeps and timeouts end, posts return, and the
\* process is started again after it ended.  The admin is not down for ever:
\* a request posted again and again is received, and acknowledged, in the end.
Fairness ==
    /\ WF_vars(WorkerMoves)
    /\ \A r \in Requests : WF_vars(RetryFires(r))
    /\ WF_vars(StopMoves)
    /\ WF_vars(StopBegins(TRUE) /\ stop = "between")
    /\ WF_vars(Exit)
    /\ WF_vars(Boot)
    /\ \A r \in Requests : SF_vars(AdminReceives /\ current = r)
    /\ \A r \in Requests : SF_vars(PostSucceeds /\ current = r)

FairSpec == Spec /\ Fairness

-----------------------------------------------------------------------------
(* Properties *)

\* Every variable stays within its type.
TypeOK ==
    /\ up \in BOOLEAN
    /\ queue \in Seq(Requests)
    /\ worker \in Workers
    /\ current \in Requests \union {NoRequest}
    /\ retrying \in SUBSET Requests
    /\ pending \in Nat
    /\ closed \in BOOLEAN
    /\ stop \in Stops
    /\ drained \in BOOLEAN
    /\ gaveUp \in BOOLEAN
    /\ disk \in [Requests -> {"absent", "full", "torn"}]
    /\ accepted \in SUBSET Requests
    /\ written \in SUBSET Requests
    /\ delivered \in SUBSET Requests
    /\ acked \in SUBSET Requests
    /\ crashes \in Nat

\* A request that is not done is in one place, once, and one that is done is
\* in none: retries, replay and flush never make two attempts of one request.
OneAttemptAtATime ==
    /\ IsInjective(queue)
    /\ Range(queue) \intersect retrying = {}
    /\ current \notin Range(queue) \union retrying
    /\ InMemory \intersect acked = {}

\* Until a stop gives up or closes, the counter that stop() waits for is the
\* number of requests that wait, are posted or sleep before a retry.
PendingIsExact ==
    stop \in {"none", "waiting", "woken"} /\ ~closed =>
        pending = Cardinality(InMemory)

\* What delivery promises of each request (Outbox): an acknowledged request is
\* done for good; a stored one stays stored, through retries, replays, stops and
\* crashes, until it is acknowledged; one that is only held is lost by nothing
\* but a crash.
Outbox == INSTANCE Outbox WITH
    state <- [r \in Requests |->
                IF r \in acked THEN "done"
                ELSE IF disk[r] = "full" THEN "stored"
                ELSE IF r \in accepted THEN "held" ELSE "none"],
    received <- delivered

ImplementsOutbox == Outbox!Spec

\* What a process accepts or replays is acknowledged, or in a file, or in its
\* memory; and when stop(close=True) has returned, memory does not count.
NothingVanishes ==
    \A r \in accepted :
        \/ r \in acked
        \/ disk[r] = "full"
        \/ r \in InMemory /\ stop # "returned"

\* stop() that returns True, with no stop before it that gave up, leaves
\* nothing to deliver.
DrainedMeansDelivered ==
    stop \in {"between", "returned"} /\ drained /\ ~gaveUp =>
        accepted \subseteq acked

\* A process that stays up delivers all it has accepted or replayed.
StayingUpDelivers ==
    <>[](up /\ stop = "none") =>
        \A r \in Requests : r \in accepted ~> r \in acked \/ r \notin accepted

\* A stop, once begun, goes through to stop(close=True) and returns.
StopCompletes ==
    stop = "waiting" ~> stop = "returned" \/ ~up
=============================================================================
