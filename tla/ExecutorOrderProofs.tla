------------------------ MODULE ExecutorOrderProofs ------------------------
(***************************************************************************)
(* Theorems about what the admin sees of the executor: the order in which  *)
(* the triggers of a job are served, the answer to /idleBeat, and that the *)
(* executor does what TriggerService says.  The order rests on one more    *)
(* fact than the scheduler's invariant: no trigger has a later ticket than *)
(* the last one issued; the rest on no task being stuck.                   *)
(***************************************************************************)
EXTENDS ExecutorProofs

USE ConstantsAssumption DEF ConstantsAssumption

-----------------------------------------------------------------------------
(* Order *)

JobInOrder(j) ==
    /\ \A l \in Waiting(j) : tasks[j] # NoLog => ticket[tasks[j]] < ticket[l]
    /\ \A l \in Range(queue[j]) : cover[j] # NoLog => ticket[cover[j]] < ticket[l]
    /\ \A m, n \in DOMAIN queue[j] : m < n => ticket[queue[j][m]] < ticket[queue[j][n]]

TicketsIssued == \A l \in Logs : ticket[l] <= clock

OrderInv == TicketsIssued /\ \A j \in Jobs : JobInOrder(j)

\* A job whose triggers stay where they are, with their tickets, stays in order.
LEMMA UntouchedJob ==
    ASSUME CoreInv, NEW j \in Jobs, JobInOrder(j),
           tasks'[j] = tasks[j], cover'[j] = cover[j], queue'[j] = queue[j],
           \A k \in Held(j) : ticket'[k] = ticket[k]
    PROVE  JobInOrder(j)'
  <1>1. Waiting(j)' = Waiting(j)
    BY DEF Waiting, CoverSet
  <1>2. \A k \in Waiting(j) : ticket'[k] = ticket[k]
    BY DEF Held
  <1>3. tasks[j] # NoLog => ticket'[tasks[j]] = ticket[tasks[j]]
    BY DEF Held
  <1>4. \A l \in Waiting(j)' : tasks'[j] # NoLog => ticket'[tasks'[j]] < ticket'[l]
    BY <1>1, <1>2, <1>3 DEF JobInOrder
  <1>5. /\ \A k \in Range(queue[j]) : ticket'[k] = ticket[k]
        /\ cover[j] # NoLog => ticket'[cover[j]] = ticket[cover[j]]
    BY <1>2 DEF Waiting, CoverSet
  <1>6. \A m \in DOMAIN queue[j] : queue[j][m] \in Range(queue[j])
    BY DEF Range
  <1>7. \A l \in Range(queue'[j]) : cover'[j] # NoLog => ticket'[cover'[j]] < ticket'[l]
    BY <1>5 DEF JobInOrder
  <1>8. \A m, n \in DOMAIN queue'[j] : m < n => ticket'[queue'[j][m]] < ticket'[queue'[j][n]]
    BY <1>5, <1>6 DEF JobInOrder
  <1>9. QED
    BY <1>4, <1>7, <1>8 DEF JobInOrder

\* A job that nothing waits for is in order.
LEMMA NobodyWaits ==
    ASSUME NEW j \in Jobs, queue[j] = <<>>, cover[j] = NoLog
    PROVE  JobInOrder(j)
  <1>1. Waiting(j) = {} /\ Range(queue[j]) = {}
    BY EmptyQueue DEF Waiting, CoverSet
  <1>2. DOMAIN queue[j] = {}
    OBVIOUS
  <1>3. QED
    BY <1>1, <1>2 DEF JobInOrder

\* A trigger that is accepted gets a ticket later than every other.
LEMMA LatestTicket ==
    ASSUME TypeOK, TicketsIssued, NEW l \in Logs, NEW S, AcceptAndDrop(l, S)
    PROVE  /\ TicketsIssued'
           /\ ticket'[l] = clock + 1
           /\ \A k \in Logs \ {l} : ticket'[k] = ticket[k]
           /\ \A k \in Logs : ticket[k] < clock + 1
  BY DEF AcceptAndDrop, TypeOK, TicketsIssued

\* What a job holds are triggers of its own.
LEMMA HeldAreItsOwn ==
    ASSUME CoreInv, NEW j \in Jobs, NEW k \in Held(j)
    PROVE  k \in Logs /\ JobOf[k] = j
  BY DEF CoreInv, HeldOnce

\* run_job on an idle job.
LEMMA RunNowKeepsOrder ==
    ASSUME CoreInv, OrderInv, NEW l \in Logs, RunNow(l), NEW j \in Jobs
    PROVE  JobInOrder(j)'
  <1>1. queue' = queue /\ cover' = cover
    BY DEF RunNow
  <1>2. CASE j = JobOf[l]
    <2>1. queue'[j] = <<>> /\ cover'[j] = NoLog
      BY <1>1, <1>2 DEF RunNow, CanStartNow
    <2>2. Waiting(j)' = {} /\ Range(queue'[j]) = {} /\ DOMAIN queue'[j] = {}
      BY <2>1, EmptyQueue DEF Waiting, CoverSet
    <2>3. QED
      BY <2>2 DEF JobInOrder
  <1>3. CASE j # JobOf[l]
    <2>1. tasks'[j] = tasks[j]
      BY <1>3 DEF RunNow, CoreInv, TypeOK
    <2>2. \A k \in Held(j) : ticket'[k] = ticket[k]
      BY <1>3, HeldAreItsOwn, LatestTicket DEF RunNow, CoreInv, OrderInv
    <2>3. QED
      BY <1>1, <2>1, <2>2, UntouchedJob DEF OrderInv
  <1>4. QED
    BY <1>2, <1>3

\* run_job that queues: the trigger goes behind all the others.
LEMMA RunSerialKeepsOrder ==
    ASSUME CoreInv, OrderInv, NEW l \in Logs, RunSerial(l), NEW j \in Jobs
    PROVE  JobInOrder(j)'
  <1> DEFINE q == queue[j]
  <1>1. /\ l \notin Held(JobOf[l])
        /\ queue' = [queue EXCEPT ![JobOf[l]] = Append(@, l)]
        /\ tasks' = tasks /\ cover' = cover
        /\ AcceptAndDrop(l, {})
    BY DEF RunSerial, Admissible, CoreInv, DedupMatchesHeld
  <1>2. l \notin Held(j)
    BY <1>1, HeldAreItsOwn
  <1>3. \A k \in Held(j) : ticket'[k] = ticket[k] /\ ticket[k] < ticket'[l]
    BY <1>1, <1>2, HeldAreItsOwn, LatestTicket DEF CoreInv, OrderInv
  <1>4. CASE j # JobOf[l]
    <2>1. queue'[j] = q
      BY <1>1, <1>4 DEF CoreInv, TypeOK
    <2>2. QED
      BY <1>1, <1>3, <2>1, UntouchedJob DEF OrderInv
  <1>5. CASE j = JobOf[l]
    <2> DEFINE p == queue'[j]
    <2>1. p = Append(q, l) /\ q \in Seq(Logs)
      BY <1>1, <1>5 DEF CoreInv, TypeOK
    <2>2. Range(p) = Range(q) \union {l}
      BY <2>1, PutElement
    <2>3. /\ Len(q) \in Nat
          /\ DOMAIN q = 1..Len(q)
          /\ DOMAIN p = 1..(Len(q) + 1)
          /\ \A i \in 1..Len(q) : p[i] = q[i]
          /\ p[Len(q) + 1] = l
      BY <2>1, AppendProperties, LenProperties
    <2> HIDE DEF p, q
    <2>4. /\ Waiting(j)' = Waiting(j) \union {l}
          /\ Range(q) \subseteq Held(j)
      BY <1>1, <2>2 DEF p, q, Waiting, CoverSet, Held
    <2>5. \A k \in Waiting(j)' : tasks'[j] # NoLog => ticket'[tasks'[j]] < ticket'[k]
      BY <1>1, <1>3, <2>4 DEF OrderInv, JobInOrder, Held
    <2>6. \A k \in Range(p) : cover'[j] # NoLog => ticket'[cover'[j]] < ticket'[k]
      <3>1. cover[j] # NoLog => cover[j] \in Held(j)
        BY DEF Held, Waiting, CoverSet
      <3>2. QED
        BY <1>1, <1>3, <2>2, <2>4, <3>1 DEF OrderInv, JobInOrder, q
    <2>7. ASSUME NEW m \in DOMAIN p, NEW n \in DOMAIN p, m < n
          PROVE  ticket'[p[m]] < ticket'[p[n]]
      <3>1. m \in DOMAIN q /\ p[m] = q[m] /\ q[m] \in Held(j)
        BY <2>3, <2>4, <2>7 DEF Range
      <3>2. CASE n = Len(q) + 1
        BY <1>3, <2>3, <3>1, <3>2
      <3>3. CASE n # Len(q) + 1
        <4>1. n \in DOMAIN q /\ p[n] = q[n] /\ q[n] \in Held(j)
          BY <2>3, <2>4, <3>3 DEF Range
        <4>2. ticket[q[m]] < ticket[q[n]]
          BY <2>7, <3>1, <4>1 DEF OrderInv, JobInOrder, q
        <4>3. QED
          BY <1>3, <3>1, <4>1, <4>2
      <3>4. QED
        BY <3>2, <3>3
    <2>8. QED
      BY <2>5, <2>6, <2>7 DEF JobInOrder, p
  <1>6. QED
    BY <1>4, <1>5

\* run_job that replaces: the trigger is all that waits, behind an older task.
LEMMA RunCoverEarlyKeepsOrder ==
    ASSUME CoreInv, OrderInv, NEW l \in Logs, RunCoverEarly(l), NEW j \in Jobs
    PROVE  JobInOrder(j)'
  <1>1. /\ l \notin Held(JobOf[l])
        /\ queue' = [queue EXCEPT ![JobOf[l]] = <<>>]
        /\ AcceptAndDrop(l, Dropped(JobOf[l]))
    BY DEF RunCoverEarly, Admissible, CoreInv, DedupMatchesHeld
  <1>2. l \notin Held(j)
    BY <1>1, HeldAreItsOwn
  <1>3. \A k \in Held(j) : ticket'[k] = ticket[k] /\ ticket[k] < ticket'[l]
    BY <1>1, <1>2, HeldAreItsOwn, LatestTicket DEF CoreInv, OrderInv
  <1>4. CASE j # JobOf[l]
    <2>1. queue'[j] = queue[j] /\ cover'[j] = cover[j] /\ tasks'[j] = tasks[j]
      BY <1>4 DEF RunCoverEarly, CoreInv, TypeOK
    <2>2. QED
      BY <1>3, <2>1, UntouchedJob DEF OrderInv
  <1>5. CASE j = JobOf[l]
    <2>1. queue'[j] = <<>>
      BY <1>1, <1>5 DEF CoreInv, TypeOK
    <2>2. Range(queue'[j]) = {} /\ DOMAIN queue'[j] = {}
      BY <2>1, EmptyQueue
    <2>3. \/ cover'[j] = NoLog
          \/ cover'[j] = l /\ tasks'[j] = tasks[j] /\ tasks[j] # NoLog
      BY <1>5 DEF RunCoverEarly, CoreInv, TypeOK
    <2>4. Waiting(j)' \subseteq {l} /\ (cover'[j] = NoLog => Waiting(j)' = {})
      BY <2>2, <2>3 DEF Waiting, CoverSet
    <2>5. tasks[j] # NoLog => tasks[j] \in Held(j)
      BY DEF Held
    <2>6. \A k \in Waiting(j)' : tasks'[j] # NoLog => ticket'[tasks'[j]] < ticket'[k]
      BY <1>3, <2>3, <2>4, <2>5
    <2>7. QED
      BY <2>2, <2>6 DEF JobInOrder
  <1>6. QED
    BY <1>4, <1>5

\* cancel_job: nothing waits any more.
LEMMA CancelJobKeepsOrder ==
    ASSUME CoreInv, OrderInv, NEW i \in Jobs, CancelJob(i), NEW j \in Jobs
    PROVE  JobInOrder(j)'
  <1>1. /\ queue' = [queue EXCEPT ![i] = <<>>]
        /\ cover' = [cover EXCEPT ![i] = NoLog]
        /\ tasks' = tasks /\ ticket' = ticket
    BY DEF CancelJob, Push
  <1>2. CASE j # i
    <2>1. queue'[j] = queue[j] /\ cover'[j] = cover[j]
      BY <1>1, <1>2 DEF CoreInv, TypeOK
    <2>2. QED
      BY <1>1, <2>1, UntouchedJob DEF OrderInv
  <1>3. CASE j = i
    <2>1. queue'[j] = <<>> /\ cover'[j] = NoLog
      BY <1>1, <1>3 DEF CoreInv, TypeOK
    <2>2. Waiting(j)' = {} /\ Range(queue'[j]) = {} /\ DOMAIN queue'[j] = {}
      BY <2>1, EmptyQueue DEF Waiting, CoverSet
    <2>3. QED
      BY <2>2 DEF JobInOrder
  <1>4. QED
    BY <1>2, <1>3

\* _finish of the current task: the oldest of those that wait is started.
LEMMA FinishKeepsOrder ==
    ASSUME CoreInv, TypeOK', OrderInv, NEW l \in Logs, tasks[JobOf[l]] = l,
           Finish(l), ticket' = ticket, NEW j \in Jobs
    PROVE  JobInOrder(j)'
  <1> DEFINE q == queue[j]
             n == NextUp(j)
  <1>1. CASE j # JobOf[l]
    <2>1. queue'[j] = q /\ cover'[j] = cover[j] /\ tasks'[j] = tasks[j]
      BY <1>1 DEF Finish, CoreInv, TypeOK
    <2>2. QED
      BY <2>1, UntouchedJob DEF OrderInv
  <1>2. CASE j = JobOf[l]
    <2>1. /\ tasks'[j] = n
          /\ cover'[j] = NoLog
          /\ Waiting(j)' = Range(queue'[j])
      BY <1>2, FinishFacts DEF CoreInv, TypeOK
    <2>2. /\ queue'[j] = IF cover[j] # NoLog \/ q = <<>> THEN q ELSE Tail(q)
          /\ q \in Seq(Logs)
      BY <1>2 DEF Finish, CoreInv, TypeOK
    <2>3. JobInOrder(j)
      BY DEF OrderInv
    <2>4. CASE cover[j] # NoLog
      <3>1. n = cover[j] /\ queue'[j] = q
        BY <2>2, <2>4 DEF NextUp
      <3>2. QED
        BY <2>1, <2>3, <2>4, <3>1 DEF JobInOrder
    <2>5. CASE cover[j] = NoLog /\ q = <<>>
      <3>1. Range(queue'[j]) = {} /\ DOMAIN queue'[j] = {}
        BY <2>2, <2>5, EmptyQueue
      <3>2. QED
        BY <2>1, <3>1 DEF JobInOrder
    <2>6. CASE cover[j] = NoLog /\ q # <<>>
      <3> DEFINE t == queue'[j]
      <3>1. /\ n = Head(q) /\ t = Tail(q)
        BY <2>2, <2>6 DEF NextUp
      <3>2. /\ Len(q) \in Nat \ {0}
            /\ DOMAIN q = 1..Len(q)
            /\ DOMAIN t = 1..(Len(q) - 1)
            /\ n = q[1]
            /\ \A k \in DOMAIN t : t[k] = q[k + 1]
        BY <2>2, <2>6, <3>1, HeadTailProperties, LenProperties, EmptySeq
      <3> HIDE DEF t, q, n
      <3>3. \A a, b \in DOMAIN q : a < b => ticket[q[a]] < ticket[q[b]]
        BY <2>3 DEF JobInOrder, q
      <3>4. \A a \in DOMAIN t : a + 1 \in DOMAIN q /\ 1 \in DOMAIN q /\ 1 < a + 1
        BY <3>2
      <3>5. \A a \in DOMAIN t : ticket[n] < ticket[t[a]]
        BY <3>2, <3>3, <3>4
      <3>6. \A k \in Range(t) : ticket[n] < ticket[k]
        BY <3>5 DEF Range
      <3>7. \A a, b \in DOMAIN t : a < b => ticket[t[a]] < ticket[t[b]]
        <4> SUFFICES ASSUME NEW a \in DOMAIN t, NEW b \in DOMAIN t, a < b
                     PROVE  ticket[t[a]] < ticket[t[b]]
          OBVIOUS
        <4>1. a + 1 < b + 1
          BY <3>2
        <4>2. QED
          BY <3>2, <3>3, <3>4, <4>1
      <3>8. QED
        BY <2>1, <3>6, <3>7 DEF JobInOrder, t
    <2>7. QED
      BY <2>4, <2>5, <2>6
  <1>3. QED
    BY <1>1, <1>2

\* Initially nothing waits.
LEMMA OrderInit == Init => OrderInv
  <1> SUFFICES ASSUME Init PROVE OrderInv
    OBVIOUS
  <1>1. TicketsIssued
    BY DEF Init, TicketsIssued
  <1>2. \A j \in Jobs : queue[j] = <<>> /\ cover[j] = NoLog
    BY DEF Init
  <1>3. QED
    BY <1>1, <1>2, NobodyWaits DEF OrderInv

\* A step that moves no trigger keeps every job in order.
LEMMA OrderDepends ==
    ASSUME CoreInv, OrderInv, UNCHANGED <<tasks, queue, cover, ticket, clock>>
    PROVE  OrderInv'
  BY UntouchedJob DEF OrderInv, TicketsIssued

\* So does the end of a task.
LEMMA EndKeepsOrder ==
    ASSUME CoreInv, TypeOK', OrderInv, NEW l \in Logs, NEW ok,
           phase[l] # "none", Push({l}, ok), Finish(l)
    PROVE  OrderInv'
  <1>1. tasks[JobOf[l]] = l
    BY DEF CoreInv, OneTaskPerJob
  <1>2. ticket' = ticket /\ clock' = clock
    BY DEF Push
  <1>3. QED
    BY <1>1, <1>2, FinishKeepsOrder DEF OrderInv, TicketsIssued

\* Every step keeps the order.
LEMMA OrderStep ==
    ASSUME CoreInv, CoreInv', OrderInv, [Next]_vars
    PROVE  OrderInv'
  <1>1. ASSUME NEW l \in Logs, RunJob(l) PROVE OrderInv'
    <2>1. TicketsIssued'
      BY <1>1, LatestTicket DEF RunJob, RunNow, RunSerial, RunCoverEarly, CoreInv, OrderInv
    <2>2. QED
      BY <1>1, <2>1, RunNowKeepsOrder, RunSerialKeepsOrder, RunCoverEarlyKeepsOrder
         DEF RunJob, OrderInv
  <1>2. ASSUME NEW j \in Jobs, CancelJob(j) PROVE OrderInv'
    <2>1. TicketsIssued'
      BY <1>2 DEF CancelJob, Push, OrderInv, TicketsIssued
    <2>2. QED
      BY <1>2, <2>1, CancelJobKeepsOrder DEF OrderInv
  <1>3. ASSUME NEW l \in Logs, TaskStep(l) PROVE OrderInv'
    BY <1>3, OrderDepends DEF TaskStep, history
  <1>4. ASSUME NEW l \in Logs, NEW ok \in BOOLEAN, RunEnds(l, ok) PROVE OrderInv'
    BY <1>4, EndKeepsOrder DEF RunEnds, CoreInv
  <1>5. ASSUME NEW l \in Logs, CleanupDead(l) PROVE OrderInv'
    <2>1. CASE Instrumented /\ l \in requestCtx
      BY <1>5, <2>1, OrderDepends DEF CleanupDead, Push
    <2>2. CASE ~(Instrumented /\ l \in requestCtx)
      BY <1>5, <2>2, EndKeepsOrder DEF CleanupDead, CoreInv
    <2>3. QED
      BY <2>1, <2>2
  <1>6. CASE \/ BeginShutdown \/ ShutdownDone \/ BeginGraceful \/ GracefulDone
             \/ GracefulTimeout \/ UNCHANGED vars
    BY <1>6, OrderDepends
       DEF BeginShutdown, ShutdownDone, BeginGraceful, GracefulDone, GracefulTimeout,
           vars, scheduling, history
  <1>7. QED
    BY <1>1, <1>2, <1>3, <1>4, <1>5, <1>6
       DEF Next, Kill, ShutdownCancel, TaskMoves, CloseMoves

\* The triggers of a job are served in the order in which they were accepted,
\* whatever is replaced, killed, taken over or dropped in between.
THEOREM ServedInOrderAlways == Spec => []ServedInOrder
  <1>1. CoreInv /\ CoreInv' /\ OrderInv /\ [Next]_vars => OrderInv'
    BY OrderStep
  <1>2. OrderInv => ServedInOrder
    BY DEF OrderInv, JobInOrder, ServedInOrder
  <1>3. QED
    BY <1>1, <1>2, CoreInvariant, OrderInit, PTL DEF Spec
-----------------------------------------------------------------------------
(* The idle beat *)

\* Without run data to miss, _cleanup_task always reaches _finish.
NoneStuck == ~Instrumented => \A l \in Logs : phase[l] # "stuck"

\* Accepting a trigger makes no task stuck.
LEMMA RunJobMakesNoneStuck ==
    ASSUME TypeOK, NEW l \in Logs, RunJob(l), NEW k \in Logs, phase[k] # "stuck"
    PROVE  phase'[k] # "stuck"
  <1>1. JobOf[l] \in Jobs
    BY DEF ConstantsAssumption
  <1>2. CancelTask(JobOf[l])[k] # "stuck"
    BY <1>1, CancelTaskFacts
  <1>3. \/ phase' = [phase EXCEPT ![l] = "created"]
        \/ phase' = phase
        \/ phase' = CancelTask(JobOf[l])
    BY DEF RunJob, RunNow, RunSerial, RunCoverEarly
  <1>4. QED
    BY <1>2, <1>3 DEF TypeOK

\* Nor does _finish.
LEMMA FinishMakesNoneStuck ==
    ASSUME TypeOK, NEW l \in Logs, Finish(l), NEW k \in Logs, phase[k] # "stuck"
    PROVE  phase'[k] # "stuck"
  <1>1. CASE tasks[JobOf[l]] = l
    <2>1. phase'[k] = IF k = l THEN "none"
                      ELSE IF k = NextUp(JobOf[l]) THEN "created" ELSE phase[k]
      BY <1>1 DEF Finish
    <2>2. QED
      BY <2>1
  <1>2. CASE tasks[JobOf[l]] # l
    <2>1. phase' = [phase EXCEPT ![l] = "none"]
      BY <1>2 DEF Finish
    <2>2. QED
      BY <2>1 DEF TypeOK
  <1>3. QED
    BY <1>1, <1>2

\* Every step of an executor without instrumentation finishes what it cleans up.
LEMMA NoneStuckStep ==
    ASSUME CoreInv, NoneStuck, [Next]_vars
    PROVE  NoneStuck'
  <1> SUFFICES ASSUME ~Instrumented, \A k \in Logs : phase[k] # "stuck"
               PROVE  \A k \in Logs : phase'[k] # "stuck"
    BY DEF NoneStuck
  <1> USE DEF CoreInv
  <1>1. ASSUME NEW l \in Logs, RunJob(l) PROVE \A k \in Logs : phase'[k] # "stuck"
    BY <1>1, RunJobMakesNoneStuck
  <1>2. ASSUME NEW j \in Jobs, CancelJob(j) PROVE \A k \in Logs : phase'[k] # "stuck"
    BY <1>2, CancelTaskFacts DEF CancelJob
  <1>3. ASSUME NEW l \in Logs, TaskStep(l) PROVE \A k \in Logs : phase'[k] # "stuck"
    BY <1>3 DEF TaskStep, TypeOK
  <1>4. ASSUME NEW l \in Logs, Finish(l) PROVE \A k \in Logs : phase'[k] # "stuck"
    BY <1>4, FinishMakesNoneStuck
  <1>5. ASSUME NEW l \in Logs, CleanupDead(l) PROVE Finish(l)
    BY <1>5 DEF CleanupDead
  <1>6. CASE \/ BeginShutdown \/ ShutdownDone \/ BeginGraceful \/ GracefulDone
             \/ GracefulTimeout \/ UNCHANGED vars
    BY <1>6 DEF BeginShutdown, ShutdownDone, BeginGraceful, GracefulDone, GracefulTimeout,
                vars, scheduling
  <1>7. QED
    BY <1>1, <1>2, <1>3, <1>4, <1>5, <1>6
       DEF Next, Kill, ShutdownCancel, TaskMoves, RunEnds, CloseMoves

\* A busy job holds a trigger, and while none is stuck it owes its result.
LEMMA BusyOwes ==
    ASSUME CoreInv, \A l \in Logs : phase[l] # "stuck", NEW j \in Jobs, Busy(j)
    PROVE  \E l \in Logs : JobOf[l] = j /\ owed[l] > 0
  <1>1. CASE tasks[j] # NoLog
    <2>1. tasks[j] \in Logs /\ JobOf[tasks[j]] = j
      BY <1>1, HeldAreItsOwn DEF Held
    <2>2. phase[tasks[j]] # "none"
      BY <2>1 DEF CoreInv, OneTaskPerJob
    <2>3. owed[tasks[j]] = 1
      BY <2>1, <2>2 DEF CoreInv, AnsweredExactlyOnce
    <2>4. QED
      BY <2>1, <2>3
  <1>2. CASE queue[j] # <<>>
    <2>1. Head(queue[j]) \in Waiting(j)
      BY <1>2, GetElement DEF CoreInv, TypeOK, Waiting
    <2>2. QED
      BY <2>1, WaitingFacts
  <1>3. CASE cover[j] # NoLog
    BY <1>3, WaitingFacts DEF Waiting, CoverSet
  <1>4. QED
    BY <1>1, <1>2, <1>3 DEF Busy

\* A trigger whose result is owed keeps its job busy.
LEMMA OwedIsBusy ==
    ASSUME CoreInv, NEW l \in Logs, owed[l] > 0
    PROVE  Busy(JobOf[l])
  <1>1. CASE l \in Waiting(JobOf[l])
    BY <1>1, EmptyQueue DEF Waiting, CoverSet, Busy
  <1>2. CASE phase[l] # "none"
    BY <1>2 DEF CoreInv, OneTaskPerJob, Busy
  <1>3. QED
    BY <1>1, <1>2 DEF CoreInv, AnsweredExactlyOnce

\* Without instrumentation /idleBeat tells the admin the truth: a job is busy
\* exactly while it owes the result of one of its triggers.  (With it, a task
\* can be stuck: the run executor_wedged.)
THEOREM IdleBeatWithoutInstrumentation == Spec => [](~Instrumented => IdleBeatTruthful)
  <1>1. Init => NoneStuck
    BY DEF Init, NoneStuck
  <1>2. CoreInv /\ NoneStuck /\ [Next]_vars => NoneStuck'
    BY NoneStuckStep
  <1>3. CoreInv /\ NoneStuck => (~Instrumented => IdleBeatTruthful)
    BY BusyOwes, OwedIsBusy DEF NoneStuck, IdleBeatTruthful
  <1>4. QED
    BY <1>1, <1>2, <1>3, CoreInvariant, PTL DEF Spec

-----------------------------------------------------------------------------
(* The executor is a trigger service *)

\* The state of the service, which Service maps to it.
Lines == [j \in Jobs |-> Line(j)]
AnswerTo(l) == IF owed[l] > 0 THEN "pending" ELSE result[l]
Answers == [l \in Logs |-> AnswerTo(l)]

\* The line of a job: the replacement, then the queue.
LEMMA LineFacts ==
    ASSUME TypeOK, NEW j \in Jobs
    PROVE  /\ Line(j) \in Seq(Logs)
           /\ Range(Line(j)) = Waiting(j)
           /\ cover[j] = NoLog => Line(j) = queue[j]
           /\ cover[j] # NoLog => /\ Line(j) # <<>> /\ Head(Line(j)) = cover[j]
                                  /\ Tail(Line(j)) = queue[j]
           /\ \A l \in Logs : Append(Line(j), l) = IF cover[j] = NoLog THEN Append(queue[j], l)
                                                   ELSE <<cover[j]>> \o Append(queue[j], l)
  <1>1. queue[j] \in Seq(Logs) /\ cover[j] \in Logs \union {NoLog}
    BY DEF TypeOK
  <1>2. CASE cover[j] = NoLog
    BY <1>1, <1>2 DEF Line, Waiting, CoverSet
  <1>3. CASE cover[j] # NoLog
    <2>1. cover[j] \in Logs /\ Line(j) = <<cover[j]>> \o queue[j]
      BY <1>1, <1>3 DEF Line
    <2>2. Waiting(j) = {cover[j]} \union Range(queue[j])
      BY <1>3 DEF Waiting, CoverSet
    <2>3. PICK c \in Logs, q \in Seq(Logs) : c = cover[j] /\ q = queue[j]
      BY <1>1, <2>1
    <2>4. /\ <<c>> \o q \in Seq(Logs) /\ <<c>> \o q # <<>>
          /\ Head(<<c>> \o q) = c /\ Tail(<<c>> \o q) = q
          /\ Range(<<c>> \o q) = {c} \union Range(q)
          /\ \A x \in Logs : Append(<<c>> \o q, x) = <<c>> \o Append(q, x)
      BY InFront
    <2>5. QED
      BY <1>3, <2>1, <2>2, <2>3, <2>4
  <1>4. QED
    BY <1>2, <1>3

\* A result is owed exactly for what a job holds, if no task is stuck; it is one.
LEMMA OwedIsHeld ==
    ASSUME CoreInv, \A l \in Logs : phase[l] # "stuck", NEW l \in Logs
    PROVE  /\ owed[l] \in {0, 1}
           /\ owed[l] = 1 <=> l \in Held(JobOf[l])
           /\ AnswerTo(l) = "pending" <=> l \in Held(JobOf[l])
  <1>1. owed[l] = 1 <=> l \in Waiting(JobOf[l]) \/ phase[l] # "none"
    BY DEF CoreInv, AnsweredExactlyOnce
  <1>2. owed[l] \in {0, 1}
    BY DEF CoreInv, AnsweredExactlyOnce
  <1>3. l \in Held(JobOf[l]) <=> l \in Waiting(JobOf[l]) \/ phase[l] # "none"
    BY DEF Held, CoreInv, OneTaskPerJob
  <1>4. result[l] # "pending"
    BY DEF CoreInv, TypeOK
  <1>5. QED
    BY <1>1, <1>2, <1>3, <1>4 DEF AnswerTo

\* A job that cannot start a trigger at once has a task.
LEMMA OccupiedJobRuns ==
    ASSUME CoreInv, NEW j \in Jobs, ~CanStartNow(j)
    PROVE  tasks[j] # NoLog
  <1> SUFFICES ASSUME tasks[j] = NoLog PROVE FALSE
    OBVIOUS
  <1>1. Waiting(j) = {}
    BY DEF CoreInv, NothingStranded
  <1>2. cover[j] = NoLog
    BY <1>1 DEF Waiting, CoverSet
  <1>3. queue[j] = <<>>
    <2>1. queue[j] # <<>> => Head(queue[j]) \in Waiting(j)
      BY GetElement DEF CoreInv, TypeOK, Waiting
    <2>2. QED
      BY <1>1, <2>1
  <1>4. QED
    BY <1>2, <1>3 DEF CanStartNow

\* What is accepted is pending, what is dropped is failed, the rest is as it was.
LEMMA AcceptAnswers ==
    ASSUME CoreInv, \A k \in Logs : phase[k] # "stuck",
           NEW l \in Logs, l \notin Held(JobOf[l]),
           NEW S \in SUBSET Logs, \A k \in S : k \in Held(JobOf[k]), AcceptAndDrop(l, S)
    PROVE  Answers' = [k \in Logs |-> IF k = l THEN "pending"
                                      ELSE IF k \in S THEN "failed" ELSE Answers[k]]
  <1>1. \A k \in Logs : /\ owed[k] \in {0, 1}
                        /\ owed[k] = 1 <=> k \in Held(JobOf[k])
    BY OwedIsHeld
  <1>2. /\ owed' = [k \in Logs |-> owed[k] + (IF k = l THEN 1 ELSE 0)
                                           - (IF k \in S THEN 1 ELSE 0)]
        /\ result' = [k \in Logs |-> IF k \in S THEN "failed" ELSE result[k]]
    BY DEF AcceptAndDrop
  <1>3. l \notin S
    OBVIOUS
  <1>4. ASSUME NEW k \in Logs
        PROVE  AnswerTo(k)' = IF k = l THEN "pending"
                              ELSE IF k \in S THEN "failed" ELSE AnswerTo(k)
    <2>1. CASE k = l
      <3>1. owed'[k] = 1
        BY <1>1, <1>2, <1>3, <2>1
      <3>2. QED
        BY <2>1, <3>1 DEF AnswerTo
    <2>2. CASE k # l /\ k \in S
      <3>1. owed'[k] = 0 /\ result'[k] = "failed"
        BY <1>1, <1>2, <2>2
      <3>2. QED
        BY <2>2, <3>1 DEF AnswerTo
    <2>3. CASE k # l /\ k \notin S
      <3>1. owed'[k] = owed[k] /\ result'[k] = result[k]
        BY <1>1, <1>2, <2>3
      <3>2. QED
        BY <2>3, <3>1 DEF AnswerTo
    <2>4. QED
      BY <2>1, <2>2, <2>3
  <1>5. QED
    BY <1>4 DEF Answers

\* What is pushed has its answer.
LEMMA PushAnswers ==
    ASSUME CoreInv, \A k \in Logs : phase[k] # "stuck",
           NEW S \in SUBSET Logs, \A k \in S : k \in Held(JobOf[k]), NEW r \in {"ok", "failed"},
           owed' = [k \in Logs |-> owed[k] - (IF k \in S THEN 1 ELSE 0)],
           result' = [k \in Logs |-> IF k \in S THEN r ELSE result[k]]
    PROVE  Answers' = [k \in Logs |-> IF k \in S THEN r ELSE Answers[k]]
  <1>1. \A k \in Logs : /\ owed[k] \in {0, 1}
                        /\ owed[k] = 1 <=> k \in Held(JobOf[k])
    BY OwedIsHeld
  <1>2. ASSUME NEW k \in Logs
        PROVE  AnswerTo(k)' = IF k \in S THEN r ELSE AnswerTo(k)
    <2>1. CASE k \in S
      <3>1. owed'[k] = 0 /\ result'[k] = r
        BY <1>1, <2>1
      <3>2. QED
        BY <2>1, <3>1 DEF AnswerTo
    <2>2. CASE k \notin S
      <3>1. owed'[k] = owed[k] /\ result'[k] = result[k]
        BY <1>1, <2>2
      <3>2. QED
        BY <2>2, <3>1 DEF AnswerTo
    <2>3. QED
      BY <2>1, <2>2
  <1>3. QED
    BY <1>2 DEF Answers

\* run_job on an idle job serves the trigger.
LEMMA RunNowServes ==
    ASSUME CoreInv, \A k \in Logs : phase[k] # "stuck", NEW l \in Logs, RunNow(l)
    PROVE  Service!Serve(l)
  <1>1. /\ l \notin Held(JobOf[l]) /\ tasks[JobOf[l]] = NoLog
        /\ tasks' = [tasks EXCEPT ![JobOf[l]] = l]
        /\ UNCHANGED <<queue, cover>> /\ AcceptAndDrop(l, {})
    BY DEF RunNow, Admissible, CanStartNow, CoreInv, DedupMatchesHeld
  <1>2. Answers' = [Answers EXCEPT ![l] = "pending"]
    <2>1. Answers' = [k \in Logs |-> IF k = l THEN "pending"
                                     ELSE IF k \in {} THEN "failed" ELSE Answers[k]]
      BY <1>1, AcceptAnswers
    <2>2. QED
      BY <2>1 DEF Answers
  <1>3. Answers[l] # "pending"
    BY <1>1, OwedIsHeld DEF Answers
  <1>4. Lines' = Lines
    BY <1>1 DEF Lines, Line
  <1>5. QED
    BY <1>1, <1>2, <1>3, <1>4
       DEF Service!Serve, Service!Fresh, Answers, AnswerTo, Lines

\* run_job that queues joins the line.
LEMMA RunSerialJoins ==
    ASSUME CoreInv, \A k \in Logs : phase[k] # "stuck", NEW l \in Logs, RunSerial(l)
    PROVE  Service!Join(l)
  <1>1. /\ l \notin Held(JobOf[l]) /\ JobOf[l] \in Jobs
        /\ queue' = [queue EXCEPT ![JobOf[l]] = Append(@, l)]
        /\ UNCHANGED <<tasks, cover>> /\ AcceptAndDrop(l, {})
    BY DEF RunSerial, Admissible, CoreInv, DedupMatchesHeld
  <1>2. tasks[JobOf[l]] # NoLog
    BY <1>1, OccupiedJobRuns DEF RunSerial
  <1>3. Answers' = [Answers EXCEPT ![l] = "pending"]
    <2>1. Answers' = [k \in Logs |-> IF k = l THEN "pending"
                                     ELSE IF k \in {} THEN "failed" ELSE Answers[k]]
      BY <1>1, AcceptAnswers
    <2>2. QED
      BY <2>1 DEF Answers
  <1>4. Answers[l] # "pending"
    BY <1>1, OwedIsHeld DEF Answers
  <1>5. Lines' = [Lines EXCEPT ![JobOf[l]] = Append(@, l)]
    <2>1. ASSUME NEW j \in Jobs
          PROVE  Line(j)' = IF j = JobOf[l] THEN Append(Line(j), l) ELSE Line(j)
      <3>1. CASE j = JobOf[l]
        <4>1. queue'[j] = Append(queue[j], l) /\ cover'[j] = cover[j]
          BY <1>1, <3>1 DEF CoreInv, TypeOK
        <4>2. QED
          BY <3>1, <4>1, LineFacts DEF Line, CoreInv
      <3>2. CASE j # JobOf[l]
        <4>1. queue'[j] = queue[j] /\ cover'[j] = cover[j]
          BY <1>1, <3>2 DEF CoreInv, TypeOK
        <4>2. QED
          BY <3>2, <4>1 DEF Line
      <3>3. QED
        BY <3>1, <3>2
    <2>2. QED
      BY <2>1 DEF Lines
  <1>6. QED
    BY <1>1, <1>2, <1>3, <1>4, <1>5
       DEF Service!Join, Service!Fresh, Answers, AnswerTo, Lines

\* run_job that replaces drops the line and is alone in it.
LEMMA RunCoverEarlyReplaces ==
    ASSUME CoreInv, \A k \in Logs : phase[k] # "stuck", NEW l \in Logs, RunCoverEarly(l)
    PROVE  Service!Replace(l)
  <1> DEFINE i == JobOf[l]
  <1>1. /\ l \notin Held(i) /\ i \in Jobs /\ AcceptAndDrop(l, Waiting(i))
        /\ queue' = [queue EXCEPT ![i] = <<>>]
    BY DEF RunCoverEarly, Admissible, CoreInv, DedupMatchesHeld, Dropped
  <1>2. tasks[i] # NoLog
    BY <1>1, OccupiedJobRuns DEF RunCoverEarly
  <1>3. tasks' = tasks /\ cover' = [cover EXCEPT ![i] = l]
    BY <1>1, <1>2 DEF RunCoverEarly, CoreInv, TypeOK
  <1>4. Waiting(i) = Range(Lines[i])
    BY <1>1, LineFacts DEF CoreInv, Lines
  <1>5. Answers' = [k \in Logs |-> IF k = l THEN "pending"
                                   ELSE IF k \in Range(Lines[i]) THEN "failed" ELSE Answers[k]]
    <2>1. Waiting(i) \in SUBSET Logs /\ \A k \in Waiting(i) : k \in Held(JobOf[k])
      BY <1>1, WaitingFacts DEF Held
    <2>2. QED
      BY <1>1, <1>4, <2>1, AcceptAnswers
  <1>6. Answers[l] # "pending"
    BY <1>1, OwedIsHeld DEF Answers
  <1>7. Lines' = [Lines EXCEPT ![i] = <<l>>]
    <2>1. ASSUME NEW j \in Jobs PROVE Line(j)' = IF j = i THEN <<l>> ELSE Line(j)
      <3>1. CASE j = i
        <4>1. queue'[j] = <<>> /\ cover'[j] = l
          BY <1>1, <1>3, <3>1 DEF CoreInv, TypeOK
        <4>2. <<l>> \o <<>> = <<l>> /\ l # NoLog
          BY InFront, EmptySeq
        <4>3. QED
          BY <3>1, <4>1, <4>2 DEF Line
      <3>2. CASE j # i
        <4>1. queue'[j] = queue[j] /\ cover'[j] = cover[j]
          BY <1>1, <1>3, <3>2 DEF CoreInv, TypeOK
        <4>2. QED
          BY <3>2, <4>1 DEF Line
      <3>3. QED
        BY <3>1, <3>2
    <2>2. QED
      BY <2>1 DEF Lines
  <1>8. QED
    BY <1>2, <1>3, <1>5, <1>6, <1>7
       DEF Service!Replace, Service!Fresh, Service!Range, Range, Answers, AnswerTo, Lines

\* cancel_job drops the line.
LEMMA CancelJobDrops ==
    ASSUME CoreInv, \A k \in Logs : phase[k] # "stuck", NEW i \in Jobs, CancelJob(i)
    PROVE  Service!Drop(i)
  <1>1. /\ queue' = [queue EXCEPT ![i] = <<>>] /\ cover' = [cover EXCEPT ![i] = NoLog]
        /\ tasks' = tasks /\ Push(Waiting(i), FALSE)
    BY DEF CancelJob
  <1>2. Waiting(i) = Range(Lines[i])
    BY LineFacts DEF CoreInv, Lines
  <1>3. Answers' = [k \in Logs |-> IF k \in Range(Lines[i]) THEN "failed" ELSE Answers[k]]
    <2>1. Waiting(i) \in SUBSET Logs /\ \A k \in Waiting(i) : k \in Held(JobOf[k])
      BY WaitingFacts DEF Held
    <2>2. PICK S \in SUBSET Logs : S = Waiting(i)
      BY <2>1
    <2>3. /\ owed' = [k \in Logs |-> owed[k] - (IF k \in S THEN 1 ELSE 0)]
          /\ result' = [k \in Logs |-> IF k \in S THEN "failed" ELSE result[k]]
      BY <1>1, <2>2 DEF Push
    <2>4. Answers' = [k \in Logs |-> IF k \in S THEN "failed" ELSE Answers[k]]
      BY <2>1, <2>2, <2>3, PushAnswers
    <2>5. QED
      BY <1>2, <2>2, <2>4
  <1>4. Lines' = [Lines EXCEPT ![i] = <<>>]
    <2>1. ASSUME NEW j \in Jobs PROVE Line(j)' = IF j = i THEN <<>> ELSE Line(j)
      BY <1>1 DEF Line, CoreInv, TypeOK
    <2>2. QED
      BY <2>1 DEF Lines
  <1>5. QED
    BY <1>1, <1>3, <1>4 DEF Service!Drop, Service!Range, Range, Answers, AnswerTo, Lines

\* The end of a task answers its trigger and serves the next in line.
LEMMA EndAnswers ==
    ASSUME CoreInv, TypeOK', \A k \in Logs : phase[k] # "stuck",
           NEW l \in Logs, NEW ok \in BOOLEAN, phase[l] # "none", Push({l}, ok), Finish(l)
    PROVE  Service!Answer(JobOf[l])
  <1> DEFINE i == JobOf[l]
             n == NextUp(i)
  <1>1. tasks[i] = l /\ i \in Jobs
    BY DEF CoreInv, OneTaskPerJob
  <1>2. /\ tasks' = [tasks EXCEPT ![i] = n] /\ cover' = [cover EXCEPT ![i] = NoLog]
        /\ queue' = [queue EXCEPT ![i] = IF cover[i] # NoLog \/ @ = <<>> THEN @ ELSE Tail(@)]
    BY <1>1 DEF Finish
  <1>3. Answers' = [Answers EXCEPT ![l] = IF ok THEN "ok" ELSE "failed"]
    <2>1. \A k \in {l} : k \in Held(JobOf[k])
      BY <1>1 DEF Held
    <2>2. PICK r \in {"ok", "failed"} : r = IF ok THEN "ok" ELSE "failed"
      OBVIOUS
    <2>3. /\ owed' = [k \in Logs |-> owed[k] - (IF k \in {l} THEN 1 ELSE 0)]
          /\ result' = [k \in Logs |-> IF k \in {l} THEN r ELSE result[k]]
      BY <2>2 DEF Push
    <2>4. Answers' = [k \in Logs |-> IF k \in {l} THEN r ELSE Answers[k]]
      BY <2>1, <2>3, PushAnswers
    <2>5. QED
      BY <2>2, <2>4 DEF Answers
  <1>4. /\ n = IF Line(i) = <<>> THEN NoLog ELSE Head(Line(i))
        /\ Line(i)' = IF Line(i) = <<>> THEN Line(i) ELSE Tail(Line(i))
    <2>1. cover'[i] = NoLog /\ Line(i)' = queue'[i]
      BY <1>1, <1>2 DEF Line, CoreInv, TypeOK
    <2>2. queue'[i] = IF cover[i] # NoLog \/ queue[i] = <<>> THEN queue[i] ELSE Tail(queue[i])
      BY <1>1, <1>2 DEF CoreInv, TypeOK
    <2>3. CASE cover[i] = NoLog
      <3>1. Line(i) = queue[i]
        BY <2>3 DEF Line
      <3>2. QED
        BY <2>1, <2>2, <2>3, <3>1 DEF NextUp
    <2>4. CASE cover[i] # NoLog
      <3>1. Line(i) # <<>> /\ Head(Line(i)) = cover[i] /\ Tail(Line(i)) = queue[i]
        BY <1>1, <2>4, LineFacts DEF CoreInv
      <3>2. QED
        BY <2>1, <2>2, <2>4, <3>1 DEF NextUp
    <2>5. QED
      BY <2>3, <2>4
  <1>5. ASSUME NEW j \in Jobs, j # i PROVE Line(j)' = Line(j)
    BY <1>2, <1>5 DEF Line, CoreInv, TypeOK
  <1>6. /\ tasks' = [tasks EXCEPT ![i] = IF Lines[i] = <<>> THEN NoLog ELSE Head(Lines[i])]
        /\ Lines' = [Lines EXCEPT ![i] = IF @ = <<>> THEN @ ELSE Tail(@)]
    <2>1. Lines[i] = Line(i)
      BY <1>1 DEF Lines
    <2>2. \A j \in Jobs : Line(j)' = IF j = i THEN (IF Lines[i] = <<>> THEN Lines[i] ELSE Tail(Lines[i]))
                                     ELSE Line(j)
      BY <1>4, <1>5, <2>1
    <2>3. Lines' = [Lines EXCEPT ![i] = IF @ = <<>> THEN @ ELSE Tail(@)]
      BY <2>2 DEF Lines
    <2>4. QED
      BY <1>2, <1>4, <2>1, <2>3
  <1>7. \E r \in {"ok", "failed"} : Answers' = [Answers EXCEPT ![tasks[i]] = r]
    BY <1>1, <1>3
  <1>8. tasks[i] # NoLog
    BY <1>1
  <1>9. QED
    BY <1>6, <1>7, <1>8 DEF Service!Answer, Answers, AnswerTo, Lines

\* A step that moves no trigger and answers none is none of the service.
LEMMA ServiceStutters ==
    ASSUME UNCHANGED <<tasks, queue, cover, owed, result>>
    PROVE  UNCHANGED Service!vars
  <1>1. Lines' = Lines /\ Answers' = Answers
    BY DEF Lines, Line, Answers, AnswerTo
  <1>2. QED
    BY <1>1 DEF Service!vars, Lines, Answers, AnswerTo

\* Every step of an executor none of whose tasks is stuck is one of the service.
LEMMA ServiceStep ==
    ASSUME CoreInv, CoreInv', NoneStuck, ~Instrumented, [Next]_vars
    PROVE  [Service!Next]_Service!vars
  <1>1. \A k \in Logs : phase[k] # "stuck"
    BY DEF NoneStuck
  <1>2. ASSUME NEW l \in Logs, RunJob(l) PROVE Service!Next
    <2>1. Service!Serve(l) \/ Service!Join(l) \/ Service!Replace(l)
      BY <1>1, <1>2, RunNowServes, RunSerialJoins, RunCoverEarlyReplaces DEF RunJob
    <2>2. QED
      BY <2>1 DEF Service!Next
  <1>3. ASSUME NEW j \in Jobs, CancelJob(j) PROVE Service!Next
    BY <1>1, <1>3, CancelJobDrops DEF Service!Next
  <1>4. ASSUME NEW l \in Logs, NEW ok \in BOOLEAN, phase[l] # "none", Push({l}, ok), Finish(l)
        PROVE  Service!Next
    <2>1. JobOf[l] \in Jobs /\ Service!Answer(JobOf[l])
      BY <1>1, <1>4, EndAnswers DEF CoreInv
    <2>2. QED
      BY <2>1 DEF Service!Next
  <1>5. ASSUME NEW l \in Logs, NEW ok \in BOOLEAN, RunEnds(l, ok) PROVE Service!Next
    BY <1>4, <1>5 DEF RunEnds
  <1>6. ASSUME NEW l \in Logs, CleanupDead(l) PROVE Service!Next
    BY <1>4, <1>6 DEF CleanupDead
  <1>7. ASSUME NEW l \in Logs, TaskStep(l) PROVE UNCHANGED Service!vars
    BY <1>7, ServiceStutters DEF TaskStep, history
  <1>8. CASE \/ BeginShutdown \/ ShutdownDone \/ BeginGraceful \/ GracefulDone
             \/ GracefulTimeout \/ UNCHANGED vars
    BY <1>8, ServiceStutters
       DEF BeginShutdown, ShutdownDone, BeginGraceful, GracefulDone, GracefulTimeout,
           vars, scheduling, history
  <1>9. QED
    BY <1>2, <1>3, <1>5, <1>6, <1>7, <1>8
       DEF Next, Kill, ShutdownCancel, TaskMoves, CloseMoves

\* Without instrumentation the executor is a TriggerService, whatever is queued,
\* replaced, killed, cancelled too early or closed: a job serves one line, answers
\* each trigger once and serves the next in the step that answers the one before.
\* (That it answers in the end, the fairness of Service!Spec, is checked by the
\* run executor_live.)
THEOREM ExecutorServes ==
    ~Instrumented /\ Spec => Service!Init /\ [][Service!Next]_(Service!vars)
  <1> SUFFICES ASSUME ~Instrumented
               PROVE  Spec => Service!Init /\ [][Service!Next]_(Service!vars)
    OBVIOUS
  <1>1. Init => Service!Init
    <2> SUFFICES ASSUME Init PROVE Service!Init
      OBVIOUS
    <2>1. Lines = [j \in Jobs |-> <<>>] /\ Answers = [l \in Logs |-> "none"]
      BY DEF Init, Lines, Line, Answers, AnswerTo
    <2>2. QED
      BY <2>1 DEF Init, Service!Init, Lines, Answers, AnswerTo
  <1>2. Init => NoneStuck
    BY DEF Init, NoneStuck
  <1>3. CoreInv /\ NoneStuck /\ [Next]_vars => NoneStuck'
    BY NoneStuckStep
  <1>4. CoreInv /\ CoreInv' /\ NoneStuck /\ [Next]_vars => [Service!Next]_(Service!vars)
    BY ServiceStep
  <1>5. QED
    BY <1>1, <1>2, <1>3, <1>4, CoreInvariant, PTL DEF Spec
=============================================================================
