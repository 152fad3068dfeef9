---------------------------- MODULE HandlersProofs ----------------------------
(***************************************************************************)
(* Proofs about Handlers, for every number of triggers of either mode,     *)
(* every size of the pool and every number of interrupts.                  *)
(***************************************************************************)
EXTENDS Handlers, TLAPS

-----------------------------------------------------------------------------
(* The inductive invariant *)

\* What the loop may conclude from the place where a start() stands: a last look
\* at the pipe is taken at a child that is dead, the step-by-step stop runs only
\* after an interrupt, and with one interrupt at most it reaches the join with
\* the handler no longer executing.
PointsTell ==
    /\ pc = "lastget" => ~Alive(run)
    /\ pc \in {"asking", "forcing"} => interrupts[run] >= 1
    /\ pc \in {"joining", "over"} /\ interrupts[run] <= 1 => child[run] # "running"

\* The same for the triggers before: nothing changes a start() that is over.
EarlierStopped ==
    \A r \in 1..Runs : r < run /\ interrupts[r] <= 1 => child[r] # "running"

\* A payload in the pipe comes from a handler that has ended, and a crash is
\* only reported of a child that is dead and has left none.
PipeTells ==
    \A r \in 1..Runs :
        /\ piped[r] # "none" => child[r] \in {"exiting", "dead"}
        /\ outcome[r] = "crashed" => child[r] = "dead" /\ piped[r] = "none"

\* A thread-mode start() that is over has withdrawn its work item, seen it end,
\* or told it to stop.
ThreadsTold ==
    \A t \in over : thread[t] = "ended" \/ (thread[t] = "executing" /\ t \in told)

HandlersInv ==
    /\ TypeOK
    /\ PointsTell
    /\ EarlierStopped
    /\ PipeTells
    /\ ThreadsTold

-----------------------------------------------------------------------------
\* The loop starts a child and looks at nothing yet.
LEMMA HandlersInit == Init => HandlersInv
  <1> SUFFICES ASSUME Init PROVE HandlersInv
    OBVIOUS
  <1>1. Runs \in Nat \ {0} /\ ThreadRuns \in Nat \ {0} /\ MaxInterrupts \in Nat
    BY ConstantsAssumption
  <1>2. TypeOK
    BY <1>1 DEF Init, TypeOK, Points
  <1>3. QED
    BY <1>2 DEF Init, HandlersInv, PointsTell, EarlierStopped, PipeTells, ThreadsTold

\* What the loop does beside the interrupts: polling, looking at the pipe, the
\* stop, the next start().
LEMMA LoopKeeps ==
    ASSUME HandlersInv, ParentMoves \/ Join
    PROVE  HandlersInv'
  <1> USE DEF HandlersInv
  <1>0. /\ Runs \in Nat \ {0} /\ run \in 1..Runs /\ run \in Nat
        /\ child \in [1..Runs -> {"unborn", "running", "exiting", "dead"}]
        /\ outcome \in [1..Runs -> {"none", "ok", "error", "crashed", "timeout", "cancelled"}]
        /\ piped \in [1..Runs -> {"none", "ok", "error"}]
    BY ConstantsAssumption DEF TypeOK
  <1>1. CASE Wake
    BY <1>1 DEF Wake, Moves, threadVars, TypeOK, Points, PointsTell, EarlierStopped, PipeTells,
                ThreadsTold
  <1>2. CASE GetResult
    <2>1. /\ outcome' = [outcome EXCEPT ![run] = piped[run]]
          /\ pc' \in {"check", "joining"}
          /\ pc' = "joining" => piped[run] # "none"
          /\ UNCHANGED <<run, child, piped, signalled, interrupts, threadVars>>
      BY <1>2 DEF GetResult
    <2>2. TypeOK'
      BY <1>0, <2>1 DEF threadVars, TypeOK, Points
    <2>3. PointsTell'
      BY <1>0, <2>1 DEF PointsTell, PipeTells
    <2>4. PipeTells'
      BY <1>0, <2>1 DEF PipeTells
    <2>5. EarlierStopped' /\ ThreadsTold'
      BY <2>1 DEF threadVars, EarlierStopped, ThreadsTold
    <2>6. QED
      BY <2>2, <2>3, <2>4, <2>5
  <1>3. CASE CheckChild
    BY <1>3 DEF CheckChild, Alive, threadVars, TypeOK, Points, PointsTell, EarlierStopped,
                PipeTells, ThreadsTold
  <1>4. CASE LastGet
    <2>1. /\ outcome' = [outcome EXCEPT ![run] =
                            IF piped[run] = "none" THEN "crashed" ELSE piped[run]]
          /\ pc' = "joining"
          /\ UNCHANGED <<run, child, piped, signalled, interrupts, threadVars>>
      BY <1>4 DEF LastGet, Moves
    <2>2. child[run] = "dead"
      BY <1>0, <1>4 DEF LastGet, Moves, TypeOK, PointsTell, Alive
    <2>3. TypeOK'
      BY <1>0, <2>1 DEF threadVars, TypeOK, Points
    <2>4. PipeTells'
      BY <1>0, <2>1, <2>2 DEF PipeTells
    <2>5. PointsTell' /\ EarlierStopped' /\ ThreadsTold'
      BY <2>1, <2>2 DEF threadVars, PointsTell, EarlierStopped, ThreadsTold
    <2>6. QED
      BY <2>3, <2>4, <2>5
  <1>5. CASE ChildStopped
    BY <1>5 DEF ChildStopped, Alive, threadVars, TypeOK, Points, PointsTell, EarlierStopped,
                PipeTells, ThreadsTold
  <1>6. CASE Terminate \/ Kill
    <2>1. PICK after \in {child[run], "dead"} :
              /\ child' = [child EXCEPT ![run] = after]
              /\ (pc = "asking" /\ pc' = "forcing") \/ (pc' = "joining" /\ after = "dead")
      <3>1. CASE Terminate
        <4>1. /\ \E a \in {child[run], "dead"} : child' = [child EXCEPT ![run] = a]
              /\ pc = "asking" /\ pc' = "forcing"
          BY <3>1 DEF Terminate, Moves
        <4>2. QED
          BY <4>1
      <3>2. CASE Kill
        <4>1. child' = [child EXCEPT ![run] = "dead"] /\ pc' = "joining"
          BY <3>2 DEF Kill, Moves
        <4>2. QED
          BY <4>1
      <3>3. QED
        BY <1>6, <3>1, <3>2
    <2>2. UNCHANGED <<run, piped, signalled, outcome, interrupts, threadVars>>
      BY <1>6 DEF Terminate, Kill
    <2>3. \A r \in 1..Runs : child'[r] = child[r] \/ (r = run /\ child'[r] = "dead")
      BY <1>0, <2>1
    <2>4. child' \in [1..Runs -> {"unborn", "running", "exiting", "dead"}]
      BY <1>0, <2>1
    <2>5. Alive(run)
      BY <1>6 DEF Terminate, Kill
    <2>6. TypeOK'
      BY <1>0, <2>1, <2>2, <2>3, <2>4, <2>5 DEF Alive, threadVars, TypeOK, Points
    <2>7. PointsTell'
      BY <1>0, <2>1, <2>2, <2>3 DEF PointsTell
    <2>8. EarlierStopped' /\ PipeTells' /\ ThreadsTold'
      BY <2>2, <2>3 DEF threadVars, EarlierStopped, PipeTells, ThreadsTold
    <2>9. QED
      BY <2>6, <2>7, <2>8
  <1>7. CASE StartNext
    <2>1. /\ run' = run + 1 /\ run' \in 1..Runs /\ pc = "over" /\ pc' = "sleeping"
          /\ child' = [child EXCEPT ![run + 1] = "running"]
          /\ UNCHANGED <<piped, signalled, outcome, interrupts, threadVars>>
      BY <1>0, <1>7 DEF StartNext
    <2>2. \A r \in 1..Runs : child'[r] = IF r = run + 1 THEN "running" ELSE child[r]
      BY <1>0, <2>1
    <2>3. child[run + 1] = "unborn"
      BY <1>0, <2>1 DEF TypeOK
    <2>4. TypeOK'
      <3>1. child' \in [1..Runs -> {"unborn", "running", "exiting", "dead"}]
        BY <1>0, <2>1
      <3>2. \A r \in 1..Runs : child'[r] = "unborn" <=> r > run'
        BY <1>0, <2>1, <2>2 DEF TypeOK
      <3>3. QED
        BY <2>1, <3>1, <3>2 DEF threadVars, TypeOK, Points
    <2>5. EarlierStopped'
      BY <1>0, <2>1, <2>2 DEF PointsTell, EarlierStopped
    <2>6. PipeTells'
      BY <2>1, <2>2, <2>3 DEF PipeTells
    <2>7. PointsTell' /\ ThreadsTold'
      BY <2>1 DEF threadVars, PointsTell, ThreadsTold
    <2>8. QED
      BY <2>4, <2>5, <2>6, <2>7
  <1>8. CASE Join
    BY <1>8 DEF Join, Moves, threadVars, TypeOK, Points, PointsTell, EarlierStopped, PipeTells,
                ThreadsTold
  <1>9. QED
    BY <1>1, <1>2, <1>3, <1>4, <1>5, <1>6, <1>7, <1>8 DEF ParentMoves

\* A timeout or a cancellation counts, and comes where the loop awaits.
LEMMA InterruptKeeps ==
    ASSUME HandlersInv, Timeout \/ Cancel \/ CancelAgain
    PROVE  HandlersInv'
  <1> USE DEF HandlersInv
  <1>1. PICK how \in {"timeout", "cancelled"} :
            /\ outcome' = [outcome EXCEPT ![run] = how]
            /\ interrupts' = [interrupts EXCEPT ![run] = @ + 1]
            /\ interrupts[run] < MaxInterrupts
            /\ UNCHANGED <<run, child, piped, threadVars>>
    BY DEF Timeout, Cancel, StopBegins, CancelAgain, Interrupted
  <1>2. /\ signalled' \in [1..Runs -> BOOLEAN]
        /\ \/ pc = "sleeping" /\ pc' = "asking"
           \/ pc \in {"asking", "forcing"} /\ pc' = "joining"
           \/ pc = "joining" /\ pc' = "over"
    BY DEF Timeout, Cancel, StopBegins, CancelAgain, Moves, TypeOK
  <1>3. /\ MaxInterrupts \in Nat /\ run \in 1..Runs
        /\ interrupts \in [1..Runs -> 0..MaxInterrupts]
        /\ outcome \in [1..Runs -> {"none", "ok", "error", "crashed", "timeout", "cancelled"}]
    BY ConstantsAssumption DEF TypeOK
  <1>4. /\ interrupts' \in [1..Runs -> 0..MaxInterrupts]
        /\ interrupts'[run] = interrupts[run] + 1
        /\ \A r \in 1..Runs \ {run} : interrupts'[r] = interrupts[r]
    BY <1>1, <1>3
  <1>5. /\ outcome' \in [1..Runs -> {"none", "ok", "error", "crashed", "timeout", "cancelled"}]
        /\ \A r \in 1..Runs : outcome'[r] = "crashed" => outcome[r] = "crashed"
    BY <1>1, <1>3
  <1>6. TypeOK'
    BY <1>1, <1>2, <1>4, <1>5 DEF threadVars, TypeOK, Points
  <1>7. PointsTell'
    BY <1>1, <1>2, <1>3, <1>4 DEF PointsTell
  <1>8. EarlierStopped'
    BY <1>1, <1>3, <1>4 DEF EarlierStopped
  <1>9. PipeTells' /\ ThreadsTold'
    BY <1>1, <1>5 DEF threadVars, PipeTells, ThreadsTold
  <1>10. QED
    BY <1>6, <1>7, <1>8, <1>9

\* What a child does.
LEMMA ChildKeeps ==
    ASSUME HandlersInv, NEW r \in 1..Runs, ChildPuts(r) \/ ChildExits(r)
    PROVE  HandlersInv'
  <1> USE DEF HandlersInv
  <1>1. /\ child[r] \in {"running", "exiting"}
        /\ \E after \in {"exiting", "dead"} : child' = [child EXCEPT ![r] = after]
        /\ \/ UNCHANGED piped
           \/ /\ child[r] = "running"
              /\ \E p \in {"none", "ok", "error"} : piped' = [piped EXCEPT ![r] = p]
        /\ UNCHANGED <<run, pc, signalled, outcome, interrupts, threadVars>>
    BY DEF ChildPuts, ChildExits, Alive
  <1>2. /\ child' \in [1..Runs -> {"unborn", "running", "exiting", "dead"}]
        /\ child'[r] \in {"exiting", "dead"}
        /\ \A q \in 1..Runs \ {r} : child'[q] = child[q]
        /\ piped' \in [1..Runs -> {"none", "ok", "error"}]
        /\ \A q \in 1..Runs \ {r} : piped'[q] = piped[q]
    <2>1. /\ child \in [1..Runs -> {"unborn", "running", "exiting", "dead"}]
          /\ piped \in [1..Runs -> {"none", "ok", "error"}]
      BY DEF TypeOK
    <2>2. PICK after \in {"exiting", "dead"} : child' = [child EXCEPT ![r] = after]
      BY <1>1
    <2>3. UNCHANGED piped \/ \E p \in {"none", "ok", "error"} : piped' = [piped EXCEPT ![r] = p]
      BY <1>1
    <2>4. QED
      BY <2>1, <2>2, <2>3
  <1>3. TypeOK'
    BY <1>1, <1>2 DEF threadVars, TypeOK
  <1>4. PointsTell'
    BY <1>1, <1>2 DEF PointsTell, Alive, TypeOK
  <1>5. EarlierStopped' /\ ThreadsTold'
    BY <1>1, <1>2 DEF threadVars, EarlierStopped, ThreadsTold
  <1>6. PipeTells'
    <2>1. child[r] # "dead"
      BY <1>1
    <2>2. QED
      BY <1>1, <1>2, <2>1 DEF PipeTells
  <1>7. QED
    BY <1>3, <1>4, <1>5, <1>6

\* What happens to a work item of the pool.
LEMMA ThreadKeeps ==
    ASSUME HandlersInv, NEW t \in 1..ThreadRuns,
           ThreadMoves(t) \/ ThreadReturns(t) \/ ThreadInterrupted(t)
    PROVE  HandlersInv'
  <1> USE DEF HandlersInv
  <1>1. UNCHANGED processVars
    BY DEF ThreadMoves, ThreadSubmitted, ThreadPicked, ThreadStartReturns, ThreadReturns,
           ThreadInterrupted
  <1>2. /\ thread \in [1..ThreadRuns -> {"unborn", "queued", "executing", "ended"}]
        /\ over \in SUBSET (1..ThreadRuns) /\ told \in SUBSET (1..ThreadRuns)
    BY DEF TypeOK
  <1>3. /\ thread' \in [1..ThreadRuns -> {"unborn", "queued", "executing", "ended"}]
        /\ over' \in SUBSET (1..ThreadRuns) /\ told' \in SUBSET (1..ThreadRuns)
        /\ ThreadsTold'
    <2>1. CASE ThreadSubmitted(t)
      BY <1>2, <2>1 DEF ThreadSubmitted, ThreadsTold
    <2>2. CASE ThreadPicked(t)
      BY <1>2, <2>2 DEF ThreadPicked, ThreadsTold
    <2>3. CASE ThreadStartReturns(t)
      BY <1>2, <2>3 DEF ThreadStartReturns, ThreadsTold
    <2>4. CASE ThreadReturns(t)
      BY <1>2, <2>4 DEF ThreadReturns, ThreadsTold
    <2>5. CASE ThreadInterrupted(t)
      BY <1>2, <2>5 DEF ThreadInterrupted, ThreadsTold
    <2>6. QED
      BY <2>1, <2>2, <2>3, <2>4, <2>5 DEF ThreadMoves
  <1>4. TypeOK'
    BY <1>1, <1>3 DEF processVars, TypeOK
  <1>5. PointsTell' /\ EarlierStopped' /\ PipeTells'
    BY <1>1 DEF processVars, PointsTell, EarlierStopped, PipeTells, Alive
  <1>6. QED
    BY <1>3, <1>4, <1>5

\* The inductive invariant is an invariant of the specification.
THEOREM HandlersInvariant == Spec => []HandlersInv
  <1>1. HandlersInv /\ UNCHANGED vars => HandlersInv'
    BY DEF vars, processVars, threadVars, HandlersInv, TypeOK, PointsTell, EarlierStopped,
           PipeTells, ThreadsTold, Alive
  <1>2. HandlersInv /\ [Next]_vars => HandlersInv'
    BY <1>1, LoopKeeps, InterruptKeeps, ChildKeeps, ThreadKeeps DEF Next
  <1>3. QED
    BY <1>2, HandlersInit, PTL DEF Spec

-----------------------------------------------------------------------------
(* The theorems *)

\* Type correctness; triggers run in turn, each with its own child.
THEOREM HandlersTypeCorrect == Spec => []TypeOK
  BY HandlersInvariant, PTL DEF HandlersInv

\* One timeout or one kill leaves no child executing when start() is over, and
\* no thread that has not been told to stop.
THEOREM OneInterruptStops == Spec => []StoppedBeforeOver
  <1>1. HandlersInv => StoppedBeforeOver
    BY ConstantsAssumption
       DEF HandlersInv, TypeOK, PointsTell, EarlierStopped, ThreadsTold, StoppedBeforeOver, Outlives
  <1>2. QED
    BY <1>1, HandlersInvariant, PTL

\* A result that reached the pipe is read, however close to its delivery the
\* child ends and the loop looks.
THEOREM ResultsAreRead == Spec => []DeliveredResultIsRead
  <1>1. HandlersInv => DeliveredResultIsRead
    BY DEF HandlersInv, PipeTells, DeliveredResultIsRead
  <1>2. QED
    BY <1>1, HandlersInvariant, PTL
=============================================================================
