-------------------------- MODULE RegistrationProofs --------------------------
(***************************************************************************)
(* Proofs about Registration, for every number of admins and of rounds,    *)
(* with or without replies that raise.                                     *)
(***************************************************************************)
EXTENDS Registration, TLAPS

-----------------------------------------------------------------------------
(* The inductive invariant *)

\* The admins before the one that is asked have failed the call in this round,
\* the others are still to be asked; between two rounds all have failed it.
RoundProgress ==
    /\ post = "asking" => \A a \in 1..Admins : failures[a] = "untried" <=> a >= at
    /\ post = "pausing" => times < Tries
    /\ ended = "failed" => post = "idle"

\* The register task and the clean-up do not call at the same time: from the
\* beginning of the clean-up on only registryRemove is called, and when it is
\* over nothing is.
OneCaller ==
    /\ path = "registry" <=> cleanup = "serving"
    /\ cleanup # "serving" => loop \in {"cancelled", "died"}
    /\ cleanup \in {"closing", "aborted"} => post = "idle"

RegistrationInv ==
    /\ TypeOK
    /\ RoundProgress
    /\ OneCaller
    /\ FailureIsExhaustive
    /\ RemovedStaysRemoved

-----------------------------------------------------------------------------
\* Where a process starts.
LEMMA RegistrationInit == Init => RegistrationInv
  <1> SUFFICES ASSUME Init PROVE RegistrationInv
    OBVIOUS
  <1>1. Admins \in Nat \ {0} /\ RegistryTries \in Nat \ {0}
    BY ConstantsAssumption
  <1>2. TypeOK
    <2>1. times \in 1..Tries /\ at \in 1..Admins
      BY <1>1 DEF Init, Tries
    <2>2. failures \in [1..Admins -> {"untried", "refused", "unreachable"}]
      BY DEF Init, Untried
    <2>3. QED
      BY <2>1, <2>2 DEF Init, TypeOK, Paths
  <1>3. RoundProgress
    BY <1>1 DEF Init, RoundProgress, Untried
  <1>4. QED
    BY <1>2, <1>3 DEF Init, RegistrationInv, OneCaller, FailureIsExhaustive, RemovedStaysRemoved

\* The start of a call, whichever it is, is the start of its first round.
LEMMA StartPostKeeps ==
    ASSUME RegistrationInv, NEW p \in Paths, StartPost(p)
    PROVE  /\ path' = p /\ post' = "asking" /\ times' \in 1..Tries' /\ at' \in 1..Admins
           /\ failures' \in [1..Admins -> {"untried", "refused", "unreachable"}]
           /\ ended' = "none"
           /\ RoundProgress' /\ FailureIsExhaustive'
  BY ConstantsAssumption
     DEF StartPost, Untried, Tries, Paths, RoundProgress, FailureIsExhaustive

\* The end of a call, whatever its result, belongs to the caller.
LEMMA PostEndsKeeps ==
    ASSUME RegistrationInv, post = "asking", NEW r \in {"ok", "failed", "raised"}, PostEnds(r),
           path' = path
    PROVE  /\ post' = "idle" /\ ended' = r
           /\ loop' \in {"posting", "sleeping", "cancelled", "died"}
           /\ cleanup' \in {"serving", "removing", "closing", "aborted"}
           /\ cleanup' = "closing" => r = "ok" /\ path = "registryRemove"
           /\ OneCaller'
  BY DEF PostEnds, LoopSurvives, RegistrationInv, TypeOK, OneCaller, Paths

\* An attempt that fails moves on to the next admin, to the sleep before the
\* next round, or to the end of the call.
LEMMA AttemptFailsKeeps ==
    ASSUME RegistrationInv, NEW how \in {"refused", "unreachable"}, AttemptFails(how)
    PROVE  RegistrationInv'
  <1>1. /\ post = "asking" /\ UNCHANGED <<path, times, resurrected>>
        /\ failures' = [failures EXCEPT ![at] = how]
    BY DEF AttemptFails
  <1>2. /\ registered' \in BOOLEAN /\ late' \in SUBSET Paths
        /\ failures' \in [1..Admins -> {"untried", "refused", "unreachable"}]
    BY <1>1 DEF AttemptFails, Aftermath, RegistrationInv, TypeOK, Paths
  <1>3. failures'[at] = how /\ \A a \in 1..Admins \ {at} : failures'[a] = failures[a]
    BY <1>1 DEF RegistrationInv, TypeOK
  <1>4. CASE ~RoundOver(how)
    <2>1. /\ at' = at + 1 /\ at' \in 1..Admins
          /\ UNCHANGED <<post, ended, loop, cleanup>>
      BY <1>4, ConstantsAssumption DEF AttemptFails, RoundOver, RegistrationInv, TypeOK
    <2>2. TypeOK'
      BY <1>1, <1>2, <2>1 DEF RegistrationInv, TypeOK, Tries
    <2>3. RoundProgress'
      BY <1>1, <1>3, <2>1 DEF RegistrationInv, TypeOK, RoundProgress
    <2>4. OneCaller' /\ FailureIsExhaustive' /\ RemovedStaysRemoved'
      BY <1>1, <2>1
         DEF RegistrationInv, OneCaller, RoundProgress, FailureIsExhaustive, RemovedStaysRemoved
    <2>5. QED
      BY <2>2, <2>3, <2>4 DEF RegistrationInv
  <1>5. CASE RoundOver(how) /\ Retryable(how) /\ MoreRounds
    <2>1. post' = "pausing" /\ UNCHANGED <<at, ended, loop, cleanup>>
      BY <1>5 DEF AttemptFails
    <2>2. TypeOK'
      BY <1>1, <1>2, <2>1 DEF RegistrationInv, TypeOK, Tries
    <2>3. RoundProgress'
      BY <1>1, <1>5, <2>1 DEF RegistrationInv, RoundProgress, MoreRounds, Tries
    <2>4. OneCaller' /\ FailureIsExhaustive' /\ RemovedStaysRemoved'
      BY <1>1, <2>1
         DEF RegistrationInv, OneCaller, RoundProgress, FailureIsExhaustive, RemovedStaysRemoved
    <2>5. QED
      BY <2>2, <2>3, <2>4 DEF RegistrationInv
  <1>6. CASE RoundOver(how) /\ ~(Retryable(how) /\ MoreRounds)
    <2>1. PostEnds("failed") /\ UNCHANGED at
      BY <1>6 DEF AttemptFails
    <2>2. /\ post' = "idle" /\ ended' = "failed"
          /\ loop' \in {"posting", "sleeping", "cancelled", "died"}
          /\ cleanup' \in {"serving", "removing", "closing", "aborted"} \ {"closing"}
          /\ OneCaller'
      BY <1>1, <2>1, PostEndsKeeps
    <2>3. TypeOK'
      BY <1>1, <1>2, <2>1, <2>2 DEF RegistrationInv, TypeOK, Tries
    <2>4. \A a \in 1..Admins : failures'[a] # "untried"
      BY <1>1, <1>3, <1>6 DEF RoundOver, RegistrationInv, TypeOK, RoundProgress
    <2>5. ~MoreRounds => times' = Tries'
      <3>1. times \in 1..Tries /\ Tries \in Nat /\ Tries' = Tries /\ times' = times
        BY <1>1, ConstantsAssumption DEF RegistrationInv, TypeOK, Tries
      <3>2. QED
        BY <3>1 DEF MoreRounds
    <2>6. ~Retryable(how) => \A a \in 1..Admins : failures'[a] = "refused"
      BY <1>2, <1>3, <2>4 DEF Retryable
    <2>7. FailureIsExhaustive'
      BY <1>6, <2>4, <2>5, <2>6 DEF FailureIsExhaustive
    <2>8. RoundProgress' /\ RemovedStaysRemoved'
      BY <2>2 DEF RoundProgress, RemovedStaysRemoved
    <2>9. QED
      BY <2>2, <2>3, <2>7, <2>8 DEF RegistrationInv
  <1>7. QED
    BY <1>4, <1>5, <1>6

\* Every step keeps the invariant.
LEMMA RegistrationStep ==
    ASSUME RegistrationInv, [Next]_vars
    PROVE  RegistrationInv'
  <1> USE DEF RegistrationInv
  <1>1. CASE AttemptSucceeds
    <2>1. post = "asking" /\ PostEnds("ok") /\ registered' = (path = "registry")
          /\ UNCHANGED <<path, times, at, failures, late, resurrected>>
      BY <1>1 DEF AttemptSucceeds
    <2>2. /\ post' = "idle" /\ ended' = "ok" /\ OneCaller'
          /\ loop' \in {"posting", "sleeping", "cancelled", "died"}
          /\ cleanup' \in {"serving", "removing", "closing", "aborted"}
          /\ cleanup' = "closing" => path = "registryRemove"
      BY <2>1, PostEndsKeeps
    <2>3. TypeOK'
      BY <2>1, <2>2 DEF TypeOK, Tries
    <2>4. QED
      BY <2>1, <2>2, <2>3 DEF RoundProgress, FailureIsExhaustive, RemovedStaysRemoved
  <1>2. CASE AttemptRaises
    <2>1. post = "asking" /\ PostEnds("raised")
          /\ UNCHANGED <<path, times, at, failures, external>>
      BY <1>2 DEF AttemptRaises
    <2>2. /\ post' = "idle" /\ ended' = "raised" /\ OneCaller'
          /\ loop' \in {"posting", "sleeping", "cancelled", "died"}
          /\ cleanup' \in {"serving", "removing", "closing", "aborted"} \ {"closing"}
      BY <2>1, PostEndsKeeps
    <2>3. TypeOK'
      BY <2>1, <2>2 DEF TypeOK, Tries, external
    <2>4. QED
      BY <2>1, <2>2, <2>3 DEF RoundProgress, FailureIsExhaustive, RemovedStaysRemoved
  <1>3. ASSUME NEW how \in {"refused", "unreachable"}, AttemptFails(how)
        PROVE  RegistrationInv'
    BY <1>3, AttemptFailsKeeps
  <1>4. CASE NextRound
    <2>1. TypeOK'
      BY <1>4, ConstantsAssumption DEF NextRound, TypeOK, RoundProgress, Untried, Tries, external
    <2>2. RoundProgress'
      BY <1>4, ConstantsAssumption DEF NextRound, RoundProgress, Untried, Tries
    <2>3. QED
      BY <1>4, <2>1, <2>2
         DEF NextRound, OneCaller, RoundProgress, FailureIsExhaustive, RemovedStaysRemoved, external
  <1>5. CASE RegisterAgain
    <2>1. StartPost("registry") /\ cleanup = "serving" /\ loop' = "posting"
          /\ UNCHANGED <<cleanup, external>>
      BY <1>5 DEF RegisterAgain, OneCaller
    <2>2. /\ path' = "registry" /\ post' = "asking" /\ RoundProgress' /\ FailureIsExhaustive'
          /\ TypeOK'
      BY <2>1, StartPostKeeps DEF TypeOK, Paths, external
    <2>3. QED
      BY <2>1, <2>2 DEF OneCaller, RemovedStaysRemoved
  <1>6. CASE BeginCleanup
    <2>1. StartPost("registryRemove") /\ cleanup' = "removing" /\ loop' \in {"died", "cancelled"}
          /\ late' \in SUBSET Paths
          /\ UNCHANGED <<registered, resurrected>>
      BY <1>6 DEF BeginCleanup, TypeOK
    <2>2. /\ path' = "registryRemove" /\ post' = "asking" /\ RoundProgress' /\ FailureIsExhaustive'
          /\ TypeOK'
      BY <2>1, StartPostKeeps DEF TypeOK, Paths
    <2>3. QED
      BY <2>1, <2>2 DEF OneCaller, RemovedStaysRemoved
  <1>7. ASSUME NEW p \in Paths, LateArrives(p) PROVE RegistrationInv'
    BY <1>7 DEF LateArrives, callVars, TypeOK, Tries, RoundProgress, OneCaller,
                FailureIsExhaustive, RemovedStaysRemoved
  <1>8. CASE Expires
    BY <1>8 DEF Expires, callVars, TypeOK, Tries, RoundProgress, OneCaller,
                FailureIsExhaustive, RemovedStaysRemoved
  <1>9. CASE UNCHANGED vars
    BY <1>9 DEF vars, external, callVars, TypeOK, Tries, RoundProgress, OneCaller,
                FailureIsExhaustive, RemovedStaysRemoved
  <1>10. QED
    BY <1>1, <1>2, <1>3, <1>4, <1>5, <1>6, <1>7, <1>8, <1>9 DEF Next, Attempt

\* The inductive invariant is an invariant of the specification.
THEOREM RegistrationInvariant == Spec => []RegistrationInv
  BY RegistrationInit, RegistrationStep, PTL DEF Spec

-----------------------------------------------------------------------------
(* The theorems *)

\* Type correctness; no call makes more rounds than it is given.
THEOREM RegistrationTypeCorrect == Spec => []TypeOK
  BY RegistrationInvariant, PTL DEF RegistrationInv

\* A call gives up only after every admin has failed it in the same round, and
\* only in the last round or when all of them refused.
THEOREM GivesUpOnlyWhenItMust == Spec => []FailureIsExhaustive
  BY RegistrationInvariant, PTL DEF RegistrationInv

\* Once removed, the executor is listed again by nothing but a late request
\* that was on its way: neither by the register task nor by the clean-up.
THEOREM RemovalHolds == Spec => []RemovedStaysRemoved
  BY RegistrationInvariant, PTL DEF RegistrationInv
=============================================================================
