---------------------------- MODULE Registration ----------------------------
(***************************************************************************)
(* The executor's entry in the admin's registry: the register task of      *)
(* pyxxl/app/runner.py, the first part of the runner's clean-up, and the   *)
(* calls of pyxxl/protocol/admin_client.py they make.  A call asks the     *)
(* admins in the configured order, round after round.                      *)
(*                                                                         *)
(* Granularity.  One attempt at one admin is an action.  The program has   *)
(* one such call at a time: the clean-up cancels the register task before  *)
(* it makes its own.  The admins share one registry (one database).  A     *)
(* request whose attempt failed or was cancelled may have been served, may *)
(* never be, or may be served later.                                       *)
(***************************************************************************)
EXTENDS Integers

CONSTANTS
    Admins,             \* number of admin addresses
    RegistryTries,      \* rounds of a registry call (5 in the code)
    RemoveTries,        \* rounds of a registryRemove call (3 in the code)
    UnexpectedReplies   \* whether an answer with status 200 may be something
                        \* other than an admin's JSON object

ASSUME ConstantsAssumption ==
    /\ {Admins, RegistryTries, RemoveTries} \subseteq Nat \ {0}
    /\ UnexpectedReplies \in BOOLEAN

VARIABLES
    path,         \* the call made last: "registry" or "registryRemove"
    post,         \* where _post stands
    times,        \* the round
    at,           \* the admin that is asked
    failures,     \* what the admins of this round have answered so far
    ended,        \* how the last call ended
    loop,         \* the register task
    cleanup,      \* the runner's clean-up
    registered,   \* external: the admin's registry lists the executor
    late,         \* external: given up by the client, not yet served
    resurrected   \* history: a late registry was served after the clean-up began

callVars == <<path, post, times, at, failures, ended>>
external == <<registered, late, resurrected>>
vars     == <<callVars, loop, cleanup, external>>

Paths == {"registry", "registryRemove"}

Tries == IF path = "registry" THEN RegistryTries ELSE RemoveTries

Untried == [a \in 1..Admins |-> "untried"]

Init ==
    /\ path = "registry"
    /\ post = "asking"
    /\ times = 1
    /\ at = 1
    /\ failures = Untried
    /\ ended = "none"
    /\ loop = "posting"
    /\ cleanup = "serving"
    /\ registered = FALSE
    /\ late = {}
    /\ resurrected = FALSE

-----------------------------------------------------------------------------
(* _post *)

StartPost(p) ==
    /\ path' = p
    /\ post' = "asking"
    /\ times' = 1
    /\ at' = 1
    /\ failures' = Untried
    /\ ended' = "none"

\* Mutant: registry() lets XXLClientError through.
LoopSurvivesOnlySuccess(result) == result = "ok"

\* registry() turns XXLClientError into False and nothing else.
LoopSurvives(result) == result \in {"ok", "failed"}

\* The call ends.  The register task sleeps, unless an exception ends it;
\* registryRemove() catches nothing, so a failure ends the clean-up.
PostEnds(result) ==
    /\ post' = "idle"
    /\ ended' = result
    /\ IF path = "registry"
       THEN /\ loop' = IF LoopSurvives(result) THEN "sleeping" ELSE "died"
            /\ UNCHANGED cleanup
       ELSE /\ cleanup' = IF result = "ok" THEN "closing" ELSE "aborted"
            /\ UNCHANGED loop

AttemptSucceeds ==
    /\ post = "asking"
    /\ registered' = (path = "registry")
    /\ PostEnds("ok")
    /\ UNCHANGED <<path, times, at, failures, late, resurrected>>

\* Mutant: a refusal ends the round.
RoundOverOnRefusal(how) == at = Admins \/ how = "refused"

\* The for loop over the admins goes on after a failure of either kind.
RoundOver(how) == at = Admins

\* had_retryable_error, the attempt that has just failed included.
Retryable(how) ==
    how = "unreachable" \/ \E a \in 1..Admins : failures[a] = "unreachable"

\* Mutant: one round too many.
OneRoundTooMany == times <= Tries

MoreRounds == times < Tries

\* A refusal changes nothing at the admin.  After a connection error or a
\* timeout the request is lost, served without an answer, or still under way.
Aftermath(how) ==
    \/ UNCHANGED <<registered, late>>
    \/ how = "unreachable" /\ registered' = (path = "registry") /\ UNCHANGED late
    \/ how = "unreachable" /\ late' = late \union {path} /\ UNCHANGED registered

AttemptFails(how) ==
    /\ post = "asking"
    /\ failures' = [failures EXCEPT ![at] = how]
    /\ Aftermath(how)
    /\ IF ~RoundOver(how)
       THEN /\ at' = at + 1
            /\ UNCHANGED <<post, ended, loop, cleanup>>
       ELSE /\ UNCHANGED at
            /\ IF Retryable(how) /\ MoreRounds
               THEN post' = "pausing" /\ UNCHANGED <<ended, loop, cleanup>>
               ELSE PostEnds("failed")
    /\ UNCHANGED <<path, times, resurrected>>

\* An answer with status 200 that is no JSON object: response.json() or
\* Response(**...) raises what neither except clause catches.
AttemptRaises ==
    /\ UnexpectedReplies
    /\ post = "asking"
    /\ PostEnds("raised")
    /\ UNCHANGED <<path, times, at, failures, external>>

\* Mutant: the rounds are not counted.
NextRoundUncounted ==
    /\ post = "pausing"
    /\ post' = "asking"
    /\ at' = 1
    /\ failures' = Untried
    /\ UNCHANGED <<path, times, ended, loop, cleanup, external>>

\* The sleep between two rounds is over.
NextRound ==
    /\ post = "pausing"
    /\ post' = "asking"
    /\ times' = times + 1
    /\ at' = 1
    /\ failures' = Untried
    /\ UNCHANGED <<path, ended, loop, cleanup, external>>

-----------------------------------------------------------------------------
(* The runner *)

\* _register_task: sleep(10) is over.
RegisterAgain ==
    /\ loop = "sleeping"
    /\ post = "idle"
    /\ loop' = "posting"
    /\ StartPost("registry")
    /\ UNCHANGED <<cleanup, external>>

\* Mutant: register_task.cancel() is forgotten.
BeginCleanupWithoutCancel ==
    /\ cleanup = "serving"
    /\ post = "idle"
    /\ cleanup' = "removing"
    /\ StartPost("registryRemove")
    /\ UNCHANGED <<loop, external>>

\* _cleanup_ctx after its yield: the register task is cancelled, wherever it
\* is, and registryRemove is posted.
BeginCleanup ==
    /\ cleanup = "serving"
    /\ cleanup' = "removing"
    /\ loop' = IF loop = "died" THEN loop ELSE "cancelled"
    /\ late' \in {late, late \union (IF post = "asking" THEN {path} ELSE {})}
    /\ StartPost("registryRemove")
    /\ UNCHANGED <<registered, resurrected>>

-----------------------------------------------------------------------------
(* The admin *)

LateArrives(p) ==
    /\ p \in late
    /\ late' = late \ {p}
    /\ registered' = (p = "registry")
    /\ resurrected' = (resurrected \/ (p = "registry" /\ cleanup # "serving"))
    /\ UNCHANGED <<callVars, loop, cleanup>>

\* The admin strikes off an executor that has been silent.
Expires ==
    /\ registered
    /\ registered' = FALSE
    /\ UNCHANGED <<callVars, loop, cleanup, late, resurrected>>

-----------------------------------------------------------------------------
Attempt == AttemptSucceeds \/ AttemptRaises \/ \E how \in {"refused", "unreachable"} : AttemptFails(how)

Next ==
    \/ Attempt
    \/ NextRound
    \/ RegisterAgain
    \/ BeginCleanup
    \/ \E p \in Paths : LateArrives(p)
    \/ Expires

Spec == Init /\ [][Next]_vars

\* Attempts time out and sleeps end.  While the executor serves, the admins are
\* not down for ever; nothing is assumed of them at the clean-up.
Fairness ==
    /\ WF_vars(Attempt)
    /\ WF_vars(NextRound)
    /\ WF_vars(RegisterAgain)
    /\ SF_vars(AttemptSucceeds /\ path = "registry")

FairSpec == Spec /\ Fairness

-----------------------------------------------------------------------------
(* Properties *)

\* Every variable stays within its type, and a call makes no more rounds than
\* it is given.
TypeOK ==
    /\ path \in Paths
    /\ post \in {"idle", "asking", "pausing"}
    /\ times \in 1..Tries
    /\ at \in 1..Admins
    /\ failures \in [1..Admins -> {"untried", "refused", "unreachable"}]
    /\ ended \in {"none", "ok", "failed", "raised"}
    /\ loop \in {"posting", "sleeping", "cancelled", "died"}
    /\ cleanup \in {"serving", "removing", "closing", "aborted"}
    /\ registered \in BOOLEAN
    /\ late \in SUBSET Paths
    /\ resurrected \in BOOLEAN

\* A call gives up only when all admins have failed it in one round, and when
\* either the rounds are used up or every admin answered and refused.
FailureIsExhaustive ==
    ended = "failed" =>
        /\ \A a \in 1..Admins : failures[a] # "untried"
        /\ times = Tries \/ \A a \in 1..Admins : failures[a] = "refused"

\* Once registryRemove has succeeded the executor is not listed again, except
\* by a registry request the client had given up and the admin served late.
RemovedStaysRemoved ==
    cleanup = "closing" /\ ~resurrected => ~registered

\* An executor that goes on serving is listed again and again, however often
\* calls fail or the admin strikes it off, if no answer ever raises.
KeepsRegistered ==
    <>[](cleanup = "serving") /\ [](ended # "raised") => []<>registered

\* The same, whatever the admins answer.
RegistersContinually ==
    <>[](cleanup = "serving") => []<>registered

\* The removal comes to an end, whether or not any admin answers.
RemovalSettles ==
    cleanup = "removing" ~> cleanup # "removing"
=============================================================================
