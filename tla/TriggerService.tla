--------------------------- MODULE TriggerService ---------------------------
(***************************************************************************)
(* What the executor promises the admin, with no task, lock, replacement   *)
(* slot or log-id set: each job serves one line of triggers.  The trigger  *)
(* being served is answered once, and the next in line is served in the    *)
(* same step; the only other way out of the line is to be failed with      *)
(* everything else that waits in it, by a newer trigger or by a kill.      *)
(***************************************************************************)
EXTENDS Sequences, Functions

CONSTANTS Jobs, Logs, JobOf, NoLog

VARIABLES
    serving,   \* job -> the trigger being served, or NoLog
    line,      \* job -> the triggers waiting, oldest first
    answer     \* trigger -> "none", "pending", "ok" or "failed"

vars == <<serving, line, answer>>

Init ==
    /\ serving = [j \in Jobs |-> NoLog]
    /\ line = [j \in Jobs |-> <<>>]
    /\ answer = [l \in Logs |-> "none"]

Fresh(l) == answer[l] # "pending"

Serve(l) ==
    /\ Fresh(l)
    /\ serving[JobOf[l]] = NoLog
    /\ serving' = [serving EXCEPT ![JobOf[l]] = l]
    /\ answer' = [answer EXCEPT ![l] = "pending"]
    /\ UNCHANGED line

Join(l) ==
    /\ Fresh(l)
    /\ serving[JobOf[l]] # NoLog
    /\ line' = [line EXCEPT ![JobOf[l]] = Append(@, l)]
    /\ answer' = [answer EXCEPT ![l] = "pending"]
    /\ UNCHANGED serving

\* The newest trigger replaces the whole line.
Replace(l) ==
    LET dropped == Range(line[JobOf[l]]) IN
    /\ Fresh(l)
    /\ serving[JobOf[l]] # NoLog
    /\ line' = [line EXCEPT ![JobOf[l]] = <<l>>]
    /\ answer' = [k \in Logs |-> IF k = l THEN "pending"
                                 ELSE IF k \in dropped THEN "failed"
                                 ELSE answer[k]]
    /\ UNCHANGED serving

Drop(j) ==
    /\ line' = [line EXCEPT ![j] = <<>>]
    /\ answer' = [k \in Logs |-> IF k \in Range(line[j]) THEN "failed" ELSE answer[k]]
    /\ UNCHANGED serving

Answer(j) ==
    /\ serving[j] # NoLog
    /\ \E r \in {"ok", "failed"} : answer' = [answer EXCEPT ![serving[j]] = r]
    /\ serving' = [serving EXCEPT ![j] = IF line[j] = <<>> THEN NoLog ELSE Head(line[j])]
    /\ line' = [line EXCEPT ![j] = IF @ = <<>> THEN @ ELSE Tail(@)]

Next ==
    \/ \E l \in Logs : Serve(l) \/ Join(l) \/ Replace(l)
    \/ \E j \in Jobs : Drop(j) \/ Answer(j)

Spec == Init /\ [][Next]_vars /\ \A j \in Jobs : WF_vars(Answer(j))
=============================================================================
