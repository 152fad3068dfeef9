-------------------------------- MODULE Outbox --------------------------------
(***************************************************************************)
(* What the delivery of results promises, request by request: the abstract *)
(* specification that CallbackManager implements.  One process at a time   *)
(* holds requests in memory; stored ones are in files; the admin may       *)
(* receive a request any number of times before its answer is seen.        *)
(***************************************************************************)
EXTENDS Integers

CONSTANTS Requests, MaxCrashes

VARIABLES
    state,     \* request -> "none", "held", "stored" or "done"
    received,  \* requests the admin has received
    crashes

vars == <<state, received, crashes>>

Init ==
    /\ state = [r \in Requests |-> "none"]
    /\ received = {}
    /\ crashes = 0

Becomes(r, from, to) == state[r] \in from /\ state' = [state EXCEPT ![r] = to]

\* A result is accepted for delivery.
Accept(r) ==
    /\ Becomes(r, {"none"}, "held")
    /\ UNCHANGED <<received, crashes>>

\* Held requests go to files.
Store(S) ==
    /\ \A r \in S : state[r] = "held"
    /\ state' = [r \in Requests |-> IF r \in S THEN "stored" ELSE state[r]]
    /\ UNCHANGED <<received, crashes>>

\* The admin receives what is held or stored, and nothing that is done.
Receive(r) ==
    /\ state[r] \in {"held", "stored"}
    /\ received' = received \union {r}
    /\ UNCHANGED <<state, crashes>>

\* Its answer is seen.
Confirm(r) ==
    /\ r \in received
    /\ Becomes(r, {"held", "stored"}, "done")
    /\ UNCHANGED <<received, crashes>>

\* Only a crash forgets, and only what was held.
Forget ==
    /\ crashes < MaxCrashes
    /\ crashes' = crashes + 1
    /\ state' = [r \in Requests |-> IF state[r] = "held" THEN "none" ELSE state[r]]
    /\ UNCHANGED received

Next ==
    \/ \E r \in Requests : Accept(r) \/ Receive(r) \/ Confirm(r)
    \/ \E S \in SUBSET Requests : Store(S)
    \/ Forget

Spec == Init /\ [][Next]_vars
=============================================================================
