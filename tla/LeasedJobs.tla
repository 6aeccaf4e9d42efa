----------------------------- MODULE LeasedJobs -----------------------------
(***************************************************************************)
(* What the job queue promises its producers and handlers, with no stream, *)
(* no time and no retries in sight: an accepted job is leased to one       *)
(* worker at a time, under a grant number that only grows; only the worker *)
(* holding the lease hands the job back or settles it; a lease is granted  *)
(* again only once its holder is gone; a settled job stays settled.        *)
(***************************************************************************)
EXTENDS Naturals

CONSTANTS Jobs, Workers, Nobody

VARIABLES
    state,   \* the promise kept for each job
    grants,  \* how often each job was leased
    holder   \* the worker that holds each job's lease, or Nobody

vars == <<state, grants, holder>>

Init ==
    /\ state = [j \in Jobs |-> "absent"]
    /\ grants = [j \in Jobs |-> 0]
    /\ holder = [j \in Jobs |-> Nobody]

Accept(j) ==
    /\ state[j] = "absent"
    /\ state' = [state EXCEPT ![j] = "waiting"]
    /\ UNCHANGED <<grants, holder>>

Grant(j, w) ==
    /\ state[j] \in {"waiting", "leased"} /\ holder[j] = Nobody
    /\ state' = [state EXCEPT ![j] = "leased"]
    /\ grants' = [grants EXCEPT ![j] = @ + 1]
    /\ holder' = [holder EXCEPT ![j] = w]

\* The holder ends its lease: the job is settled, or waits to be leased again.
Release(j, outcome) ==
    /\ state[j] = "leased" /\ holder[j] # Nobody
    /\ state' = [state EXCEPT ![j] = outcome]
    /\ holder' = [holder EXCEPT ![j] = Nobody]
    /\ UNCHANGED grants

\* The holder dies, leaving the job leased to nobody.
Vanish(w) ==
    /\ \E j \in Jobs : holder[j] = w
    /\ holder' = [j \in Jobs |-> IF holder[j] = w THEN Nobody ELSE holder[j]]
    /\ UNCHANGED <<state, grants>>

\* Supervision takes back a lease nobody holds.
Recover(j, outcome) ==
    /\ state[j] = "leased" /\ holder[j] = Nobody
    /\ state' = [state EXCEPT ![j] = outcome]
    /\ UNCHANGED <<grants, holder>>

\* Retention: nothing is remembered of a settled job, and it never comes back.
Forget(j) ==
    /\ state[j] = "settled"
    /\ state' = [state EXCEPT ![j] = "forgotten"]
    /\ grants' = [grants EXCEPT ![j] = 0]
    /\ UNCHANGED holder

Next ==
    \/ \E j \in Jobs : Accept(j) \/ Forget(j)
    \/ \E j \in Jobs, w \in Workers : Grant(j, w)
    \/ \E j \in Jobs, outcome \in {"waiting", "settled"} : Release(j, outcome) \/ Recover(j, outcome)
    \/ \E w \in Workers : Vanish(w)

Spec == Init /\ [][Next]_vars
=============================================================================
