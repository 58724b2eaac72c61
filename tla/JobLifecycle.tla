---------------------------- MODULE JobLifecycle ----------------------------
(***************************************************************************)
(* What the durable queue promises for each job, with no tokens, leases,   *)
(* heartbeats, databases or processes: a job has one owner at a time, only *)
(* that owner starts and settles it, a start counts one attempt, and the   *)
(* queue may take it back to be tried again while an attempt is left.      *)
(***************************************************************************)
EXTENDS JobStatus, Naturals

CONSTANTS Jobs, Owners, Nobody, Gone, MaxAttempts

VARIABLES status, attempts, owner

Init == /\ status = [j \in Jobs |-> "absent"]
        /\ attempts = [j \in Jobs |-> 0]
        /\ owner = [j \in Jobs |-> Nobody]

\* Job j moves to status s, owned by o, having started n times.
Becomes(j, s, o, n) == status'[j] = s /\ owner'[j] = o /\ attempts'[j] = n

Submit(j) == /\ status[j] = "absent"
             /\ \E s \in {"pending", "scheduled"} : Becomes(j, s, Nobody, attempts[j])

Take(j) == /\ status[j] \in ENQUEUED_STATUSES
           /\ \E o \in Owners : Becomes(j, "claimed", o, attempts[j])

Start(j) == /\ status[j] \in {"claimed", "cancel_requested"}
            /\ owner[j] \in Owners
            /\ attempts[j] < MaxAttempts
            /\ Becomes(j, "running", owner[j], attempts[j] + 1)

Settle(j) == /\ status[j] \in {"running", "cancel_requested"}
             /\ owner[j] \in Owners
             /\ \E s \in {"succeeded", "failed", "cancelled",
                          IF attempts[j] < MaxAttempts THEN "retry_wait" ELSE "dead_lettered"} :
                   Becomes(j, s, Nobody, attempts[j])

AskCancel(j) ==
    \/ status[j] \in ENQUEUED_STATUSES /\ Becomes(j, "cancelled", Nobody, attempts[j])
    \/ /\ status[j] \in {"claimed", "running"}
       /\ Becomes(j, "cancel_requested", owner[j], attempts[j])

OwnerVanishes(j) == /\ owner[j] \in Owners
                    /\ Becomes(j, status[j], Gone, attempts[j])

TakeBack(j) ==
    /\ status[j] \in {"claimed", "running"}
    /\ Becomes(j, IF attempts[j] < MaxAttempts THEN "pending" ELSE "dead_lettered",
               Nobody, attempts[j])

Step(j) == \/ Submit(j) \/ Take(j) \/ Start(j) \/ Settle(j) \/ AskCancel(j)
           \/ OwnerVanishes(j) \/ TakeBack(j)

\* Several jobs may move in one transaction (recovery) or event (a crash).
Next == \A j \in Jobs : Step(j) \/ Becomes(j, status[j], owner[j], attempts[j])

Spec == Init /\ [][Next]_<<status, attempts, owner>>

=============================================================================
