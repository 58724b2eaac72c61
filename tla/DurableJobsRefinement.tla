------------------------- MODULE DurableJobsRefinement -------------------------
(***************************************************************************)
(* DurableJobs implements JobLifecycle: the owner of a job is the thread   *)
(* whose captured credential still matches the row; it is gone where no    *)
(* thread's does.                                                          *)
(***************************************************************************)
EXTENDS DurableJobs

CONSTANTS Nobody, Gone

ASSUME OwnerAssumption == /\ Nobody \notin Threads
                          /\ Gone \notin Threads \cup {Nobody}

OwnerOf(j) == IF jobs[j].token = NoToken THEN Nobody
              ELSE IF \E t \in Threads : CanWrite(t, j)
                   THEN CHOOSE t \in Threads : CanWrite(t, j)
                   ELSE Gone

Lifecycle == INSTANCE JobLifecycle WITH
                Owners <- Threads,
                status <- [j \in Jobs |-> jobs[j].status],
                attempts <- [j \in Jobs |-> jobs[j].attempt],
                owner <- [j \in Jobs |-> OwnerOf(j)]

\* The queue of store.py and worker.py, with its tokens, leases, heartbeats,
\* crashes and races, is a JobLifecycle: only a job's single owner starts and
\* settles it, and only recovery takes it back.
ImplementsLifecycle == Lifecycle!Spec

=============================================================================
