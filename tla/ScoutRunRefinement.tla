-------------------------- MODULE ScoutRunRefinement --------------------------
(***************************************************************************)
(* ScoutRun implements ScoutLifecycle: the epoch is the run fence of the   *)
(* row, a job's epoch the fence it was enqueued with.                      *)
(***************************************************************************)
EXTENDS ScoutRun

Enqueued == {j \in Jobs : jobs[j].status # "absent"}

Lifecycle == INSTANCE ScoutLifecycle WITH
                Attempts <- [job: Jobs, token: Nat \ {0}],
                Nobody <- NoOwner,
                status <- request.status,
                epoch <- request.fence,
                owner <- request.owner,
                jobEpoch <- [j \in Enqueued |-> jobs[j].fence]

\* The routes, the tick, the admissions of attempts, their ends and the hooks of
\* cancellation and recovery (admission.py, handlers.py), interleaved with crashes,
\* lapsed leases and rollbacks, are a ScoutLifecycle.
ImplementsScoutLifecycle == Lifecycle!Spec

===============================================================================
