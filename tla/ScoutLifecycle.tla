---------------------------- MODULE ScoutLifecycle ----------------------------
(***************************************************************************)
(* What a Scout promises its customer and its runs, with no routes between *)
(* a read and a write, no leases, tokens, hooks or retries: a pause starts *)
(* a new epoch and dismisses the owner; a job belongs to the epoch it was  *)
(* enqueued in; only a job of the current epoch takes the Scout over or    *)
(* settles it, never a paused one and never over another job's run.        *)
(***************************************************************************)
EXTENDS Naturals

CONSTANTS Jobs,
          Attempts, \* attempts of jobs: a.job is the job of attempt a
          Nobody

VARIABLES status, epoch, owner,
          jobEpoch \* of each job enqueued so far

vars == <<status, epoch, owner, jobEpoch>>

Settled == {"draft", "completed", "failed"}
InFlight == {"queued", "running"}

Init == /\ status = "draft"
        /\ epoch = 0
        /\ owner = Nobody
        /\ jobEpoch = [j \in {} |-> 0]

Current(j) == j \in DOMAIN jobEpoch /\ jobEpoch[j] = epoch

Enqueue(j, e) ==
    /\ j \notin DOMAIN jobEpoch
    /\ jobEpoch' = [k \in DOMAIN jobEpoch \cup {j} |-> IF k = j THEN e ELSE jobEpoch[k]]

-----------------------------------------------------------------------------
\* The customer and the schedule.

Pause == /\ status' = "paused"
         /\ epoch' = epoch + 1
         /\ owner' = Nobody
         /\ UNCHANGED jobEpoch

\* It may come late, over whatever the Scout has become.
Resume == status' = "draft" /\ UNCHANGED <<epoch, owner, jobEpoch>>

RunNow(j) == /\ status \in Settled
             /\ status' = "queued"
             /\ Enqueue(j, epoch)
             /\ UNCHANGED <<epoch, owner>>

\* A tick may enqueue for an epoch that is over.
Schedule(j) == /\ \E e \in 0 .. epoch : Enqueue(j, e)
               /\ UNCHANGED <<status, epoch, owner>>

-----------------------------------------------------------------------------
\* The runs.

\* An attempt takes the Scout over, and is not the one that has it.
Begin == /\ status # "paused"
         /\ status' = "running"
         /\ owner' \in Attempts \ {owner}
         /\ Current(owner'.job)
         /\ UNCHANGED <<epoch, jobEpoch>>

\* Job j ends: completed, failed or cancelled, by itself or on its behalf.
Settle(j) == /\ status \in InFlight
             /\ Current(j)
             /\ owner = Nobody \/ owner.job = j
             /\ status' \in Settled
             /\ owner' = Nobody
             /\ UNCHANGED <<epoch, jobEpoch>>

\* The owner leaves the Scout as it is, ...
Release == owner # Nobody /\ owner' = Nobody /\ UNCHANGED <<status, epoch, jobEpoch>>

\* ... gives it back to be tried again, ...
Return == /\ owner # Nobody
          /\ status = "running" /\ status' = "queued"
          /\ owner' = Nobody
          /\ UNCHANGED <<epoch, jobEpoch>>

\* ... or refuses it for good, even one that was resumed under it.
Refuse == /\ owner # Nobody
          /\ status # "paused" /\ status' = "failed"
          /\ owner' = Nobody
          /\ UNCHANGED <<epoch, jobEpoch>>

Next == \/ Pause \/ Resume \/ Begin \/ Release \/ Return \/ Refuse
        \/ \E j \in Jobs : RunNow(j) \/ Schedule(j) \/ Settle(j)

Spec == Init /\ [][Next]_vars

===============================================================================
