------------------------------ MODULE ScoutRun ------------------------------
(***************************************************************************)
(* One Scout and the durable jobs that execute it, on PostgreSQL: the      *)
(* request row (status, run fence, owner) as the routes, the run's         *)
(* admissions (app/jobs/admission.py), the handler's end states and hooks  *)
(* (app/jobs/handlers.py) and a worker's attempt write it.                 *)
(*                                                                         *)
(* The queue is taken at the level DurableJobs refines to: a job has one   *)
(* owner, whose credential is the number of the claim that minted it, and  *)
(* recovery takes a lapsed lease back.  Every action is one committed      *)
(* transaction; the routes that read first and write later, and the        *)
(* attempt's separate transactions, are separate actions.                  *)
(***************************************************************************)
EXTENDS JobStatus, Naturals, FiniteSets

CONSTANTS
    Jobs,        \* execute jobs that may be created for the Scout
    Threads,     \* worker threads
    Editors,     \* concurrent Resume / Run now calls
    Cancellable, \* the jobs an editor may ask to cancel
    Scheduled,   \* whether the Scout has an enabled schedule
    NoJob,
    MaxAttempts, \* Job.max_attempts
    MaxFence,    \* bound: pauses
    MaxFaults    \* bound: crashes and leases that lapse under a live run

ASSUME JobAssumption == Cancellable \subseteq Jobs /\ NoJob \notin Jobs
ASSUME ScheduleAssumption == Scheduled \in BOOLEAN
ASSUME BoundAssumption == MaxAttempts \in Nat \ {0} /\ MaxFence \in Nat /\ MaxFaults \in Nat

VARIABLES
    request, \* the scout_requests row
    jobs,    \* its execute jobs
    runs,    \* each thread's attempt, with what it captured
    editors, \* each route call between its read and its write
    tick,    \* the schedule tick between its read and its write
    faults,
    overwritten \* history: since the last pause, a resume overwrote another status

vars == <<request, jobs, runs, editors, tick, faults, overwritten>>

-----------------------------------------------------------------------------
Settled == {"draft", "completed", "failed"}
InFlight == {"queued", "running"}
RequestStatuses == Settled \cup InFlight \cup {"paused"}

NoOwner == [job |-> NoJob, token |-> 0]
Owner == [job: Jobs, token: Nat \ {0}] \cup {NoOwner}
Request == [status: RequestStatuses, fence: Nat, owner: Owner]

\* How a succeeded job ended (result_summary.outcome).
Outcomes == {"none", "completed", "skipped", "stopped", "lease_lost"}

\* token is 0 while nobody holds the job, else the number of the claim that does.
Row == [status: JobStatuses \cup {"absent"}, attempt: Nat, claims: Nat, token: Nat,
        lease: {"none", "live", "lapsed"}, cancelAsked: BOOLEAN,
        fence: Nat, prior: Settled \cup {"none"}, outcome: Outcomes]
NewRow == [status |-> "absent", attempt |-> 0, claims |-> 0, token |-> 0,
           lease |-> "none", cancelAsked |-> FALSE,
           fence |-> 0, prior |-> "none", outcome |-> "none"]

Freed(r, s) == [r EXCEPT !.status = s, !.token = 0, !.lease = "none"]

\* An attempt: pre is the status its claim of the Scout replaced ("none" before that).
Errors == {"none", "retryable", "fatal", "unresolved", "refused", "unrecorded"}
Run == [pc: {"mark", "start", "claim", "work", "stop", "cancel", "rollback", "fail"},
        job: Jobs, token: Nat \ {0}, pre: RequestStatuses \cup {"none"},
        error: Errors, outcome: Outcomes]
Free == [pc |-> "free", job |-> NoJob, token |-> 0, pre |-> "none",
         error |-> "none", outcome |-> "none"]

Idle == [pc |-> "idle", seen |-> "none"]
Editor == [pc: {"resume", "run"}, seen: RequestStatuses] \cup {Idle}

NoTick == [reading |-> FALSE, fence |-> 0]
Tick == [reading: BOOLEAN, fence: Nat]

Init == /\ request = [status |-> "draft", fence |-> 0, owner |-> NoOwner]
        /\ jobs = [j \in Jobs |-> NewRow]
        /\ runs = [t \in Threads |-> Free]
        /\ editors = [e \in Editors |-> Idle]
        /\ tick = NoTick
        /\ faults = 0
        /\ overwritten = FALSE

-----------------------------------------------------------------------------
\* Who holds what.

LIVE_JOB_STATUSES == ENQUEUED_STATUSES \cup ACTIVE_STATUSES
Live(j) == jobs[j].status \in LIVE_JOB_STATUSES
Fenced(j) == jobs[j].fence # request.fence

\* worker_id and lease_token of the row are the ones the attempt captured.
Holds(t) == jobs[runs[t].job].token = runs[t].token
HoldsJob(t) == Holds(t) /\ jobs[runs[t].job].status \in ACTIVE_STATUSES

Me(t) == [job |-> runs[t].job, token |-> runs[t].token]
IsMe(t) == request.owner = Me(t)

\* _owner_valid: the recorded owner's attempt still holds its job under a live lease.
OwnerValid ==
    /\ request.owner # NoOwner
    /\ LET row == jobs[request.owner.job] IN
          /\ row.status \in {"claimed", "running"}
          /\ row.token = request.owner.token
          /\ row.lease = "live"

\* _cause: why the attempt holds no valid authority, in the order the code asks.
Cause(t) ==
    LET j == runs[t].job
        row == jobs[j]
    IN
    IF request.status = "paused" \/ Fenced(j) THEN "request_paused"
    ELSE IF row.status = "cancel_requested" THEN "cancel_requested"
    ELSE IF row.status \notin {"claimed", "running"} \/ ~Holds(t) THEN "lease_lost"
    ELSE IF row.lease # "live" THEN "lease_lapsed"
    ELSE IF ~IsMe(t) THEN "owner_superseded"
    ELSE IF request.status # "running" THEN "status_changed"
    ELSE "none"

-----------------------------------------------------------------------------
\* Request writes shared by several actions: each is the row after the statement.
\* An operator named ...Bug is a mutant of the one below it.

NoOwnerNow(r) == [r EXCEPT !.owner = NoOwner]

ReleaseOwner(t, r) == IF r.owner = Me(t) /\ HoldsJob(t) THEN NoOwnerNow(r) ELSE r

\* No other execute job can still drive the Scout.
NoRival(j) == \A k \in Jobs \ {j} : Live(k) => Fenced(k)

OwnedBy(j) == request.owner.job \in {j, NoJob}

\* settle_cancelled_request, with idle_status as its target.
CancelSettles(j) == /\ request.status \in InFlight
                    /\ ~Fenced(j)
                    /\ OwnedBy(j)
                    /\ NoRival(j)
IdleStatus(j) == IF jobs[j].prior \in Settled THEN jobs[j].prior ELSE "draft"
SettleCancelled(j) == NoOwnerNow([request EXCEPT !.status = IdleStatus(j)])

\* settle_failed_scout_request, the hook of a final failure.
\* Mutants: a Scout not yet claimed, one of another run, one of another fence.
UnclaimedIgnoredBug(j, r) == r.status = "running" /\ ~Fenced(j) /\ r.owner.job \in {j, NoJob}
OwnerIgnoredBug(j, r) == r.status \in InFlight /\ ~Fenced(j)
FenceIgnoredBug(j, r) == r.status \in InFlight /\ r.owner.job \in {j, NoJob}
FailureSettles(j, r) == r.status \in InFlight /\ ~Fenced(j) /\ r.owner.job \in {j, NoJob}
SettleFailed(r) == NoOwnerNow([r EXCEPT !.status = "failed"])

\* restore_writer: back to the status the claim replaced, unless another job of the
\* Scout is active, the lease lapsed or the Scout moved on.
Restores(t) ==
    LET j == runs[t].job IN
    /\ runs[t].pre # "running"
    /\ request.status = "running"
    /\ ~Fenced(j)
    /\ IsMe(t)
    /\ Holds(t)
    /\ jobs[j].lease = "live"
    /\ jobs[j].status \in {"running", "cancel_requested"}
    /\ \A k \in Jobs \ {j} : jobs[k].status \notin ACTIVE_STATUSES
Restored(t) == NoOwnerNow([request EXCEPT !.status = runs[t].pre])

-----------------------------------------------------------------------------
\* Routes (scouting_requests/routes.py, jobs/routes.py) and the schedule tick.

\* pause_scout_request: paused, a new fence and no owner in one statement, from any
\* status and over any run.
Pause ==
    /\ request.fence < MaxFence
    /\ request' = [status |-> "paused", fence |-> request.fence + 1, owner |-> NoOwner]
    /\ overwritten' = FALSE
    /\ UNCHANGED <<jobs, runs, editors, tick, faults>>

\* resume_scout_request: the status is read ...
ResumeRead(e) ==
    /\ editors[e] = Idle
    /\ request.status = "paused"
    /\ editors' = [editors EXCEPT ![e] = [pc |-> "resume", seen |-> request.status]]
    /\ UNCHANGED <<request, jobs, runs, tick, faults, overwritten>>

\* ... and draft is written by primary key, whatever the row says now.
ResumeWrite(e) ==
    /\ editors[e].pc = "resume"
    /\ request' = [request EXCEPT !.status = "draft"]
    /\ overwritten' = (overwritten \/ request.status # "paused")
    /\ editors' = [editors EXCEPT ![e] = Idle]
    /\ UNCHANGED <<jobs, runs, tick, faults>>

EnqueuedRow(j, fence, prior) ==
    [jobs EXCEPT ![j] = [@ EXCEPT !.status = "pending", !.fence = fence, !.prior = prior]]

\* run_scout_request_endpoint: a settled status is observed ...
RunRead(e) ==
    /\ editors[e] = Idle
    /\ request.status \in Settled
    /\ editors' = [editors EXCEPT ![e] = [pc |-> "run", seen |-> request.status]]
    /\ UNCHANGED <<request, jobs, runs, tick, faults, overwritten>>

\* Mutant: the flip is unconditional.
StillAsReadBug(e) == TRUE
StillAsRead(e) == request.status = editors[e].seen

\* ... and flipped to queued by a compare-and-set whose winner enqueues the job, with
\* the fence and the status it replaced.  A refusal (lost race, budget) writes nothing.
RunWrite(e) ==
    /\ editors[e].pc = "run"
    /\ \/ /\ StillAsRead(e)
          /\ \E j \in Jobs : /\ jobs[j].status = "absent"
                             /\ jobs' = EnqueuedRow(j, request.fence, editors[e].seen)
          /\ request' = [request EXCEPT !.status = "queued"]
       \/ UNCHANGED <<request, jobs>>
    /\ editors' = [editors EXCEPT ![e] = Idle]
    /\ UNCHANGED <<runs, tick, faults, overwritten>>

\* run_schedule_tick: coalesced while an execution is in flight or the Scout is paused ...
TickRead ==
    /\ Scheduled
    /\ ~tick.reading
    /\ request.status # "paused"
    /\ \A j \in Jobs : ~Live(j)
    /\ tick' = [reading |-> TRUE, fence |-> request.fence]
    /\ UNCHANGED <<request, jobs, runs, editors, faults, overwritten>>

\* ... else a job with the fence read; the Scout's status is not touched.
TickWrite ==
    /\ tick.reading
    /\ \E j \in Jobs : /\ jobs[j].status = "absent"
                       /\ jobs' = EnqueuedRow(j, tick.fence, "none")
    /\ tick' = NoTick
    /\ UNCHANGED <<request, runs, editors, faults, overwritten>>

\* cancel_job: an enqueued job is cancelled and its hook settles the Scout in the same
\* transaction; an owned one is left to its owner.
Cancel(j) ==
    /\ j \in Cancellable
    /\ IF jobs[j].status \in ENQUEUED_STATUSES
       THEN /\ jobs' = [jobs EXCEPT ![j] = [Freed(@, "cancelled") EXCEPT !.cancelAsked = TRUE]]
            /\ request' = IF CancelSettles(j) THEN SettleCancelled(j) ELSE request
       ELSE /\ jobs[j].status \in {"claimed", "running"}
            /\ jobs' = [jobs EXCEPT ![j] = [@ EXCEPT !.status = "cancel_requested",
                                                     !.cancelAsked = TRUE]]
            /\ request' = request
    /\ UNCHANGED <<runs, editors, tick, faults, overwritten>>

-----------------------------------------------------------------------------
\* The queue, at the level DurableJobs implements.

ClaimJob(t) ==
    /\ runs[t] = Free
    /\ \E j \in Jobs :
          /\ jobs[j].status \in ENQUEUED_STATUSES
          /\ jobs' = [jobs EXCEPT ![j] =
                        [@ EXCEPT !.status = "claimed", !.claims = jobs[j].claims + 1,
                                  !.token = jobs[j].claims + 1, !.lease = "live"]]
          /\ runs' = [runs EXCEPT ![t] = [Free EXCEPT !.pc = "mark", !.job = j,
                                                      !.token = jobs[j].claims + 1]]
    /\ UNCHANGED <<request, editors, tick, faults, overwritten>>

\* _recover_one for every lapsed lease, with the final-failure hook of each job that is
\* dead-lettered, in the polling thread's transaction.
\* Mutant: a claim that never started is not recovered.
LapsedBug(j) == jobs[j].status = "running" /\ jobs[j].lease = "lapsed"
Lapsed(j) == jobs[j].status \in {"claimed", "running"} /\ jobs[j].lease = "lapsed"
DeadLetters(j) == Lapsed(j) /\ jobs[j].attempt >= MaxAttempts

Recover ==
    /\ \E t \in Threads : runs[t] = Free
    /\ \E j \in Jobs : Lapsed(j)
    /\ jobs' = [j \in Jobs |-> IF DeadLetters(j) THEN Freed(jobs[j], "dead_lettered")
                               ELSE IF Lapsed(j) THEN Freed(jobs[j], "pending")
                               ELSE jobs[j]]
    /\ request' = IF \E j \in Jobs : DeadLetters(j) /\ FailureSettles(j, request)
                  THEN SettleFailed(request)
                  ELSE request
    /\ UNCHANGED <<runs, editors, tick, faults, overwritten>>

\* The lease of a running attempt lapses, or of a row nobody runs any more.
Abandoned(j) == \A t \in Threads : ~(runs[t].job = j /\ Holds(t))
LeaseLapses(j) ==
    /\ jobs[j].lease = "live"
    /\ jobs' = [jobs EXCEPT ![j].lease = "lapsed"]
    /\ \/ Abandoned(j) /\ faults' = faults
       \/ ~Abandoned(j) /\ faults < MaxFaults /\ faults' = faults + 1
    /\ UNCHANGED <<request, runs, editors, tick, overwritten>>

\* A late heartbeat extends a lapsed lease that was not recovered yet.
Beating == {"start", "claim", "work", "stop", "cancel", "rollback", "fail"}
Heartbeat(t) ==
    /\ runs[t].pc \in Beating
    /\ HoldsJob(t)
    /\ jobs[runs[t].job].lease = "lapsed"
    /\ jobs' = [jobs EXCEPT ![runs[t].job].lease = "live"]
    /\ UNCHANGED <<request, runs, editors, tick, faults, overwritten>>

Crash(t) ==
    /\ runs[t] # Free
    /\ faults < MaxFaults
    /\ runs' = [runs EXCEPT ![t] = Free]
    /\ faults' = faults + 1
    /\ UNCHANGED <<request, jobs, editors, tick, overwritten>>

-----------------------------------------------------------------------------
\* One attempt: run_claimed around execute_scout_request and the pipeline.

To(t, pc) == runs' = [runs EXCEPT ![t].pc = pc]
Ends(t) == runs' = [runs EXCEPT ![t] = Free]

\* The attempt's last transaction.  If its fence still holds, the row becomes row and
\* the Scout req; if not, everything is rolled back.
FinalWrite(t, source, row, req) ==
    LET j == runs[t].job IN
    /\ IF Holds(t) /\ jobs[j].status \in source
       THEN jobs' = [jobs EXCEPT ![j] = row] /\ request' = req
       ELSE UNCHANGED <<jobs, request>>
    /\ Ends(t)
    /\ UNCHANGED <<editors, tick, faults, overwritten>>

MarkRunning(t) ==
    LET j == runs[t].job IN
    /\ runs[t].pc = "mark"
    /\ IF Holds(t) /\ jobs[j].status \in {"claimed", "cancel_requested"}
       THEN /\ jobs' = [jobs EXCEPT ![j] = [@ EXCEPT !.status = "running", !.attempt = jobs[j].attempt + 1]]
            /\ To(t, "start")
       ELSE /\ Ends(t)
            /\ jobs' = jobs
    /\ UNCHANGED <<request, editors, tick, faults, overwritten>>

\* The handler's first safe point: its probe reads cancel_requested_at.
Start(t) ==
    /\ runs[t].pc = "start"
    /\ To(t, IF jobs[runs[t].job].cancelAsked THEN "cancel" ELSE "claim")
    /\ UNCHANGED <<request, jobs, editors, tick, faults, overwritten>>

StopsWith(t, outcome) == runs' = [runs EXCEPT ![t].pc = "stop", ![t].outcome = outcome]

\* RunAdmission.claim, a transaction of its own under the job's and the Scout's row
\* locks: refused while paused or fenced, without the job, or over a valid owner.
ClaimScout(t) ==
    LET j == runs[t].job
        recorded == IF request.status \in Settled /\ jobs[j].prior = "none"
                    THEN [jobs EXCEPT ![j].prior = request.status]
                    ELSE jobs
    IN
    /\ runs[t].pc = "claim"
    /\ \/ /\ request.status = "paused" \/ Fenced(j)
          /\ StopsWith(t, "skipped")
          /\ UNCHANGED <<request, jobs>>
       \/ /\ request.status # "paused" /\ ~Fenced(j)
          /\ \/ jobs[j].status \notin {"claimed", "running"} \/ ~Holds(t)
             \/ jobs[j].lease # "live"
          /\ StopsWith(t, "lease_lost")
          /\ UNCHANGED <<request, jobs>>
       \/ /\ request.status # "paused" /\ ~Fenced(j)
          /\ jobs[j].status \in {"claimed", "running"} /\ Holds(t)
          /\ jobs[j].lease = "live"
          /\ jobs' = recorded
          /\ IF OwnerValid
             THEN /\ StopsWith(t, "skipped")
                  /\ request' = request
             ELSE /\ request' = [request EXCEPT !.status = "running", !.owner = Me(t)]
                  /\ runs' = [runs EXCEPT ![t].pc = "work", ![t].pre = request.status]
    /\ UNCHANGED <<editors, tick, faults, overwritten>>

\* A refused admission (before a fetch or model call, after the fetch, at the commit):
\* the handler gives each cause its own end.
Admission(t) ==
    /\ runs[t].pc = "work"
    /\ CASE Cause(t) = "none" -> FALSE
         [] Cause(t) = "cancel_requested" -> To(t, "cancel")
         [] Cause(t) = "lease_lapsed" ->
               runs' = [runs EXCEPT ![t].pc = "rollback", ![t].error = "retryable"]
         [] Cause(t) = "lease_lost" -> StopsWith(t, "lease_lost")
         [] OTHER -> StopsWith(t, "stopped")
    /\ UNCHANGED <<request, jobs, editors, tick, faults, overwritten>>

\* finish and complete: findings, the Scout's result and the job's in one transaction.
Finish(t) ==
    /\ runs[t].pc = "work"
    /\ Cause(t) = "none"
    /\ FinalWrite(t, {"running"},
                  [Freed(jobs[runs[t].job], "succeeded") EXCEPT !.outcome = "completed"],
                  NoOwnerNow([request EXCEPT !.status = "completed"]))

\* The run raised: a classified or unclassified error, an admission left unresolved, or a
\* volume refused at the bound.
Raise(t) ==
    /\ \/ runs[t].pc = "claim" /\ \E e \in {"retryable", "fatal"} :
             runs' = [runs EXCEPT ![t].pc = "rollback", ![t].error = e]
       \/ runs[t].pc = "work" /\ \E e \in {"retryable", "fatal", "unresolved", "refused"} :
             runs' = [runs EXCEPT ![t].pc = "rollback", ![t].error = e]
    /\ UNCHANGED <<request, jobs, editors, tick, faults, overwritten>>

\* _write_after_rollback: restore and release, committed before the failure is recorded;
\* where they cannot be committed the attempt is failed for good.
Rollback(t) ==
    /\ runs[t].pc = "rollback"
    /\ \/ /\ request' =
                IF runs[t].pre = "none" \/ runs[t].error = "refused" THEN request
                ELSE IF runs[t].error # "unresolved" /\ Restores(t) THEN Restored(t)
                ELSE ReleaseOwner(t, request)
          /\ To(t, "fail")
       \/ /\ request' = request
          /\ runs' = [runs EXCEPT ![t].pc = "fail", ![t].error = "unrecorded"]
    /\ UNCHANGED <<jobs, editors, tick, faults, overwritten>>

\* _fail: the refusal's fenced write, the failure transition and, when it is final, the
\* hook that settles the Scout, in one transaction.
Fail(t) ==
    LET j == runs[t].job
        retry == runs[t].error = "retryable" /\ jobs[j].attempt < MaxAttempts
        row == Freed(jobs[j], IF retry THEN "retry_wait"
                              ELSE IF runs[t].error = "retryable" THEN "dead_lettered"
                              ELSE "failed")
        refused == IF /\ runs[t].error = "refused"
                      /\ request.status # "paused" /\ ~Fenced(j) /\ IsMe(t) /\ HoldsJob(t)
                   THEN SettleFailed(request)
                   ELSE request
        settled == IF ~retry /\ FailureSettles(j, refused) THEN SettleFailed(refused)
                   ELSE refused
    IN
    /\ runs[t].pc = "fail"
    /\ FinalWrite(t, {"running", "cancel_requested"}, row, settled)

\* A stop that is not a failure: the owner is released and the job succeeds with it.
Stop(t) ==
    /\ runs[t].pc = "stop"
    /\ FinalWrite(t, {"running", "cancel_requested"},
                  [Freed(jobs[runs[t].job], "succeeded") EXCEPT !.outcome = runs[t].outcome],
                  ReleaseOwner(t, request))

\* The fenced writers and finish_cancel: the Scout goes idle only where the row says
\* cancel_requested.
AcknowledgeCancel(t) ==
    LET j == runs[t].job
        settled == IF jobs[j].status = "cancel_requested" /\ CancelSettles(j)
                   THEN SettleCancelled(j)
                   ELSE request
    IN
    /\ runs[t].pc = "cancel"
    /\ FinalWrite(t, ACTIVE_STATUSES, Freed(jobs[j], "cancelled"),
                  IF runs[t].pre = "none" THEN settled ELSE ReleaseOwner(t, settled))

-----------------------------------------------------------------------------
Edit(e) == ResumeRead(e) \/ ResumeWrite(e) \/ RunRead(e) \/ RunWrite(e)

Attempt(t) ==
    \/ MarkRunning(t) \/ Start(t) \/ ClaimScout(t) \/ Admission(t) \/ Finish(t)
    \/ Raise(t) \/ Rollback(t) \/ Fail(t) \/ Stop(t) \/ AcknowledgeCancel(t)

Next ==
    \/ Pause \/ TickRead \/ TickWrite \/ Recover
    \/ \E e \in Editors : Edit(e)
    \/ \E j \in Jobs : Cancel(j) \/ LeaseLapses(j)
    \/ \E t \in Threads : ClaimJob(t) \/ Attempt(t) \/ Heartbeat(t) \/ Crash(t)

Spec == Init /\ [][Next]_vars

\* Workers poll, attempts proceed and the clock advances; no editor has to act.
Fairness ==
    /\ \A t \in Threads : WF_vars(ClaimJob(t)) /\ WF_vars(Attempt(t))
    /\ WF_vars(Recover)
    /\ \A j \in Jobs : WF_vars(Abandoned(j) /\ LeaseLapses(j))

FairSpec == Spec /\ Fairness

-----------------------------------------------------------------------------
(***************************************************************************)
(* Properties.                                                             *)
(***************************************************************************)

\* The rows, attempts and calls hold values the code can store.
TypeOK ==
    /\ request \in Request
    /\ jobs \in [Jobs -> Row]
    /\ runs \in [Threads -> Run \cup {Free}]
    /\ editors \in [Editors -> Editor]
    /\ tick \in Tick
    /\ faults \in Nat
    /\ overwritten \in BOOLEAN

\* Nothing drives a Scout that is shown queued or running.
Stranded == request.status \in InFlight /\ \A j \in Jobs : Live(j) => Fenced(j)

\* A Scout is left in flight with nothing driving it only after a Cancel ended one of its
\* jobs, a job that had lost its lease before the claim was recorded as succeeded, or a
\* stale resume overwrote its status: never by a crash, a pause, a failure, a refusal, a
\* superseded owner or a dead-lettered lease alone.
StrandedOnlyByStops ==
    Stranded => \/ overwritten
                \/ \E j \in Jobs : /\ ~Fenced(j)
                                 /\ \/ jobs[j].status = "cancelled"
                                    \/ jobs[j].outcome = "lease_lost"

\* While the Scout's owner holds its job under a live lease, only a pause or that
\* attempt itself takes its ownership away: no other run, Cancel, hook or recovery.
ValidOwnerKeepsScout ==
    [][OwnerValid /\ request'.owner # request.owner
         => \/ request'.fence > request.fence
            \/ \E t \in Threads : IsMe(t) /\ runs'[t] # runs[t]]_vars

\* A paused Scout stays paused until somebody resumes it, whatever queued, running,
\* stale or failing runs it still has.
PauseHolds ==
    [][request.status = "paused" /\ request'.status # "paused"
         => \E e \in Editors : editors[e].pc = "resume" /\ editors'[e] = Idle]_vars

\* A run changes the Scout only under the fence its job was enqueued with, so a run from
\* before a pause never settles, restores or completes the Scout after a resume.
OldRunsChangeNothing ==
    [][\A t \in Threads :
         runs[t] # Free /\ runs'[t] # runs[t] /\ request' # request
           => jobs[runs[t].job].fence = request.fence]_vars

\* A worker that died after a Cancel leaves its job cancel_requested for ever.
CancelLeft == \E j \in Jobs : jobs[j].status = "cancel_requested" /\ Abandoned(j)

\* A Scout that is queued or running ends settled or paused, through crashes and
\* recoveries, unless it is stranded or its Cancel was left behind.
RunsSettle ==
    []<>(request.status \notin InFlight \/ Stranded \/ CancelLeft)

=============================================================================
