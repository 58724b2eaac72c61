----------------------------- MODULE DurableJobs -----------------------------
(***************************************************************************)
(* The durable job queue: the rows of the jobs table as app/jobs/store.py  *)
(* changes them, driven by the worker threads of app/jobs/worker.py, the   *)
(* heartbeat thread of each run and the cancel route of app/jobs/routes.py.*)
(*                                                                         *)
(* Every action is one committed transaction or one read whose answer is   *)
(* used later.  Time is abstract: a lease is "live" or "lapsed" (its       *)
(* lease_expires_at lies before the reader's now) and a job is due or not  *)
(* (available_at).  A lease token is an opaque nonce: a claim mints one    *)
(* that no row, thread or heartbeat still holds.                           *)
(***************************************************************************)
EXTENDS JobStatus, Naturals, FiniteSets

CONSTANTS
    Jobs,          \* job rows that may be enqueued
    Uncancellable, \* jobs whose type customers may not cancel (retention.purge)
    Workers,       \* worker processes; the id is stable across restarts
    Threads,       \* worker threads of all processes
    ProcessOf,     \* the process each thread belongs to
    Tokens,        \* lease-token nonces
    Cancellers,    \* concurrent cancel requests
    NoWorker, NoToken, NoJob,
    MaxAttempts,   \* Job.max_attempts, the same for every job
    MaxFaults,     \* bound: crashes, shutdowns and leases that lapse under a live owner
    Dialect        \* "postgresql" (row locks) or "sqlite" (compare-and-set)

ASSUME ProcessAssumption == ProcessOf \in [Threads -> Workers]
ASSUME NullAssumption == /\ NoWorker \notin Workers
                         /\ NoToken \notin Tokens
                         /\ NoJob \notin Jobs
ASSUME AttemptAssumption == MaxAttempts \in Nat \ {0}
ASSUME FaultAssumption == MaxFaults \in Nat
ASSUME DialectAssumption == Dialect \in {"postgresql", "sqlite"}

VARIABLES
    jobs,     \* the jobs table
    threads,  \* each worker thread: where it is and the credential it captured
    beats,    \* each run's heartbeat thread
    cancels,  \* each cancel request in progress
    up,       \* each process: "up", "draining" or "down"
    faults    \* faults so far

vars == <<jobs, threads, beats, cancels, up, faults>>

-----------------------------------------------------------------------------
\* Rows and credentials.

Lease == {"none", "live", "lapsed"}

Row == [status: JobStatuses \cup {"absent"}, attempt: Nat,
        worker: Workers \cup {NoWorker}, token: Tokens \cup {NoToken},
        lease: Lease, due: BOOLEAN, cancelAsked: BOOLEAN]

NewRow == [status |-> "absent", attempt |-> 0, worker |-> NoWorker,
           token |-> NoToken, lease |-> "none", due |-> FALSE,
           cancelAsked |-> FALSE]

\* Terminal and requeueing writes clear worker_id, lease_token, lease_expires_at.
Released(r, s) == [r EXCEPT !.status = s, !.worker = NoWorker,
                            !.token = NoToken, !.lease = "none"]

TokensInUse == {jobs[j].token : j \in Jobs} \cup {threads[t].token : t \in Threads}
                    \cup {beats[t].token : t \in Threads}

\* _new_lease_token: a nonce equal to none that anyone still holds.
FreshTokens == Tokens \ TokensInUse

\* A candidate a polling thread read before writing (SQLite only).
Candidates == [job: Jobs, status: JobStatuses, attempt: Nat]

\* A thread between jobs holds nothing; one running a job holds the credential it
\* captured at the claim, whatever has happened to the row since.
IdlePcs == {"poll", "recover", "claim", "cas", "dead"}
BusyPcs == {"mark", "run", "settle"}
Errors == {"none", "retryable", "fatal", "cancelled"}
IdleThread == [pc: IdlePcs, job: {NoJob}, token: {NoToken}, error: {"none"},
               read: SUBSET Candidates]
BusyThread == [pc: BusyPcs, job: Jobs, token: Tokens, error: Errors, read: {{}}]
Thread == IdleThread \cup BusyThread

At(pc) == [pc |-> pc, job |-> NoJob, token |-> NoToken, error |-> "none", read |-> {}]

LiveBeat == [pc: {"wait", "write"}, job: Jobs, token: Tokens]
NoBeat == [pc |-> "off", job |-> NoJob, token |-> NoToken]
Beat == LiveBeat \cup {NoBeat}

MaxCancelTries == 3
\* Terminal or already requested: request_cancel has nothing to do.
OpenToCancel == ENQUEUED_STATUSES \cup {"claimed", "running"}
LiveCancel == [pc: {"cas"}, job: Jobs, seen: OpenToCancel, tries: 1..MaxCancelTries]
NoCancel == [pc |-> "idle", job |-> NoJob, seen |-> "absent", tries |-> 0]
Cancel == LiveCancel \cup {NoCancel}

\* Mutant: fenced by the worker id alone, which survives a restart.
OwnsBug(t, token, j) == jobs[j].worker = ProcessOf[t]
\* The ownership predicate inside _fenced_update's WHERE clause.
Owns(t, token, j) == /\ jobs[j].worker = ProcessOf[t]
                     /\ jobs[j].token = token

\* Mutant: only the status is compared.
FencedUpdateBug(t, j, source) == jobs[j].status \in source
\* _fenced_update: the write matches while the captured credential is the row's.
FencedUpdate(t, j, source) == /\ Owns(t, threads[t].token, j)
                              /\ jobs[j].status \in source

-----------------------------------------------------------------------------
Init == /\ jobs = [j \in Jobs |-> NewRow]
        /\ threads = [t \in Threads |-> At("poll")]
        /\ beats = [t \in Threads |-> NoBeat]
        /\ cancels = [c \in Cancellers |-> NoCancel]
        /\ up = [w \in Workers |-> "up"]
        /\ faults = 0

\* enqueue: a row that is due at once, or scheduled for later.
Enqueue(j) ==
    /\ jobs[j].status = "absent"
    /\ \E future \in BOOLEAN :
          jobs' = [jobs EXCEPT ![j] =
                     [@ EXCEPT !.status = IF future THEN "scheduled" ELSE "pending",
                               !.due = ~future]]
    /\ UNCHANGED <<threads, beats, cancels, up, faults>>

\* The clock passes available_at.
BecomeDue(j) ==
    /\ jobs[j].status \in ENQUEUED_STATUSES
    /\ ~jobs[j].due
    /\ jobs' = [jobs EXCEPT ![j].due = TRUE]
    /\ UNCHANGED <<threads, beats, cancels, up, faults>>

Abandoned(j) == /\ jobs[j].token # NoToken
                /\ \A t \in Threads : threads[t].token # jobs[j].token

\* The clock passes lease_expires_at: because the owner is gone, or although it
\* is alive (its heartbeats were delayed or stopped).
LeaseLapses(j) ==
    /\ jobs[j].lease = "live"
    /\ jobs' = [jobs EXCEPT ![j].lease = "lapsed"]
    /\ \/ Abandoned(j) /\ faults' = faults
       \/ ~Abandoned(j) /\ faults < MaxFaults /\ faults' = faults + 1
    /\ UNCHANGED <<threads, beats, cancels, up>>

-----------------------------------------------------------------------------
\* poll_once: recover expired leases, claim a due job, run it.

\* Mutant: the stop flag is never read.
MayPollBug(t) == threads[t].pc = "poll" /\ up[ProcessOf[t]] # "down"
\* _loop reads the stop flag only between polls.
MayPoll(t) == threads[t].pc = "poll" /\ up[ProcessOf[t]] = "up"

\* Mutant: the lease is not consulted.
ExpiredBug(j) == jobs[j].status \in {"claimed", "running"}
\* Mutant: a claim that never started is not recovered.
ExpiredRunningBug(j) == jobs[j].status = "running" /\ jobs[j].lease = "lapsed"
\* _recovery_candidates_select: cancel_requested rows are never recovered.
Expired(j) == /\ jobs[j].status \in {"claimed", "running"}
              /\ jobs[j].lease = "lapsed"

\* _recover_one: requeue while the attempts the loop read leave one, else dead-letter.
RecoveredRow(r, attemptRead) ==
    IF attemptRead < MaxAttempts
    THEN [Released(r, "pending") EXCEPT !.due = TRUE]
    ELSE Released(r, "dead_lettered")

\* PostgreSQL: rows are selected FOR UPDATE SKIP LOCKED, so read and write are one.
RecoverLocked(t) ==
    /\ Dialect = "postgresql"
    /\ MayPoll(t)
    /\ jobs' = [j \in Jobs |-> IF Expired(j)
                               THEN RecoveredRow(jobs[j], jobs[j].attempt)
                               ELSE jobs[j]]
    /\ threads' = [threads EXCEPT ![t] = At("claim")]
    /\ UNCHANGED <<beats, cancels, up, faults>>

Candidate(j) == [job |-> j, status |-> jobs[j].status, attempt |-> jobs[j].attempt]

\* SQLite: the rows are read first, without a lock ...
RecoverSelect(t) ==
    /\ Dialect = "sqlite"
    /\ MayPoll(t)
    /\ threads' = [threads EXCEPT ![t] =
                     [At("recover") EXCEPT !.read = {Candidate(j) : j \in {k \in Jobs : Expired(k)}}]]
    /\ UNCHANGED <<jobs, beats, cancels, up, faults>>

\* ... and each is then written where it is still claimed/running and expired; the
\* target was decided from the attempt count that was read.
RecoverCompareAndSet(t) ==
    /\ threads[t].pc = "recover"
    /\ jobs' = [j \in Jobs |->
                  IF Expired(j) /\ \E c \in threads[t].read : c.job = j
                  THEN RecoveredRow(jobs[j], (CHOOSE c \in threads[t].read : c.job = j).attempt)
                  ELSE jobs[j]]
    /\ threads' = [threads EXCEPT ![t] = At("claim")]
    /\ UNCHANGED <<beats, cancels, up, faults>>

\* A loop's "now" is fixed: a lease extended after the read is not expired for it.
WithoutCandidate(j) ==
    [t \in Threads |-> IF threads[t].pc = "recover"
                       THEN [threads[t] EXCEPT !.read = {c \in @ : c.job # j}]
                       ELSE threads[t]]

\* _due_candidates_select.
Due(j) == jobs[j].status \in ENQUEUED_STATUSES /\ jobs[j].due

\* The claim UPDATE and its commit: a fresh token, this worker, a live lease.
\* The attempt is not counted here.
ClaimRow(t, j) ==
    \E token \in FreshTokens :
        /\ jobs' = [jobs EXCEPT ![j] =
                      [@ EXCEPT !.status = "claimed", !.worker = ProcessOf[t],
                                !.token = token, !.lease = "live"]]
        /\ threads' = [WithoutCandidate(j) EXCEPT ![t] =
                         [At("mark") EXCEPT !.job = j, !.token = token]]
        /\ UNCHANGED <<beats, cancels, up, faults>>

BackToPoll(t) == threads' = [threads EXCEPT ![t] = At("poll")]

NothingToClaim(t) == /\ BackToPoll(t)
                     /\ UNCHANGED <<jobs, beats, cancels, up, faults>>

\* _claim_skip_locked: one due row is locked, then updated.
ClaimSkipLocked(t) ==
    /\ Dialect = "postgresql"
    /\ threads[t].pc = "claim"
    /\ \/ \E j \in Jobs : Due(j) /\ ClaimRow(t, j)
       \/ (\A j \in Jobs : ~Due(j)) /\ NothingToClaim(t)

\* _claim_compare_and_set: the candidates are read ...
ClaimSelect(t) ==
    /\ Dialect = "sqlite"
    /\ threads[t].pc = "claim"
    /\ threads' = [threads EXCEPT ![t] =
                     [At("cas") EXCEPT !.read = {Candidate(j) : j \in {k \in Jobs : Due(k)}}]]
    /\ UNCHANGED <<jobs, beats, cancels, up, faults>>

\* Mutant: the candidate is claimed whatever it is now.
UnchangedBug(c) == TRUE
Unchanged(c) == jobs[c.job].status = c.status

\* ... and the first whose status is still the one read is claimed.
ClaimCompareAndSet(t) ==
    /\ threads[t].pc = "cas"
    /\ \/ \E c \in threads[t].read : Unchanged(c) /\ ClaimRow(t, c.job)
       \/ (\A c \in threads[t].read : ~Unchanged(c)) /\ NothingToClaim(t)

-----------------------------------------------------------------------------
\* run_claimed: one attempt at one job.

\* The run's heartbeat stops with it, except a beat already in flight.
StopBeat(t) == [beats EXCEPT ![t] = IF @.pc = "wait" THEN NoBeat ELSE @]

\* The attempt ends; the row becomes r (unchanged where the fence refused).
EndRun(t, r) ==
    /\ jobs' = [jobs EXCEPT ![threads[t].job] = r]
    /\ BackToPoll(t)
    /\ beats' = StopBeat(t)
    /\ UNCHANGED <<cancels, up, faults>>

LeaseLost(t) == EndRun(t, jobs[threads[t].job])

StartedRow(r) == [r EXCEPT !.status = "running", !.attempt = r.attempt + 1]

\* mark_running counts the attempt; it neither extends the lease nor looks at it,
\* and it accepts a job whose cancellation was requested since the claim.
MarkRunning(t) ==
    LET j == threads[t].job IN
    /\ threads[t].pc = "mark"
    /\ IF FencedUpdate(t, j, {"claimed", "cancel_requested"})
       THEN /\ jobs' = [jobs EXCEPT ![j] = StartedRow(@)]
            /\ threads' = [threads EXCEPT ![t].pc = "run"]
            /\ beats' = [beats EXCEPT ![t] = [pc |-> "wait", job |-> j,
                                              token |-> threads[t].token]]
            /\ UNCHANGED <<cancels, up, faults>>
       ELSE LeaseLost(t)

\* complete: the handler returned; its writes commit with SUCCEEDED.
Complete(t) ==
    LET j == threads[t].job IN
    /\ threads[t].pc = "run"
    /\ IF FencedUpdate(t, j, {"running", "cancel_requested"})
       THEN EndRun(t, Released(jobs[j], "succeeded"))
       ELSE LeaseLost(t)

\* CANCELLED is raised only after the probe read cancel_requested_at.
RaisedErrors(j) == {"retryable", "fatal"}
                     \cup (IF jobs[j].cancelAsked THEN {"cancelled"} ELSE {})

\* The handler raised and its transaction was rolled back.
HandlerRaises(t) ==
    /\ threads[t].pc = "run"
    /\ \E e \in RaisedErrors(threads[t].job) :
          threads' = [threads EXCEPT ![t].pc = "settle", ![t].error = e]
    /\ UNCHANGED <<jobs, beats, cancels, up, faults>>

\* fail: route a failed attempt by its error class and the attempts left.
FailedRow(r, error) ==
    IF error = "fatal" THEN Released(r, "failed")
    ELSE IF r.attempt < MaxAttempts
         THEN [Released(r, "retry_wait") EXCEPT !.due = FALSE]
         ELSE Released(r, "dead_lettered")

Fail(t) ==
    LET j == threads[t].job IN
    /\ threads[t].pc = "settle"
    /\ threads[t].error \in {"retryable", "fatal"}
    /\ IF FencedUpdate(t, j, {"running", "cancel_requested"})
       THEN EndRun(t, FailedRow(jobs[j], threads[t].error))
       ELSE LeaseLost(t)

\* finish_cancel.
FinishCancel(t) ==
    LET j == threads[t].job IN
    /\ threads[t].pc = "settle"
    /\ threads[t].error = "cancelled"
    /\ IF FencedUpdate(t, j, ACTIVE_STATUSES)
       THEN EndRun(t, Released(jobs[j], "cancelled"))
       ELSE LeaseLost(t)

\* The heartbeat thread reads the row and goes on only where it says "running" ...
HeartbeatRead(t) ==
    /\ beats[t].pc = "wait"
    /\ jobs[beats[t].job].status = "running"
    /\ beats' = [beats EXCEPT ![t].pc = "write"]
    /\ UNCHANGED <<jobs, threads, cancels, up, faults>>

\* ... and then extends the lease under the fence; a lost lease stops it.
HeartbeatSource == ACTIVE_STATUSES
HeartbeatWrite(t) ==
    LET j == beats[t].job
        token == beats[t].token
        owned == Owns(t, token, j) /\ jobs[j].status \in HeartbeatSource
    IN
    /\ beats[t].pc = "write"
    /\ jobs' = IF owned THEN [jobs EXCEPT ![j].lease = "live"] ELSE jobs
    /\ threads' = IF owned THEN WithoutCandidate(j) ELSE threads
    /\ beats' = [beats EXCEPT ![t] = IF owned /\ threads[t].token = token
                                     THEN [@ EXCEPT !.pc = "wait"] ELSE NoBeat]
    /\ UNCHANGED <<cancels, up, faults>>

-----------------------------------------------------------------------------
\* request_cancel, called by the cancel route: a compare-and-set on the status
\* read, decided again from the row on a lost race, three times at most.
CancelRead(c) ==
    /\ cancels[c].pc = "idle"
    /\ \E j \in Jobs \ Uncancellable :
          /\ jobs[j].status \in OpenToCancel
          /\ cancels' = [cancels EXCEPT ![c] =
                           [pc |-> "cas", job |-> j, seen |-> jobs[j].status, tries |-> 1]]
    /\ UNCHANGED <<jobs, threads, beats, up, faults>>

\* An enqueued job is cancelled at once; an owned one keeps its owner, who stops it.
CancelledRow(r) ==
    [IF r.status \in ENQUEUED_STATUSES
     THEN Released(r, "cancelled")
     ELSE [r EXCEPT !.status = "cancel_requested"] EXCEPT !.cancelAsked = TRUE]

\* Lost the race: the decision is made again from the status it is now.
RetriedCancel(cancel, now) == [cancel EXCEPT !.seen = now, !.tries = cancel.tries + 1]

CancelMatches(c) == jobs[cancels[c].job].status = cancels[c].seen

CancelCompareAndSet(c) ==
    LET j == cancels[c].job
        now == jobs[j].status
    IN
    /\ cancels[c].pc = "cas"
    /\ IF CancelMatches(c)
       THEN /\ jobs' = [jobs EXCEPT ![j] = CancelledRow(@)]
            /\ cancels' = [cancels EXCEPT ![c] = NoCancel]
       ELSE /\ jobs' = jobs
            /\ cancels' = [cancels EXCEPT ![c] =
                             IF now \in OpenToCancel /\ @.tries < MaxCancelTries
                             THEN RetriedCancel(@, now)
                             ELSE NoCancel]
    /\ UNCHANGED <<threads, beats, up, faults>>

-----------------------------------------------------------------------------
\* Processes: an abrupt end loses every credential its threads held; a shutdown
\* lets the current runs end first.  Grace expiry is an abrupt end.
ThreadsOf(w) == {t \in Threads : ProcessOf[t] = w}

Crash(w) ==
    /\ up[w] # "down"
    /\ faults < MaxFaults
    /\ up' = [up EXCEPT ![w] = "down"]
    /\ threads' = [t \in Threads |-> IF t \in ThreadsOf(w) THEN At("dead") ELSE threads[t]]
    /\ beats' = [t \in Threads |-> IF t \in ThreadsOf(w) THEN NoBeat ELSE beats[t]]
    /\ faults' = faults + 1
    /\ UNCHANGED <<jobs, cancels>>

RequestStop(w) ==
    /\ up[w] = "up"
    /\ faults < MaxFaults
    /\ up' = [up EXCEPT ![w] = "draining"]
    /\ faults' = faults + 1
    /\ UNCHANGED <<jobs, threads, beats, cancels>>

Drained(w) ==
    /\ up[w] = "draining"
    /\ \A t \in ThreadsOf(w) : threads[t].pc = "poll"
    /\ up' = [up EXCEPT ![w] = "down"]
    /\ threads' = [t \in Threads |-> IF t \in ThreadsOf(w) THEN At("dead") ELSE threads[t]]
    /\ beats' = [t \in Threads |-> IF t \in ThreadsOf(w) THEN NoBeat ELSE beats[t]]
    /\ UNCHANGED <<jobs, cancels, faults>>

Restart(w) ==
    /\ up[w] = "down"
    /\ up' = [up EXCEPT ![w] = "up"]
    /\ threads' = [t \in Threads |-> IF t \in ThreadsOf(w) THEN At("poll") ELSE threads[t]]
    /\ UNCHANGED <<jobs, beats, cancels, faults>>

-----------------------------------------------------------------------------
Recover(t) == RecoverLocked(t) \/ RecoverSelect(t) \/ RecoverCompareAndSet(t)

Claim(t) == ClaimSkipLocked(t) \/ ClaimSelect(t) \/ ClaimCompareAndSet(t)

Run(t) == MarkRunning(t) \/ Complete(t) \/ HandlerRaises(t) \/ Fail(t) \/ FinishCancel(t)

Heartbeat(t) == HeartbeatRead(t) \/ HeartbeatWrite(t)

Next ==
    \/ \E j \in Jobs : Enqueue(j) \/ BecomeDue(j) \/ LeaseLapses(j)
    \/ \E t \in Threads : Recover(t) \/ Claim(t) \/ Run(t) \/ Heartbeat(t)
    \/ \E c \in Cancellers : CancelRead(c) \/ CancelCompareAndSet(c)
    \/ \E w \in Workers : Crash(w) \/ RequestStop(w) \/ Drained(w) \/ Restart(w)

Spec == Init /\ [][Next]_vars

\* Threads keep polling, an attempt ends, the clock advances and a supervisor
\* restarts a process.  Nobody is obliged to enqueue or cancel, and nothing obliges
\* a live owner's lease to lapse.
Fairness ==
    /\ \A t \in Threads : WF_vars(Recover(t)) /\ WF_vars(Claim(t)) /\ WF_vars(Run(t))
    /\ \A t \in Threads : WF_vars(Heartbeat(t))
    /\ \A j \in Jobs : WF_vars(BecomeDue(j)) /\ WF_vars(Abandoned(j) /\ LeaseLapses(j))
    /\ \A w \in Workers : WF_vars(Drained(w)) /\ WF_vars(Restart(w))

FairSpec == Spec /\ Fairness

-----------------------------------------------------------------------------
(***************************************************************************)
(* Properties.                                                             *)
(***************************************************************************)

\* Every row, thread, heartbeat and cancel request holds values the code can store.
TypeOK ==
    /\ jobs \in [Jobs -> Row]
    /\ threads \in [Threads -> Thread]
    /\ beats \in [Threads -> Beat]
    /\ cancels \in [Cancellers -> Cancel]
    /\ up \in [Workers -> {"up", "draining", "down"}]
    /\ faults \in Nat

\* A row carries a worker, a token and a lease exactly while its status says a
\* worker holds it, so a late heartbeat or settlement never matches a job that was
\* settled, cancelled or requeued, and a requeued job never keeps its old owner.
OwnershipMatchesStatus ==
    \A j \in Jobs :
        LET active == jobs[j].status \in ACTIVE_STATUSES IN
        /\ (jobs[j].worker # NoWorker) <=> active
        /\ (jobs[j].token # NoToken) <=> active
        /\ (jobs[j].lease # "none") <=> active

CanWrite(t, j) == threads[t].job = j /\ Owns(t, threads[t].token, j)

\* At most one thread can pass a job's fence, even where two threads of one process
\* (the same worker_id) run the same job after a lease was recovered.
OneOwner ==
    \A j \in Jobs : \A t1, t2 \in Threads :
        CanWrite(t1, j) /\ CanWrite(t2, j) => t1 = t2

\* No job starts more often than max_attempts, and a queued job has an attempt left:
\* crashes, recoveries and cancel requests included.  On PostgreSQL only: on SQLite the
\* attempts are read before the recovering write.
AttemptBudget ==
    \A j \in Jobs :
        /\ jobs[j].attempt <= MaxAttempts
        /\ jobs[j].status \in ENQUEUED_STATUSES => jobs[j].attempt < MaxAttempts

\* A job ends cancelled only after somebody asked for it.
NoUnrequestedCancel ==
    \A j \in Jobs :
        jobs[j].status \in {"cancel_requested", "cancelled"} => jobs[j].cancelAsked

\* Whatever the interleaving, a row's status moves only along _ALLOWED; in particular
\* a terminal outcome is final and a requested cancel is never requeued as pending.
LegalTransitions ==
    [][\A j \in Jobs :
         jobs[j].status \notin {"absent", jobs'[j].status}
           => CanTransition(jobs[j].status, jobs'[j].status)]_vars

OwnerEnded(j) == \E t \in Threads : CanWrite(t, j) /\ threads'[t].pc = "poll"

\* A job leaves its owner only because that owner ended its own run, or because the
\* lease had lapsed and recovery took it: never under a live lease, never by a
\* stale thread.
OwnerDecides ==
    [][\A j \in Jobs :
         jobs[j].token \notin {NoToken, jobs'[j].token}
           => \/ OwnerEnded(j)
              \/ /\ jobs[j].lease = "lapsed"
                 /\ jobs'[j].status \in {"pending", "dead_lettered"}]_vars

StrandedCancel(j) == jobs[j].status = "cancel_requested" /\ Abandoned(j)

\* Every job that is queued or being worked on ends, through crashes, drains and
\* lapsed leases; the one exception the code leaves is a job whose owner is gone
\* after its cancellation was requested.
EveryJobEnds ==
    \A j \in Jobs :
        []<>(jobs[j].status \in {"absent"} \cup TERMINAL_STATUSES \/ StrandedCancel(j))

\* A shutdown request ends the process: draining threads take no further poll.
DrainEnds == \A w \in Workers : []<>(up[w] # "draining")

\* docs/phase-3a-durable-jobs.md: a running job whose cancellation was requested is
\* stopped by the worker at its next safe point.
CancelRequestEnds ==
    \A j \in Jobs : jobs[j].status = "cancel_requested"
                      ~> jobs[j].status \in TERMINAL_STATUSES

=============================================================================
