-------------------------- MODULE DurableJobs_proofs --------------------------
(***************************************************************************)
(* Proofs about the durable queue, for any set of jobs, threads, processes *)
(* and tokens, any number of attempts and any number of faults.            *)
(***************************************************************************)
EXTENDS DurableJobsRefinement, TLAPS

-----------------------------------------------------------------------------
\* Releasing a row keeps it a row and clears its owner.
LEMMA ReleasedRow ==
    ASSUME NEW r \in Row, NEW s \in JobStatuses
    PROVE  /\ Released(r, s) \in Row
           /\ Released(r, s).status = s
           /\ Released(r, s).worker = NoWorker
           /\ Released(r, s).token = NoToken
           /\ Released(r, s).lease = "none"
           /\ Released(r, s).attempt = r.attempt
           /\ Released(r, s).due = r.due
           /\ Released(r, s).cancelAsked = r.cancelAsked
BY DEF Released, Row, Lease

\* A recovered row is released and either pending or dead-lettered.
LEMMA RecoveredRowType ==
    ASSUME NEW r \in Row, NEW n \in Nat
    PROVE  /\ RecoveredRow(r, n) \in Row
           /\ RecoveredRow(r, n).status = IF n < MaxAttempts THEN "pending" ELSE "dead_lettered"
           /\ RecoveredRow(r, n).worker = NoWorker
           /\ RecoveredRow(r, n).token = NoToken
           /\ RecoveredRow(r, n).lease = "none"
           /\ RecoveredRow(r, n).attempt = r.attempt
           /\ RecoveredRow(r, n).cancelAsked = r.cancelAsked
BY AttemptAssumption DEF RecoveredRow, Released, Row, Lease, JobStatuses, ENQUEUED_STATUSES,
   TERMINAL_STATUSES

\* A start counts one attempt and keeps the owner.
LEMMA StartedRowType ==
    ASSUME NEW r \in Row
    PROVE  /\ StartedRow(r) \in Row
           /\ StartedRow(r).status = "running"
           /\ StartedRow(r).attempt = r.attempt + 1
           /\ StartedRow(r).worker = r.worker
           /\ StartedRow(r).token = r.token
           /\ StartedRow(r).lease = r.lease
           /\ StartedRow(r).cancelAsked = r.cancelAsked
<1> DEFINE With(n) == [r EXCEPT !.status = "running", !.attempt = n]
<1>1. ASSUME NEW n \in Nat
      PROVE  With(n) \in Row /\ With(n).attempt = n /\ With(n).status = "running"
  BY DEF Row, JobStatuses, ACTIVE_STATUSES
<1>2. r.attempt + 1 \in Nat
  BY DEF Row
<1>3. StartedRow(r) = With(r.attempt + 1)
  BY DEF StartedRow
<1> HIDE DEF With
<1>4. StartedRow(r) \in Row /\ StartedRow(r).attempt = r.attempt + 1 /\ StartedRow(r).status = "running"
  BY <1>1, <1>2, <1>3
<1>5. QED
  BY <1>4 DEF StartedRow, Row

LEMMA RetriedCancelType ==
    ASSUME NEW cancel \in LiveCancel, cancel.tries < MaxCancelTries, NEW now \in OpenToCancel
    PROVE  RetriedCancel(cancel, now) \in LiveCancel
<1> DEFINE With(n) == [cancel EXCEPT !.seen = now, !.tries = n]
<1>1. ASSUME NEW n \in 1..MaxCancelTries PROVE With(n) \in LiveCancel
  BY DEF LiveCancel
<1>2. cancel.tries + 1 \in 1..MaxCancelTries
  BY DEF LiveCancel, MaxCancelTries
<1>3. RetriedCancel(cancel, now) = With(cancel.tries + 1)
  BY DEF RetriedCancel
<1> HIDE DEF With
<1>4. QED
  BY <1>1, <1>2, <1>3

\* A thread between jobs holds nothing.
LEMMA IdleType == ASSUME NEW pc \in IdlePcs PROVE At(pc) \in Thread
BY DEF At, Thread, IdleThread

\* A thread running a job holds a job and a token; another holds neither.
LEMMA ThreadFacts ==
    ASSUME TypeOK, NEW t \in Threads
    PROVE  /\ threads[t].pc \in BusyPcs =>
                 /\ threads[t] \in BusyThread
                 /\ threads[t].job \in Jobs
                 /\ threads[t].token \in Tokens
           /\ threads[t].pc \notin BusyPcs =>
                 /\ threads[t] \in IdleThread
                 /\ threads[t].job = NoJob
                 /\ threads[t].token = NoToken
           /\ threads[t].read \in SUBSET Candidates
BY DEF TypeOK, Thread, BusyThread, IdleThread, BusyPcs, IdlePcs

\* The end of an attempt stores a row and frees the thread.
LEMMA EndRunType ==
    ASSUME TypeOK, NEW t \in Threads, NEW r \in Row, EndRun(t, r)
    PROVE  TypeOK'
<1>1. jobs' \in [Jobs -> Row]
  BY DEF TypeOK, EndRun
<1>2. threads' \in [Threads -> Thread]
  BY IdleType DEF TypeOK, EndRun, BackToPoll, IdlePcs
<1>3. beats' \in [Threads -> Beat]
  BY DEF TypeOK, EndRun, StopBeat, Beat
<1>4. QED
  BY <1>1, <1>2, <1>3 DEF TypeOK, EndRun

LEMMA InitType == Init => TypeOK
<1> SUFFICES ASSUME Init PROVE TypeOK
  OBVIOUS
<1>1. jobs \in [Jobs -> Row]
  BY DEF Init, NewRow, Row, Lease
<1>2. threads \in [Threads -> Thread]
  BY IdleType DEF Init, IdlePcs
<1>3. QED
  BY <1>1, <1>2 DEF Init, TypeOK, Beat, Cancel

LEMMA EnqueueType ==
    ASSUME TypeOK, NEW j \in Jobs, Enqueue(j)
    PROVE  TypeOK'
<1>1. ASSUME NEW future \in BOOLEAN
      PROVE  [jobs[j] EXCEPT !.status = IF future THEN "scheduled" ELSE "pending",
                             !.due = ~future] \in Row
  BY DEF TypeOK, Row, JobStatuses, ENQUEUED_STATUSES
<1>2. jobs' \in [Jobs -> Row]
  BY <1>1 DEF Enqueue, TypeOK
<1>3. QED
  BY <1>2 DEF Enqueue, TypeOK

LEMMA MarkRunningType ==
    ASSUME TypeOK, NEW t \in Threads, MarkRunning(t)
    PROVE  TypeOK'
<1> DEFINE j == threads[t].job
<1>1. /\ threads[t] \in BusyThread
      /\ j \in Jobs
      /\ jobs[j] \in Row
  BY ThreadFacts DEF MarkRunning, BusyPcs, TypeOK
<1>2. CASE FencedUpdate(t, j, {"claimed", "cancel_requested"})
  <2>1. jobs' \in [Jobs -> Row]
    BY <1>1, <1>2, StartedRowType DEF MarkRunning, TypeOK
  <2>2. [threads[t] EXCEPT !.pc = "run"] \in Thread
    BY <1>1 DEF Thread, BusyThread, BusyPcs
  <2>3. threads' \in [Threads -> Thread]
    BY <1>2, <2>2 DEF MarkRunning, TypeOK
  <2>4. [pc |-> "wait", job |-> j, token |-> threads[t].token] \in Beat
    BY <1>1 DEF BusyThread, Beat, LiveBeat
  <2>5. beats' \in [Threads -> Beat]
    BY <1>2, <2>4 DEF MarkRunning, TypeOK
  <2>6. QED
    BY <1>2, <2>1, <2>3, <2>5 DEF MarkRunning, TypeOK
<1>3. CASE ~FencedUpdate(t, j, {"claimed", "cancel_requested"})
  BY <1>1, <1>3, EndRunType DEF MarkRunning, LeaseLost
<1>4. QED
  BY <1>2, <1>3

LEMMA HandlerRaisesType ==
    ASSUME TypeOK, NEW t \in Threads, HandlerRaises(t)
    PROVE  TypeOK'
<1>1. threads[t] \in BusyThread
  BY ThreadFacts DEF HandlerRaises, RaisedErrors, BusyPcs
<1>2. ASSUME NEW e \in Errors
      PROVE  [[threads[t] EXCEPT !.pc = "settle"] EXCEPT !.error = e] \in Thread
  BY <1>1 DEF Thread, BusyThread, BusyPcs
<1>3. PICK e \in Errors : threads' = [threads EXCEPT ![t].pc = "settle", ![t].error = e]
  BY DEF HandlerRaises, RaisedErrors, Errors
<1>4. threads' = [threads EXCEPT ![t] = [[threads[t] EXCEPT !.pc = "settle"] EXCEPT !.error = e]]
  BY <1>3 DEF TypeOK
<1>5. threads' \in [Threads -> Thread]
  BY <1>2, <1>4 DEF TypeOK
<1>6. QED
  BY <1>5 DEF HandlerRaises, RaisedErrors, TypeOK

LEMMA FailedRowType ==
    ASSUME NEW r \in Row, NEW error \in Errors
    PROVE  /\ FailedRow(r, error) \in Row
           /\ FailedRow(r, error).status \in {"failed", "retry_wait", "dead_lettered"}
           /\ FailedRow(r, error).status = "retry_wait" => r.attempt < MaxAttempts
           /\ FailedRow(r, error).worker = NoWorker
           /\ FailedRow(r, error).token = NoToken
           /\ FailedRow(r, error).lease = "none"
           /\ FailedRow(r, error).attempt = r.attempt
           /\ FailedRow(r, error).cancelAsked = r.cancelAsked
<1>1. [Released(r, "retry_wait") EXCEPT !.due = FALSE] \in Row
  BY DEF Released, Row, Lease, JobStatuses, ENQUEUED_STATUSES
<1>2. Released(r, "failed") \in Row /\ Released(r, "dead_lettered") \in Row
  BY ReleasedRow DEF JobStatuses, TERMINAL_STATUSES
<1>3. QED
  BY <1>1, <1>2 DEF FailedRow, Released, Row

LEMMA RunType ==
    ASSUME TypeOK, NEW t \in Threads, Run(t)
    PROVE  TypeOK'
<1> DEFINE j == threads[t].job
<1>1. CASE MarkRunning(t)
  BY <1>1, MarkRunningType
<1>2. CASE HandlerRaises(t)
  BY <1>2, HandlerRaisesType
<1>3. CASE Complete(t) \/ Fail(t) \/ FinishCancel(t)
  <2>1. j \in Jobs /\ jobs[j] \in Row /\ threads[t].error \in Errors
    BY <1>3, ThreadFacts DEF Complete, Fail, FinishCancel, BusyPcs, BusyThread, TypeOK
  <2>2. {Released(jobs[j], "succeeded"), Released(jobs[j], "cancelled"),
         FailedRow(jobs[j], threads[t].error), jobs[j]} \subseteq Row
    BY <2>1, ReleasedRow, FailedRowType DEF JobStatuses, TERMINAL_STATUSES
  <2>3. \E r \in Row : EndRun(t, r)
    BY <1>3, <2>2 DEF Complete, Fail, FinishCancel, LeaseLost
  <2>4. QED
    BY <2>3, EndRunType
<1>4. QED
  BY <1>1, <1>2, <1>3 DEF Run

LEMMA CandidateType ==
    ASSUME TypeOK, NEW S \in SUBSET Jobs, \A j \in S : jobs[j].status # "absent"
    PROVE  {Candidate(j) : j \in S} \in SUBSET Candidates
BY DEF TypeOK, Candidate, Candidates, Row

LEMMA ReadingThread ==
    ASSUME NEW pc \in IdlePcs, NEW S \in SUBSET Candidates
    PROVE  [At(pc) EXCEPT !.read = S] \in Thread
BY DEF At, Thread, IdleThread

LEMMA RecoverType ==
    ASSUME TypeOK, NEW t \in Threads, Recover(t)
    PROVE  TypeOK'
<1>1. CASE RecoverLocked(t)
  <2>1. jobs' \in [Jobs -> Row]
    BY <1>1, RecoveredRowType DEF RecoverLocked, TypeOK, Row
  <2>2. threads' \in [Threads -> Thread]
    BY <1>1, IdleType DEF RecoverLocked, TypeOK, IdlePcs
  <2>3. QED
    BY <1>1, <2>1, <2>2 DEF RecoverLocked, TypeOK
<1>2. CASE RecoverSelect(t)
  <2>1. {Candidate(j) : j \in {k \in Jobs : Expired(k)}} \in SUBSET Candidates
    BY CandidateType DEF Expired
  <2>2. threads' \in [Threads -> Thread]
    BY <1>2, <2>1, ReadingThread DEF RecoverSelect, TypeOK, IdlePcs
  <2>3. QED
    BY <1>2, <2>2 DEF RecoverSelect, TypeOK
<1>3. CASE RecoverCompareAndSet(t)
  <2>1. ASSUME NEW j \in Jobs, \E c \in threads[t].read : c.job = j
        PROVE  (CHOOSE c \in threads[t].read : c.job = j).attempt \in Nat
    BY <2>1, ThreadFacts DEF Candidates
  <2>2. jobs' \in [Jobs -> Row]
    BY <1>3, <2>1, RecoveredRowType DEF RecoverCompareAndSet, TypeOK
  <2>3. threads' \in [Threads -> Thread]
    BY <1>3, IdleType DEF RecoverCompareAndSet, TypeOK, IdlePcs
  <2>4. QED
    BY <1>3, <2>2, <2>3 DEF RecoverCompareAndSet, TypeOK
<1>4. QED
  BY <1>1, <1>2, <1>3 DEF Recover

\* Dropping a stale candidate changes nothing else about any thread.
LEMMA WithoutCandidateFacts ==
    ASSUME TypeOK, NEW j \in Jobs
    PROVE  /\ WithoutCandidate(j) \in [Threads -> Thread]
           /\ \A t \in Threads :
                 /\ WithoutCandidate(j)[t].pc = threads[t].pc
                 /\ WithoutCandidate(j)[t].job = threads[t].job
                 /\ WithoutCandidate(j)[t].token = threads[t].token
                 /\ WithoutCandidate(j)[t].error = threads[t].error
<1> SUFFICES ASSUME NEW t \in Threads
             PROVE  /\ WithoutCandidate(j)[t] \in Thread
                    /\ WithoutCandidate(j)[t].pc = threads[t].pc
                    /\ WithoutCandidate(j)[t].job = threads[t].job
                    /\ WithoutCandidate(j)[t].token = threads[t].token
                    /\ WithoutCandidate(j)[t].error = threads[t].error
  BY DEF WithoutCandidate
<1>1. CASE threads[t].pc = "recover"
  BY <1>1, ThreadFacts DEF WithoutCandidate, Thread, IdleThread, BusyPcs
<1>2. CASE threads[t].pc # "recover"
  BY <1>2 DEF WithoutCandidate, TypeOK
<1>3. QED
  BY <1>1, <1>2

LEMMA ClaimRowType ==
    ASSUME TypeOK, NEW t \in Threads, NEW j \in Jobs, ClaimRow(t, j)
    PROVE  TypeOK'
<1>1. PICK token \in FreshTokens :
        /\ jobs' = [jobs EXCEPT ![j] =
                      [@ EXCEPT !.status = "claimed", !.worker = ProcessOf[t],
                                !.token = token, !.lease = "live"]]
        /\ threads' = [WithoutCandidate(j) EXCEPT ![t] =
                         [At("mark") EXCEPT !.job = j, !.token = token]]
        /\ UNCHANGED <<beats, cancels, up, faults>>
  BY DEF ClaimRow
<1>2. token \in Tokens
  BY <1>1 DEF FreshTokens
<1>3. jobs' \in [Jobs -> Row]
  <2>1. [jobs[j] EXCEPT !.status = "claimed", !.worker = ProcessOf[t],
                        !.token = token, !.lease = "live"] \in Row
    <3>1. /\ "claimed" \in JobStatuses /\ "live" \in Lease /\ ProcessOf[t] \in Workers
          /\ jobs[j] \in Row
      BY ProcessAssumption DEF TypeOK, Lease, JobStatuses, ACTIVE_STATUSES
    <3>2. QED
      BY <1>2, <3>1 DEF Row
  <2>2. QED
    BY <1>1, <2>1 DEF TypeOK
<1>4. [At("mark") EXCEPT !.job = j, !.token = token] \in Thread
  BY <1>2 DEF At, Thread, BusyThread, BusyPcs, Errors
<1>5. threads' \in [Threads -> Thread]
  BY <1>1, <1>4, WithoutCandidateFacts
<1>6. QED
  BY <1>1, <1>3, <1>5 DEF TypeOK

\* A claim step takes one job, reads candidates or finds nothing.
LEMMA ClaimCases ==
    ASSUME TypeOK, NEW t \in Threads, Claim(t)
    PROVE  NothingToClaim(t) \/ ClaimSelect(t) \/ \E j \in Jobs : ClaimRow(t, j)
<1>1. ASSUME ClaimCompareAndSet(t) PROVE NothingToClaim(t) \/ \E j \in Jobs : ClaimRow(t, j)
  BY <1>1, ThreadFacts DEF ClaimCompareAndSet, Candidates
<1>2. QED
  BY <1>1 DEF Claim, ClaimSkipLocked

LEMMA ClaimType ==
    ASSUME TypeOK, NEW t \in Threads, Claim(t)
    PROVE  TypeOK'
<1>1. CASE NothingToClaim(t)
  BY <1>1, IdleType DEF NothingToClaim, BackToPoll, TypeOK, IdlePcs
<1>2. CASE \E j \in Jobs : ClaimRow(t, j)
  BY <1>2, ClaimRowType
<1>3. CASE ClaimSelect(t)
  <2>1. {Candidate(j) : j \in {k \in Jobs : Due(k)}} \in SUBSET Candidates
    BY CandidateType DEF Due, ENQUEUED_STATUSES
  <2>2. threads' \in [Threads -> Thread]
    BY <1>3, <2>1, ReadingThread DEF ClaimSelect, TypeOK, IdlePcs
  <2>3. QED
    BY <1>3, <2>2 DEF ClaimSelect, TypeOK
<1>4. QED
  BY <1>1, <1>2, <1>3, ClaimCases

LEMMA HeartbeatType ==
    ASSUME TypeOK, NEW t \in Threads, Heartbeat(t)
    PROVE  TypeOK'
<1>1. beats[t].pc # "off" => beats[t] \in LiveBeat
  BY DEF TypeOK, Beat, NoBeat
<1>2. CASE HeartbeatRead(t)
  BY <1>1, <1>2 DEF HeartbeatRead, TypeOK, Beat, LiveBeat
<1>3. CASE HeartbeatWrite(t)
  <2>1. beats[t].job \in Jobs /\ [beats[t] EXCEPT !.pc = "wait"] \in Beat
    BY <1>1, <1>3 DEF HeartbeatWrite, Beat, LiveBeat
  <2>2. beats' \in [Threads -> Beat]
    BY <1>3, <2>1 DEF HeartbeatWrite, TypeOK, Beat
  <2>3. jobs' \in [Jobs -> Row]
    BY <1>3, <2>1 DEF HeartbeatWrite, TypeOK, Row, Lease
  <2>4. threads' \in [Threads -> Thread]
    BY <1>3, <2>1, WithoutCandidateFacts DEF HeartbeatWrite, TypeOK
  <2>5. QED
    BY <1>3, <2>2, <2>3, <2>4 DEF HeartbeatWrite, TypeOK
<1>4. QED
  BY <1>2, <1>3 DEF Heartbeat

LEMMA CancelType ==
    ASSUME TypeOK, NEW c \in Cancellers, CancelRead(c) \/ CancelCompareAndSet(c)
    PROVE  TypeOK'
<1>1. CASE CancelRead(c)
  <2>1. ASSUME NEW j \in Jobs, jobs[j].status \in OpenToCancel
        PROVE  [pc |-> "cas", job |-> j, seen |-> jobs[j].status, tries |-> 1] \in Cancel
    BY <2>1 DEF Cancel, LiveCancel, MaxCancelTries
  <2>2. cancels' \in [Cancellers -> Cancel]
    BY <1>1, <2>1 DEF CancelRead, TypeOK
  <2>3. QED
    BY <1>1, <2>2 DEF CancelRead, TypeOK
<1>2. CASE CancelCompareAndSet(c)
  <2> DEFINE j == cancels[c].job
  <2>1. cancels[c] \in LiveCancel /\ j \in Jobs /\ jobs[j] \in Row
    BY <1>2 DEF CancelCompareAndSet, TypeOK, Cancel, LiveCancel, NoCancel
  <2>2. CancelledRow(jobs[j]) \in Row
    BY <2>1 DEF CancelledRow, Released, Row, Lease, JobStatuses, TERMINAL_STATUSES,
                ACTIVE_STATUSES
  <2>3. jobs' \in [Jobs -> Row]
    BY <1>2, <2>2 DEF CancelCompareAndSet, TypeOK
  <2>4. jobs[j].status \in OpenToCancel /\ cancels[c].tries < MaxCancelTries
           => RetriedCancel(cancels[c], jobs[j].status) \in Cancel
    BY <2>1, RetriedCancelType DEF Cancel
  <2>5. cancels' \in [Cancellers -> Cancel]
    BY <1>2, <2>4 DEF CancelCompareAndSet, TypeOK, Cancel
  <2>6. QED
    BY <1>2, <2>3, <2>5 DEF CancelCompareAndSet, TypeOK
<1>3. QED
  BY <1>1, <1>2

LEMMA ProcessType ==
    ASSUME TypeOK, NEW w \in Workers,
           Crash(w) \/ RequestStop(w) \/ Drained(w) \/ Restart(w)
    PROVE  TypeOK'
<1>1. threads' \in [Threads -> Thread]
  BY IdleType DEF Crash, RequestStop, Drained, Restart, TypeOK, IdlePcs
<1>2. beats' \in [Threads -> Beat]
  BY DEF Crash, RequestStop, Drained, Restart, TypeOK, Beat
<1>3. up' \in [Workers -> {"up", "draining", "down"}] /\ faults' \in Nat
  BY DEF Crash, RequestStop, Drained, Restart, TypeOK
<1>4. QED
  BY <1>1, <1>2, <1>3 DEF Crash, RequestStop, Drained, Restart, TypeOK

LEMMA NextType == TypeOK /\ [Next]_vars => TypeOK'
<1> SUFFICES ASSUME TypeOK, [Next]_vars PROVE TypeOK'
  OBVIOUS
<1>1. ASSUME NEW j \in Jobs, BecomeDue(j) PROVE TypeOK'
  <2>1. jobs' = [jobs EXCEPT ![j].due = TRUE] /\ UNCHANGED <<threads, beats, cancels, up, faults>>
    BY <1>1 DEF BecomeDue
  <2>2. jobs' \in [Jobs -> Row]
    <3>1. [jobs[j] EXCEPT !.due = TRUE] \in Row
      BY DEF TypeOK, Row
    <3>2. QED
      BY <2>1, <3>1 DEF TypeOK
  <2>3. QED
    BY <2>1, <2>2 DEF TypeOK
<1>2. ASSUME NEW j \in Jobs, LeaseLapses(j) PROVE TypeOK'
  BY <1>2 DEF TypeOK, LeaseLapses, Row, Lease
<1>3. CASE UNCHANGED vars
  BY <1>3 DEF vars, TypeOK
<1>4. QED
  BY <1>1, <1>2, <1>3, EnqueueType, RecoverType, ClaimType, RunType, HeartbeatType,
     CancelType, ProcessType DEF Next

\* Every state the queue reaches is well typed: in particular a thread running a job
\* holds a credential, and any other thread holds none.
THEOREM TypeCorrect == Spec => []TypeOK
BY InitType, NextType, PTL DEF Spec

-----------------------------------------------------------------------------
(***************************************************************************)
(* Ownership.  OneOwner is not inductive: it needs that tokens are unique  *)
(* among rows and among threads, that a thread whose token matches a row   *)
(* captured it from that row, and that the row's status still fits where   *)
(* the thread is in its run.                                               *)
(***************************************************************************)

Matches(t, j) == threads[t].token # NoToken /\ threads[t].token = jobs[j].token

UniqueTokens ==
    /\ \A i, j \in Jobs : jobs[i].token # NoToken /\ jobs[i].token = jobs[j].token => i = j
    /\ \A t, u \in Threads :
          threads[t].token # NoToken /\ threads[t].token = threads[u].token => t = u

OwnersFollowRows ==
    \A t \in Threads, j \in Jobs : Matches(t, j) =>
        /\ threads[t].job = j
        /\ jobs[j].worker = ProcessOf[t]
        /\ threads[t].pc = "mark" => jobs[j].status \in {"claimed", "cancel_requested"}
        /\ threads[t].pc \in {"run", "settle"} =>
              jobs[j].status \in {"running", "cancel_requested"}

Ownership == OwnershipMatchesStatus /\ UniqueTokens /\ OwnersFollowRows

\* A step keeps a row's owner (possibly turning an owned row cancel_requested) ...
KeepsOwner(j) ==
    /\ jobs'[j].token = jobs[j].token
    /\ jobs'[j].worker = jobs[j].worker
    /\ (jobs'[j].lease = "none") <=> (jobs[j].lease = "none")
    /\ \/ jobs'[j].status = jobs[j].status
       \/ jobs[j].status \in ACTIVE_STATUSES /\ jobs'[j].status = "cancel_requested"

\* ... or leaves the row without one.
LeavesNoOwner(j) ==
    /\ jobs'[j].token = NoToken
    /\ jobs'[j].worker = NoWorker
    /\ jobs'[j].lease = "none"
    /\ jobs'[j].status \notin ACTIVE_STATUSES

\* A step leaves a thread its credential or takes it away.
KeepsCredential(t) ==
    \/ threads'[t].token = NoToken
    \/ /\ threads'[t].token = threads[t].token
       /\ threads'[t].job = threads[t].job
       /\ \/ threads'[t].pc = threads[t].pc
          \/ threads[t].pc = "run" /\ threads'[t].pc = "settle"

Quiet == /\ \A j \in Jobs : KeepsOwner(j) \/ LeavesNoOwner(j)
         /\ \A t \in Threads : KeepsCredential(t)

LEMMA QuietOwnership ==
    ASSUME TypeOK, Ownership, Quiet
    PROVE  Ownership'
<1>1. OwnershipMatchesStatus'
  BY DEF Ownership, OwnershipMatchesStatus, Quiet, KeepsOwner, LeavesNoOwner, ACTIVE_STATUSES
<1>2. UniqueTokens'
  BY DEF Ownership, UniqueTokens, Quiet, KeepsOwner, LeavesNoOwner, KeepsCredential
<1>3. OwnersFollowRows'
  <2> SUFFICES ASSUME NEW t \in Threads, NEW j \in Jobs, Matches(t, j)'
               PROVE  /\ threads'[t].job = j
                      /\ jobs'[j].worker = ProcessOf[t]
                      /\ threads'[t].pc = "mark" =>
                            jobs'[j].status \in {"claimed", "cancel_requested"}
                      /\ threads'[t].pc \in {"run", "settle"} =>
                            jobs'[j].status \in {"running", "cancel_requested"}
    BY DEF OwnersFollowRows, Matches
  <2>1. KeepsOwner(j) /\ KeepsCredential(t)
    BY DEF Quiet, LeavesNoOwner, Matches
  <2>2. Matches(t, j)
    BY <2>1 DEF Matches, KeepsOwner, KeepsCredential
  <2>3. /\ threads[t].job = j
        /\ jobs[j].worker = ProcessOf[t]
        /\ threads[t].pc = "mark" => jobs[j].status \in {"claimed", "cancel_requested"}
        /\ threads[t].pc \in {"run", "settle"} =>
              jobs[j].status \in {"running", "cancel_requested"}
    BY <2>2 DEF Ownership, OwnersFollowRows
  <2>4. /\ threads'[t].job = threads[t].job
        /\ threads'[t].pc = threads[t].pc \/ (threads[t].pc = "run" /\ threads'[t].pc = "settle")
    BY <2>1 DEF KeepsCredential, Matches
  <2>5. QED
    BY <2>1, <2>3, <2>4 DEF KeepsOwner
<1>4. QED
  BY <1>1, <1>2, <1>3 DEF Ownership

LEMMA ClaimOwnership ==
    ASSUME TypeOK, Ownership, NEW t \in Threads, NEW j \in Jobs, ClaimRow(t, j)
    PROVE  Ownership'
<1>1. PICK token \in FreshTokens :
        /\ jobs' = [jobs EXCEPT ![j] =
                      [@ EXCEPT !.status = "claimed", !.worker = ProcessOf[t],
                                !.token = token, !.lease = "live"]]
        /\ threads' = [WithoutCandidate(j) EXCEPT ![t] =
                         [At("mark") EXCEPT !.job = j, !.token = token]]
  BY DEF ClaimRow
<1>2. token \in Tokens /\ token # NoToken
  BY <1>1, NullAssumption DEF FreshTokens
<1>3. /\ \A i \in Jobs : jobs[i].token # token
      /\ \A u \in Threads : threads[u].token # token
  BY <1>1 DEF FreshTokens, TokensInUse
<1>4. /\ jobs'[j].status = "claimed"
      /\ jobs'[j].worker = ProcessOf[t]
      /\ jobs'[j].token = token
      /\ jobs'[j].lease = "live"
      /\ \A i \in Jobs \ {j} : jobs'[i] = jobs[i]
  BY <1>1 DEF TypeOK, Row
<1>5. /\ threads'[t].pc = "mark"
      /\ threads'[t].job = j
      /\ threads'[t].token = token
      /\ \A u \in Threads \ {t} : /\ threads'[u].pc = threads[u].pc
                                  /\ threads'[u].job = threads[u].job
                                  /\ threads'[u].token = threads[u].token
  BY <1>1, WithoutCandidateFacts DEF At
<1>6. OwnershipMatchesStatus'
  BY <1>2, <1>4, ProcessAssumption, NullAssumption
     DEF Ownership, OwnershipMatchesStatus, ACTIVE_STATUSES
<1>7. UniqueTokens'
  BY <1>3, <1>4, <1>5 DEF Ownership, UniqueTokens
<1>8. OwnersFollowRows'
  BY <1>3, <1>4, <1>5 DEF Ownership, OwnersFollowRows, Matches
<1>9. QED
  BY <1>6, <1>7, <1>8 DEF Ownership

LEMMA MarkRunningOwnership ==
    ASSUME TypeOK, Ownership, NEW t \in Threads, MarkRunning(t),
           FencedUpdate(t, threads[t].job, {"claimed", "cancel_requested"})
    PROVE  Ownership'
<1> DEFINE j == threads[t].job
<1>1. /\ j \in Jobs /\ jobs[j] \in Row
      /\ threads[t].token \in Tokens
  BY ThreadFacts DEF MarkRunning, BusyPcs, TypeOK
<1>2. /\ jobs'[j] = StartedRow(jobs[j])
      /\ \A i \in Jobs \ {j} : jobs'[i] = jobs[i]
      /\ threads'[t].pc = "run"
      /\ \A u \in Threads : threads'[u].job = threads[u].job /\ threads'[u].token = threads[u].token
      /\ \A u \in Threads \ {t} : threads'[u] = threads[u]
  BY <1>1 DEF MarkRunning, TypeOK, Thread, IdleThread, BusyThread
<1>3. /\ jobs'[j].status = "running"
      /\ jobs'[j].worker = jobs[j].worker
      /\ jobs'[j].token = jobs[j].token
      /\ jobs'[j].lease = jobs[j].lease
  BY <1>1, <1>2, StartedRowType
<1>4. jobs[j].status \in ACTIVE_STATUSES
  BY DEF FencedUpdate, ACTIVE_STATUSES
<1>5. OwnershipMatchesStatus'
  BY <1>2, <1>3, <1>4 DEF Ownership, OwnershipMatchesStatus, ACTIVE_STATUSES
<1>6. UniqueTokens'
  BY <1>2, <1>3 DEF Ownership, UniqueTokens
<1>7. OwnersFollowRows'
  <2> SUFFICES ASSUME NEW u \in Threads, NEW i \in Jobs, Matches(u, i)'
               PROVE  /\ threads'[u].job = i
                      /\ jobs'[i].worker = ProcessOf[u]
                      /\ threads'[u].pc = "mark" =>
                            jobs'[i].status \in {"claimed", "cancel_requested"}
                      /\ threads'[u].pc \in {"run", "settle"} =>
                            jobs'[i].status \in {"running", "cancel_requested"}
    BY DEF OwnersFollowRows, Matches
  <2>1. Matches(u, i)
    BY <1>2, <1>3 DEF Matches
  <2>2. CASE i = j
    <3>1. u = t
      BY <1>1, <2>1, <2>2 DEF Ownership, UniqueTokens, Matches, FencedUpdate, Owns
    <3>2. QED
      BY <1>2, <1>3, <2>1, <2>2, <3>1 DEF Ownership, OwnersFollowRows
  <2>3. CASE i # j
    <3>1. u # t
      BY <2>1, <2>3 DEF Ownership, OwnersFollowRows
    <3>2. QED
      BY <1>2, <2>1, <2>3, <3>1 DEF Ownership, OwnersFollowRows
  <2>4. QED
    BY <2>2, <2>3
<1>8. QED
  BY <1>5, <1>6, <1>7 DEF Ownership

\* Ending a run quietly frees the thread.
LEMMA EndRunQuiet ==
    ASSUME TypeOK, NEW t \in Threads, threads[t].job \in Jobs, NEW r, EndRun(t, r),
           \/ r = jobs[threads[t].job]
           \/ /\ r.token = NoToken /\ r.worker = NoWorker /\ r.lease = "none"
              /\ r.status \notin ACTIVE_STATUSES
    PROVE  Quiet
<1>1. ASSUME NEW u \in Threads PROVE KeepsCredential(u)
  BY DEF EndRun, BackToPoll, At, TypeOK, KeepsCredential
<1>2. ASSUME NEW j \in Jobs PROVE KeepsOwner(j) \/ LeavesNoOwner(j)
  BY DEF EndRun, TypeOK, KeepsOwner, LeavesNoOwner
<1>3. QED
  BY <1>1, <1>2 DEF Quiet

LEMMA RunShape ==
    ASSUME TypeOK, NEW t \in Threads, Run(t)
    PROVE  \/ Quiet
           \/ /\ MarkRunning(t)
              /\ FencedUpdate(t, threads[t].job, {"claimed", "cancel_requested"})
<1> DEFINE j == threads[t].job
<1>1. j \in Jobs /\ jobs[j] \in Row /\ threads[t].error \in Errors
  BY ThreadFacts DEF Run, MarkRunning, Complete, HandlerRaises, Fail, FinishCancel,
                     BusyPcs, BusyThread, TypeOK
<1>2. CASE LeaseLost(t)
  BY <1>1, <1>2, EndRunQuiet DEF LeaseLost
<1>3. CASE EndRun(t, Released(jobs[j], "succeeded")) \/ EndRun(t, Released(jobs[j], "cancelled"))
  BY <1>1, <1>3, EndRunQuiet, ReleasedRow DEF JobStatuses, TERMINAL_STATUSES, ACTIVE_STATUSES
<1>4. CASE EndRun(t, FailedRow(jobs[j], threads[t].error))
  BY <1>1, <1>4, EndRunQuiet, FailedRowType DEF ACTIVE_STATUSES
<1>5. CASE HandlerRaises(t)
  BY <1>5 DEF HandlerRaises, Quiet, KeepsOwner, KeepsCredential, TypeOK, Thread, BusyThread,
              IdleThread
<1>6. QED
  BY <1>2, <1>3, <1>4, <1>5 DEF Run, MarkRunning, Complete, Fail, FinishCancel

LEMMA RecoverShape ==
    ASSUME TypeOK, NEW t \in Threads, Recover(t)
    PROVE  Quiet
<1>1. ASSUME NEW u \in Threads PROVE KeepsCredential(u)
  BY DEF Recover, RecoverLocked, RecoverSelect, RecoverCompareAndSet, At, TypeOK,
         KeepsCredential
<1>2. ASSUME NEW j \in Jobs,
             \/ jobs'[j] = jobs[j]
             \/ \E n \in Nat : jobs'[j] = RecoveredRow(jobs[j], n)
      PROVE  KeepsOwner(j) \/ LeavesNoOwner(j)
  BY <1>2, RecoveredRowType DEF TypeOK, KeepsOwner, LeavesNoOwner, ACTIVE_STATUSES
<1>3. ASSUME NEW j \in Jobs
      PROVE  jobs'[j] = jobs[j] \/ \E n \in Nat : jobs'[j] = RecoveredRow(jobs[j], n)
  <2>1. jobs[j].attempt \in Nat
    BY DEF TypeOK, Row
  <2>2. (\E c \in threads[t].read : c.job = j)
           => (CHOOSE c \in threads[t].read : c.job = j).attempt \in Nat
    BY ThreadFacts DEF Candidates
  <2>3. QED
    BY <2>1, <2>2 DEF Recover, RecoverLocked, RecoverSelect, RecoverCompareAndSet
<1>4. QED
  BY <1>1, <1>2, <1>3 DEF Quiet

LEMMA OtherShapes ==
    ASSUME TypeOK, Ownership,
           \/ \E j \in Jobs : Enqueue(j) \/ BecomeDue(j) \/ LeaseLapses(j)
           \/ \E t \in Threads : NothingToClaim(t) \/ ClaimSelect(t) \/ Heartbeat(t)
           \/ \E c \in Cancellers : CancelRead(c) \/ CancelCompareAndSet(c)
           \/ \E w \in Workers : Crash(w) \/ RequestStop(w) \/ Drained(w) \/ Restart(w)
           \/ UNCHANGED vars
    PROVE  Quiet
<1>1. ASSUME threads' = threads, NEW t \in Threads PROVE KeepsCredential(t)
  BY <1>1 DEF KeepsCredential
<1>2. ASSUME jobs' = jobs, NEW j \in Jobs PROVE KeepsOwner(j)
  BY <1>2 DEF KeepsOwner
<1>3. CASE UNCHANGED vars
  BY <1>1, <1>2, <1>3 DEF vars, Quiet
<1>4. ASSUME NEW j \in Jobs, Enqueue(j) \/ BecomeDue(j) \/ LeaseLapses(j) PROVE Quiet
  <2>1. ASSUME NEW i \in Jobs PROVE KeepsOwner(i) \/ LeavesNoOwner(i)
    <3>1. ASSUME Enqueue(j) PROVE KeepsOwner(i) \/ LeavesNoOwner(i)
      <4>1. PICK future \in BOOLEAN :
              jobs' = [jobs EXCEPT ![j] =
                         [@ EXCEPT !.status = IF future THEN "scheduled" ELSE "pending",
                                   !.due = ~future]]
        BY <3>1 DEF Enqueue
      <4>2. /\ jobs'[j].status \in {"scheduled", "pending"}
            /\ jobs'[j].token = jobs[j].token
            /\ jobs'[j].worker = jobs[j].worker
            /\ jobs'[j].lease = jobs[j].lease
        BY <4>1 DEF TypeOK, Row
      <4>3. /\ jobs[j].token = NoToken
            /\ jobs[j].worker = NoWorker
            /\ jobs[j].lease = "none"
        BY <3>1 DEF Enqueue, Ownership, OwnershipMatchesStatus, ACTIVE_STATUSES
      <4>4. i # j => jobs'[i] = jobs[i]
        BY <4>1 DEF TypeOK
      <4>5. QED
        BY <4>2, <4>3, <4>4 DEF KeepsOwner, LeavesNoOwner, ACTIVE_STATUSES
    <3>2. BecomeDue(j) \/ LeaseLapses(j) => KeepsOwner(i)
      BY DEF BecomeDue, LeaseLapses, TypeOK, Row, KeepsOwner
    <3>3. QED
      BY <1>4, <3>1, <3>2
  <2>2. threads' = threads
    BY <1>4 DEF Enqueue, BecomeDue, LeaseLapses
  <2>3. QED
    BY <1>1, <2>1, <2>2 DEF Quiet
<1>5. ASSUME NEW t \in Threads, NothingToClaim(t) \/ ClaimSelect(t) PROVE Quiet
  <2>1. ASSUME NEW u \in Threads PROVE KeepsCredential(u)
    BY <1>5 DEF NothingToClaim, BackToPoll, ClaimSelect, At, TypeOK, KeepsCredential
  <2>2. jobs' = jobs
    BY <1>5 DEF NothingToClaim, ClaimSelect
  <2>3. QED
    BY <1>2, <2>1, <2>2 DEF Quiet
<1>6. ASSUME NEW t \in Threads, Heartbeat(t) PROVE Quiet
  <2>1. CASE HeartbeatRead(t)
    BY <1>1, <1>2, <2>1 DEF HeartbeatRead, Quiet
  <2>2. CASE HeartbeatWrite(t)
    <3>1. beats[t].job \in Jobs
      BY <2>2 DEF HeartbeatWrite, TypeOK, Beat, LiveBeat, NoBeat
    <3>2. ASSUME NEW u \in Threads PROVE KeepsCredential(u)
      BY <2>2, <3>1, WithoutCandidateFacts DEF HeartbeatWrite, KeepsCredential
    <3>3. ASSUME NEW j \in Jobs PROVE KeepsOwner(j)
      BY <2>2, <3>1 DEF HeartbeatWrite, HeartbeatSource, TypeOK, Row, KeepsOwner, Ownership,
                        OwnershipMatchesStatus
    <3>4. QED
      BY <3>2, <3>3 DEF Quiet
  <2>3. QED
    BY <1>6, <2>1, <2>2 DEF Heartbeat
<1>7. ASSUME NEW c \in Cancellers, CancelRead(c) \/ CancelCompareAndSet(c) PROVE Quiet
  <2>1. ASSUME CancelCompareAndSet(c), NEW j \in Jobs
        PROVE  KeepsOwner(j) \/ LeavesNoOwner(j)
    <3>1. /\ cancels[c].job \in Jobs
          /\ cancels[c].seen \in OpenToCancel
      BY <2>1 DEF CancelCompareAndSet, TypeOK, Cancel, LiveCancel, NoCancel
    <3>2. CASE CancelMatches(c)
      <4> DEFINE k == cancels[c].job
      <4>1. jobs' = [jobs EXCEPT ![k] = CancelledRow(jobs[k])]
        BY <2>1, <3>2 DEF CancelCompareAndSet
      <4>2. jobs[k].status \in OpenToCancel /\ jobs[k] \in Row
        BY <3>1, <3>2 DEF CancelMatches, TypeOK
      <4>3. CASE jobs[k].status \in ENQUEUED_STATUSES
        <5>1. LET r == CancelledRow(jobs[k])
              IN  r.token = NoToken /\ r.worker = NoWorker /\ r.lease = "none"
                    /\ r.status = "cancelled"
          BY <4>2, <4>3 DEF CancelledRow, Released, Row
        <5>2. QED
          BY <3>1, <4>1, <5>1 DEF KeepsOwner, LeavesNoOwner, TypeOK, ACTIVE_STATUSES
      <4>4. CASE jobs[k].status \notin ENQUEUED_STATUSES
        <5>1. LET r == CancelledRow(jobs[k])
              IN  r.token = jobs[k].token /\ r.worker = jobs[k].worker
                    /\ r.lease = jobs[k].lease /\ r.status = "cancel_requested"
          BY <4>2, <4>4 DEF CancelledRow, Row
        <5>2. jobs[k].status \in ACTIVE_STATUSES
          BY <4>2, <4>4 DEF OpenToCancel, ACTIVE_STATUSES
        <5>3. QED
          BY <3>1, <4>1, <5>1, <5>2 DEF KeepsOwner, TypeOK
      <4>5. QED
        BY <4>3, <4>4
    <3>3. CASE ~CancelMatches(c)
      BY <1>2, <2>1, <3>3 DEF CancelCompareAndSet
    <3>4. QED
      BY <3>2, <3>3
  <2>2. threads' = threads
    BY <1>7 DEF CancelRead, CancelCompareAndSet
  <2>3. QED
    BY <1>1, <1>2, <1>7, <2>1, <2>2 DEF CancelRead, Quiet
<1>8. ASSUME NEW w \in Workers, Crash(w) \/ RequestStop(w) \/ Drained(w) \/ Restart(w)
      PROVE  Quiet
  <2>1. ASSUME NEW u \in Threads PROVE KeepsCredential(u)
    BY <1>8 DEF Crash, RequestStop, Drained, Restart, At, KeepsCredential
  <2>2. jobs' = jobs
    BY <1>8 DEF Crash, RequestStop, Drained, Restart
  <2>3. QED
    BY <1>2, <2>1, <2>2 DEF Quiet
<1>9. QED
  BY <1>3, <1>4, <1>5, <1>6, <1>7, <1>8

LEMMA NextOwnership == TypeOK /\ Ownership /\ [Next]_vars => Ownership'
<1> SUFFICES ASSUME TypeOK, Ownership, [Next]_vars PROVE Ownership'
  OBVIOUS
<1>1. ASSUME NEW t \in Threads, Recover(t) PROVE Ownership'
  BY <1>1, RecoverShape, QuietOwnership
<1>2. ASSUME NEW t \in Threads, Claim(t) PROVE Ownership'
  <2>1. \/ \E j \in Jobs : ClaimRow(t, j)
        \/ NothingToClaim(t)
        \/ ClaimSelect(t)
    BY <1>2, ClaimCases
  <2>2. QED
    BY <2>1, ClaimOwnership, OtherShapes, QuietOwnership
<1>3. ASSUME NEW t \in Threads, Run(t) PROVE Ownership'
  BY <1>3, RunShape, MarkRunningOwnership, QuietOwnership
<1>4. ASSUME NEW t \in Threads, Heartbeat(t) PROVE Ownership'
  BY <1>4, OtherShapes, QuietOwnership
<1>5. QED
  BY <1>1, <1>2, <1>3, <1>4, OtherShapes, QuietOwnership DEF Next

LEMMA InitOwnership == Init => Ownership
<1> SUFFICES ASSUME Init PROVE Ownership
  OBVIOUS
<1>1. \A j \in Jobs : jobs[j] = NewRow
  BY DEF Init
<1>2. \A t \in Threads : threads[t].token = NoToken
  BY DEF Init, At
<1>3. OwnershipMatchesStatus
  BY <1>1 DEF OwnershipMatchesStatus, NewRow, ACTIVE_STATUSES
<1>4. UniqueTokens
  BY <1>1, <1>2 DEF UniqueTokens, NewRow
<1>5. OwnersFollowRows
  BY <1>2 DEF OwnersFollowRows, Matches
<1>6. QED
  BY <1>3, <1>4, <1>5 DEF Ownership

\* Only a row a worker owns can be passed by a fence, and its token was captured by
\* one thread.
LEMMA OwnershipGivesOneOwner ==
    ASSUME TypeOK, Ownership
    PROVE  OneOwner
<1> SUFFICES ASSUME NEW j \in Jobs, NEW t \in Threads, NEW u \in Threads,
                    CanWrite(t, j), CanWrite(u, j)
             PROVE  t = u
  BY DEF OneOwner
<1>1. jobs[j].worker # NoWorker
  BY ProcessAssumption, NullAssumption DEF CanWrite, Owns
<1>2. jobs[j].token # NoToken
  BY <1>1 DEF Ownership, OwnershipMatchesStatus
<1>3. QED
  BY <1>2 DEF CanWrite, Owns, Ownership, UniqueTokens

LEMMA OwnershipInvariant == Spec => []Ownership
<1>1. Ownership /\ TypeOK /\ [Next]_vars => Ownership'
  BY NextOwnership
<1>2. QED
  BY <1>1, InitOwnership, TypeCorrect, PTL DEF Spec

\* A job is owned exactly while its status says so, for any number of jobs, threads,
\* processes, cancel requests and attempts and on both databases.
THEOREM OwnedWhileActive == Spec => []OwnershipMatchesStatus
<1>1. Ownership => OwnershipMatchesStatus
  BY DEF Ownership
<1>2. QED
  BY <1>1, OwnershipInvariant, PTL

\* No two threads can ever both pass the fence of one job.
THEOREM SingleOwner == Spec => []OneOwner
BY OwnershipInvariant, TypeCorrect, OwnershipGivesOneOwner, PTL

-----------------------------------------------------------------------------
(***************************************************************************)
(* What a step may do to a row.  Whatever happens in the system, one row   *)
(* sees one of seven moves; the properties below are read off these moves. *)
(***************************************************************************)

\* A thread that matches the row after the step matched it before.
OwnersStay(j) ==
    \A t \in Threads : Matches(t, j)' =>
        /\ Matches(t, j)
        /\ threads'[t].pc = "mark" => threads[t].pc = "mark"

\* The status, the attempts and the cancellation mark of a row after the step.
Reads(j, s, n, asked) == /\ jobs'[j].status = s
                         /\ jobs'[j].attempt = n
                         /\ jobs'[j].cancelAsked = asked

Rests(j) ==
    /\ Reads(j, jobs[j].status, jobs[j].attempt, jobs[j].cancelAsked)
    /\ jobs'[j].token = jobs[j].token
    /\ OwnersStay(j)

Submitted(j) ==
    /\ jobs[j].status = "absent"
    /\ \E s \in {"pending", "scheduled"} : Reads(j, s, jobs[j].attempt, jobs[j].cancelAsked)
    /\ jobs'[j].token = NoToken

Taken(j) ==
    /\ jobs[j].status \in ENQUEUED_STATUSES
    /\ Reads(j, "claimed", jobs[j].attempt, jobs[j].cancelAsked)
    /\ jobs'[j].token # NoToken
    /\ \E t \in Threads : Matches(t, j)'

Started(j) ==
    /\ jobs[j].status \in {"claimed", "cancel_requested"}
    /\ Reads(j, "running", jobs[j].attempt + 1, jobs[j].cancelAsked)
    /\ jobs'[j].token = jobs[j].token
    /\ \A t \in Threads : Matches(t, j)' <=> Matches(t, j)
    /\ \E t \in Threads : Matches(t, j) /\ threads[t].pc = "mark" /\ threads'[t].pc = "run"

Settled(j) ==
    /\ jobs[j].status \in {"running", "cancel_requested"}
    /\ \E t \in Threads :
          /\ Matches(t, j)
          /\ threads'[t].pc = "poll"
          /\ \E s \in {"succeeded", "failed", "cancelled",
                       IF jobs[j].attempt < MaxAttempts THEN "retry_wait" ELSE "dead_lettered"} :
                /\ Reads(j, s, jobs[j].attempt, jobs[j].cancelAsked)
                /\ s = "cancelled" => threads[t].error = "cancelled"
    /\ jobs'[j].token = NoToken

Asked(j) ==
    \/ /\ jobs[j].status \in ENQUEUED_STATUSES
       /\ Reads(j, "cancelled", jobs[j].attempt, TRUE)
       /\ jobs'[j].token = NoToken
    \/ /\ jobs[j].status \in {"claimed", "running"}
       /\ Reads(j, "cancel_requested", jobs[j].attempt, TRUE)
       /\ jobs'[j].token = jobs[j].token
       /\ \A t \in Threads : threads'[t] = threads[t]

TakenBack(j) ==
    /\ jobs[j].status \in {"claimed", "running"}
    /\ jobs[j].lease = "lapsed"
    /\ \E s \in {"pending", "dead_lettered"} :
          /\ Reads(j, s, jobs[j].attempt, jobs[j].cancelAsked)
          /\ Dialect = "postgresql" => s = IF jobs[j].attempt < MaxAttempts
                                           THEN "pending" ELSE "dead_lettered"
    /\ jobs'[j].token = NoToken

Moves(j) == \/ Rests(j) \/ Submitted(j) \/ Taken(j) \/ Started(j)
            \/ Settled(j) \/ Asked(j) \/ TakenBack(j)

\* What a polling thread remembers: only SQLite reads before it writes, and only
\* enqueued rows are candidates of a claim.
Remembers ==
    \A t \in Threads :
        /\ threads[t].pc = "recover" => Dialect = "sqlite"
        /\ threads[t].pc = "cas" => \A c \in threads[t].read : c.status \in ENQUEUED_STATUSES

\* A thread gives up its run as cancelled only after it read the cancellation mark.
CancelledAfterAsked ==
    \A t \in Threads : threads[t].error = "cancelled"
                         => threads[t].job \in Jobs /\ jobs[threads[t].job].cancelAsked

LEMMA RowFacts ==
    ASSUME TypeOK, Ownership, NEW j \in Jobs
    PROVE  /\ jobs[j] \in Row
           /\ jobs[j].status \notin ACTIVE_STATUSES <=> jobs[j].token = NoToken
BY DEF TypeOK, Ownership, OwnershipMatchesStatus

\* Where a step leaves the row's token and every thread's credential, nobody new
\* matches the row.
LEMMA QuietStay ==
    ASSUME Quiet, NEW j \in Jobs, jobs'[j].token = jobs[j].token
    PROVE  OwnersStay(j)
BY DEF Quiet, KeepsCredential, OwnersStay, Matches

LEMMA SameRowRests ==
    ASSUME Quiet, NEW j \in Jobs, jobs'[j] = jobs[j]
    PROVE  Rests(j)
BY QuietStay DEF Rests, Reads

LEMMA EventMoves ==
    ASSUME TypeOK, Ownership, NEW i \in Jobs,
           Enqueue(i) \/ BecomeDue(i) \/ LeaseLapses(i), NEW j \in Jobs
    PROVE  Moves(j)
<1>1. Quiet /\ threads' = threads
  BY OtherShapes DEF Enqueue, BecomeDue, LeaseLapses
<1>2. CASE i # j
  <2>1. jobs'[j] = jobs[j]
    BY <1>2 DEF Enqueue, BecomeDue, LeaseLapses, TypeOK
  <2>2. QED
    BY <1>1, <2>1, SameRowRests DEF Moves
<1>3. CASE i = j /\ Enqueue(i)
  <2>1. PICK future \in BOOLEAN :
          jobs' = [jobs EXCEPT ![j] =
                     [@ EXCEPT !.status = IF future THEN "scheduled" ELSE "pending",
                               !.due = ~future]]
    BY <1>3 DEF Enqueue
  <2>2. /\ jobs'[j].status \in {"scheduled", "pending"}
        /\ jobs'[j].token = jobs[j].token
        /\ jobs'[j].attempt = jobs[j].attempt
        /\ jobs'[j].cancelAsked = jobs[j].cancelAsked
    BY <2>1 DEF TypeOK, Row
  <2>3. jobs[j].status = "absent" /\ jobs[j].token = NoToken
    BY <1>3, RowFacts DEF Enqueue, ACTIVE_STATUSES
  <2>4. QED
    BY <2>2, <2>3 DEF Moves, Submitted, Reads
<1>4. CASE i = j /\ (BecomeDue(i) \/ LeaseLapses(i))
  <2>1. /\ Reads(j, jobs[j].status, jobs[j].attempt, jobs[j].cancelAsked)
        /\ jobs'[j].token = jobs[j].token
    BY <1>4 DEF BecomeDue, LeaseLapses, TypeOK, Row, Reads
  <2>2. QED
    BY <1>1, <2>1, QuietStay DEF Moves, Rests
<1>5. QED
  BY <1>2, <1>3, <1>4

LEMMA RecoverMoves ==
    ASSUME TypeOK, Ownership, Remembers, NEW t \in Threads, Recover(t), NEW j \in Jobs
    PROVE  Moves(j)
<1>1. Quiet
  BY RecoverShape
<1>2. CASE jobs'[j] = jobs[j]
  BY <1>1, <1>2, SameRowRests DEF Moves
<1>3. ASSUME jobs'[j] # jobs[j] PROVE TakenBack(j)
  <2>1. jobs[j] \in Row /\ jobs[j].attempt \in Nat
    BY DEF TypeOK, Row
  <2>2. Expired(j)
    BY <1>3 DEF Recover, RecoverLocked, RecoverSelect, RecoverCompareAndSet, TypeOK
  <2>3. PICK n \in Nat : /\ jobs'[j] = RecoveredRow(jobs[j], n)
                         /\ Dialect = "postgresql" => n = jobs[j].attempt
    <3>1. CASE RecoverLocked(t)
      BY <1>3, <2>1, <2>2, <3>1 DEF RecoverLocked
    <3>2. CASE RecoverCompareAndSet(t)
      <4>1. \E c \in threads[t].read : c.job = j
        BY <1>3, <3>2 DEF RecoverCompareAndSet
      <4>2. (CHOOSE c \in threads[t].read : c.job = j).attempt \in Nat
        BY <4>1, ThreadFacts DEF Candidates
      <4>3. Dialect # "postgresql"
        BY <3>2 DEF RecoverCompareAndSet, Remembers
      <4>4. QED
        BY <2>2, <3>2, <4>1, <4>2, <4>3 DEF RecoverCompareAndSet
    <3>3. QED
      BY <1>3, <3>1, <3>2 DEF Recover, RecoverSelect
  <2>4. /\ jobs'[j].status = IF n < MaxAttempts THEN "pending" ELSE "dead_lettered"
        /\ jobs'[j].attempt = jobs[j].attempt
        /\ jobs'[j].cancelAsked = jobs[j].cancelAsked
        /\ jobs'[j].token = NoToken
    BY <2>1, <2>3, RecoveredRowType
  <2>5. QED
    BY <2>2, <2>3, <2>4 DEF TakenBack, Expired, Reads
<1>4. QED
  BY <1>2, <1>3 DEF Moves

LEMMA ClaimRowMoves ==
    ASSUME TypeOK, Ownership, NEW t \in Threads, NEW i \in Jobs, ClaimRow(t, i),
           jobs[i].status \in ENQUEUED_STATUSES, NEW j \in Jobs
    PROVE  Moves(j)
<1>1. PICK token \in FreshTokens :
        /\ jobs' = [jobs EXCEPT ![i] =
                      [@ EXCEPT !.status = "claimed", !.worker = ProcessOf[t],
                                !.token = token, !.lease = "live"]]
        /\ threads' = [WithoutCandidate(i) EXCEPT ![t] =
                         [At("mark") EXCEPT !.job = i, !.token = token]]
  BY DEF ClaimRow
<1>2. token # NoToken /\ jobs[j].token # token
  BY <1>1, NullAssumption DEF FreshTokens, TokensInUse
<1>3. /\ threads'[t].token = token
      /\ \A u \in Threads \ {t} : /\ threads'[u].pc = threads[u].pc
                                  /\ threads'[u].token = threads[u].token
  BY <1>1, WithoutCandidateFacts DEF At
<1>4. CASE i = j
  <2>1. /\ Reads(j, "claimed", jobs[j].attempt, jobs[j].cancelAsked)
        /\ jobs'[j].token = token
    BY <1>1, <1>4 DEF TypeOK, Row, Reads
  <2>2. QED
    BY <1>2, <1>3, <1>4, <2>1 DEF Moves, Taken, Matches
<1>5. CASE i # j
  <2>1. jobs'[j] = jobs[j]
    BY <1>1, <1>5 DEF TypeOK
  <2>2. OwnersStay(j)
    BY <1>2, <1>3, <2>1 DEF OwnersStay, Matches
  <2>3. QED
    BY <2>1, <2>2 DEF Moves, Rests, Reads
<1>6. QED
  BY <1>4, <1>5

LEMMA ClaimMoves ==
    ASSUME TypeOK, Ownership, Remembers, NEW t \in Threads, Claim(t), NEW j \in Jobs
    PROVE  Moves(j)
<1>1. CASE NothingToClaim(t) \/ ClaimSelect(t)
  <2>1. Quiet
    BY <1>1, OtherShapes
  <2>2. jobs' = jobs
    BY <1>1 DEF NothingToClaim, ClaimSelect
  <2>3. QED
    BY <2>1, <2>2, SameRowRests DEF Moves
<1>2. ASSUME NEW i \in Jobs, Due(i), ClaimRow(t, i) PROVE Moves(j)
  BY <1>2, ClaimRowMoves DEF Due
<1>3. ASSUME NEW c \in threads[t].read, threads[t].pc = "cas", Unchanged(c), ClaimRow(t, c.job)
      PROVE  Moves(j)
  <2>1. c.job \in Jobs
    BY <1>3, ThreadFacts DEF Candidates
  <2>2. jobs[c.job].status \in ENQUEUED_STATUSES
    BY <1>3 DEF Remembers, Unchanged
  <2>3. QED
    BY <1>3, <2>1, <2>2, ClaimRowMoves
<1>4. QED
  BY <1>1, <1>2, <1>3 DEF Claim, ClaimSkipLocked, ClaimCompareAndSet

LEMMA EndRunMoves ==
    ASSUME TypeOK, Ownership, NEW t \in Threads, threads[t].pc \in BusyPcs,
           NEW source \in SUBSET ACTIVE_STATUSES, FencedUpdate(t, threads[t].job, source),
           threads[t].pc # "mark",
           NEW r \in Row, EndRun(t, r),
           r.status \in {"succeeded", "failed", "cancelled",
                         IF jobs[threads[t].job].attempt < MaxAttempts
                         THEN "retry_wait" ELSE "dead_lettered"},
           r.status = "cancelled" => threads[t].error = "cancelled",
           r.attempt = jobs[threads[t].job].attempt,
           r.cancelAsked = jobs[threads[t].job].cancelAsked,
           r.token = NoToken, r.worker = NoWorker, r.lease = "none",
           NEW j \in Jobs
    PROVE  Moves(j)
<1>1. threads[t].job \in Jobs /\ threads[t].token \in Tokens
  BY ThreadFacts
<1>2. r.status \notin ACTIVE_STATUSES
  BY DEF ACTIVE_STATUSES
<1>3. Quiet
  BY <1>1, <1>2, EndRunQuiet
<1>4. CASE threads[t].job # j
  <2>1. jobs'[j] = jobs[j]
    BY <1>1, <1>4 DEF EndRun, TypeOK
  <2>2. QED
    BY <1>3, <2>1, SameRowRests DEF Moves
<1>5. CASE threads[t].job = j
  <2>1. jobs'[j] = r /\ threads'[t].pc = "poll"
    BY <1>5 DEF EndRun, BackToPoll, At, TypeOK
  <2>2. Matches(t, j)
    BY <1>1, <1>5, NullAssumption DEF FencedUpdate, Owns, Matches
  <2>3. jobs[j].status \in {"running", "cancel_requested"}
    BY <2>2 DEF Ownership, OwnersFollowRows, BusyPcs
  <2>4. Settled(j)
    BY <1>5, <2>1, <2>2, <2>3 DEF Settled, Reads
  <2>5. QED
    BY <2>4 DEF Moves
<1>6. QED
  BY <1>4, <1>5

LEMMA MarkRunningMoves ==
    ASSUME TypeOK, Ownership, NEW t \in Threads, MarkRunning(t),
           FencedUpdate(t, threads[t].job, {"claimed", "cancel_requested"}), NEW j \in Jobs
    PROVE  Moves(j)
<1>1. /\ threads[t].job \in Jobs /\ jobs[threads[t].job] \in Row
      /\ threads[t].token \in Tokens
  BY ThreadFacts DEF MarkRunning, BusyPcs, TypeOK
<1>2. /\ jobs' = [jobs EXCEPT ![threads[t].job] = StartedRow(jobs[threads[t].job])]
      /\ threads[t].pc = "mark" /\ threads'[t].pc = "run"
      /\ \A u \in Threads : threads'[u].token = threads[u].token
      /\ \A u \in Threads \ {t} : threads'[u] = threads[u]
  BY <1>1 DEF MarkRunning, TypeOK, Thread, IdleThread, BusyThread
<1>3. jobs'[j].token = jobs[j].token
  BY <1>1, <1>2, StartedRowType DEF TypeOK
<1>4. \A u \in Threads : Matches(u, j)' <=> Matches(u, j)
  BY <1>2, <1>3 DEF Matches
<1>5. CASE threads[t].job # j
  <2>1. jobs'[j] = jobs[j]
    BY <1>1, <1>2, <1>5 DEF TypeOK
  <2>2. QED
    BY <1>2, <1>4, <2>1 DEF Moves, Rests, OwnersStay, Reads
<1>6. CASE threads[t].job = j
  <2>1. Reads(j, "running", jobs[j].attempt + 1, jobs[j].cancelAsked)
    BY <1>1, <1>2, <1>6, StartedRowType DEF TypeOK, Reads
  <2>2. Matches(t, j) /\ jobs[j].status \in {"claimed", "cancel_requested"}
    BY <1>1, <1>6, NullAssumption DEF FencedUpdate, Owns, Matches
  <2>3. QED
    BY <1>2, <1>3, <1>4, <2>1, <2>2 DEF Moves, Started
<1>7. QED
  BY <1>5, <1>6

LEMMA RunMoves ==
    ASSUME TypeOK, Ownership, NEW t \in Threads, Run(t), NEW j \in Jobs
    PROVE  Moves(j)
<1> DEFINE k == threads[t].job
<1>1. threads[t].pc \in BusyPcs /\ k \in Jobs /\ jobs[k] \in Row /\ threads[t].error \in Errors
  BY ThreadFacts DEF Run, MarkRunning, Complete, HandlerRaises, Fail, FinishCancel,
                     BusyPcs, BusyThread, TypeOK
<1>2. CASE LeaseLost(t)
  <2>1. Quiet
    BY <1>1, <1>2, EndRunQuiet DEF LeaseLost
  <2>2. jobs'[j] = jobs[j]
    BY <1>1, <1>2 DEF LeaseLost, EndRun, TypeOK
  <2>3. QED
    BY <2>1, <2>2, SameRowRests DEF Moves
<1>3. CASE HandlerRaises(t)
  <2>1. jobs' = jobs
    BY <1>3 DEF HandlerRaises
  <2>2. \A u \in Threads : /\ threads'[u].token = threads[u].token
                           /\ threads'[u].pc \in {threads[u].pc, "settle"}
    BY <1>3 DEF HandlerRaises, TypeOK, Thread, BusyThread, IdleThread
  <2>3. QED
    BY <2>1, <2>2 DEF Moves, Rests, OwnersStay, Matches, Reads
<1>4. CASE MarkRunning(t) /\ FencedUpdate(t, k, {"claimed", "cancel_requested"})
  BY <1>4, MarkRunningMoves
<1>5. CASE Complete(t) /\ FencedUpdate(t, k, {"running", "cancel_requested"})
  <2>1. EndRun(t, Released(jobs[k], "succeeded")) /\ threads[t].pc = "run"
    BY <1>5 DEF Complete
  <2>2. {"running", "cancel_requested"} \in SUBSET ACTIVE_STATUSES /\ "succeeded" \in JobStatuses
    BY DEF ACTIVE_STATUSES, JobStatuses, TERMINAL_STATUSES
  <2>3. QED
    BY <1>1, <1>5, <2>1, <2>2, EndRunMoves, ReleasedRow
<1>6. CASE Fail(t) /\ FencedUpdate(t, k, {"running", "cancel_requested"})
  <2>1. EndRun(t, FailedRow(jobs[k], threads[t].error)) /\ threads[t].pc = "settle"
    BY <1>6 DEF Fail
  <2>2. {"running", "cancel_requested"} \in SUBSET ACTIVE_STATUSES
    BY DEF ACTIVE_STATUSES
  <2>3. FailedRow(jobs[k], threads[t].error).status \in
            {"failed", IF jobs[k].attempt < MaxAttempts THEN "retry_wait" ELSE "dead_lettered"}
    BY DEF FailedRow, Released, Row
  <2>4. QED
    BY <1>1, <1>6, <2>1, <2>2, <2>3, EndRunMoves, FailedRowType
<1>7. CASE FinishCancel(t) /\ FencedUpdate(t, k, ACTIVE_STATUSES)
  <2>1. /\ EndRun(t, Released(jobs[k], "cancelled")) /\ threads[t].pc = "settle"
        /\ threads[t].error = "cancelled"
    BY <1>7 DEF FinishCancel
  <2>2. ACTIVE_STATUSES \in SUBSET ACTIVE_STATUSES /\ "cancelled" \in JobStatuses
    BY DEF JobStatuses, TERMINAL_STATUSES
  <2>3. QED
    BY <1>1, <1>7, <2>1, <2>2, EndRunMoves, ReleasedRow
<1>8. QED
  BY <1>2, <1>3, <1>4, <1>5, <1>6, <1>7 DEF Run, MarkRunning, Complete, Fail, FinishCancel

LEMMA HeartbeatMoves ==
    ASSUME TypeOK, Ownership, NEW t \in Threads, Heartbeat(t), NEW j \in Jobs
    PROVE  Moves(j)
<1>1. Quiet
  BY OtherShapes
<1>2. /\ Reads(j, jobs[j].status, jobs[j].attempt, jobs[j].cancelAsked)
      /\ jobs'[j].token = jobs[j].token
  <2>1. CASE HeartbeatRead(t)
    BY <2>1 DEF HeartbeatRead, Reads
  <2>2. CASE HeartbeatWrite(t)
    <3>1. beats[t].job \in Jobs
      BY <2>2 DEF HeartbeatWrite, TypeOK, Beat, LiveBeat, NoBeat
    <3>2. QED
      BY <2>2, <3>1 DEF HeartbeatWrite, TypeOK, Row, Reads
  <2>3. QED
    BY <2>1, <2>2 DEF Heartbeat
<1>3. QED
  BY <1>1, <1>2, QuietStay DEF Moves, Rests

LEMMA CancelMoves ==
    ASSUME TypeOK, Ownership, NEW c \in Cancellers, CancelRead(c) \/ CancelCompareAndSet(c),
           NEW j \in Jobs
    PROVE  Moves(j)
<1>1. Quiet /\ threads' = threads
  BY OtherShapes DEF CancelRead, CancelCompareAndSet
<1>2. CASE jobs'[j] = jobs[j]
  BY <1>1, <1>2, SameRowRests DEF Moves
<1>3. ASSUME jobs'[j] # jobs[j] PROVE Asked(j)
  <2>1. CancelCompareAndSet(c) /\ CancelMatches(c)
    BY <1>3 DEF CancelRead, CancelCompareAndSet
  <2>2. cancels[c].seen \in OpenToCancel /\ cancels[c].job \in Jobs
    BY <2>1 DEF CancelCompareAndSet, TypeOK, Cancel, LiveCancel, NoCancel
  <2>3. cancels[c].job = j /\ jobs'[j] = CancelledRow(jobs[j])
    BY <1>3, <2>1, <2>2 DEF CancelCompareAndSet, TypeOK
  <2>4. jobs[j].status \in OpenToCancel
    BY <2>1, <2>2, <2>3 DEF CancelMatches
  <2>5. CASE jobs[j].status \in ENQUEUED_STATUSES
    BY <2>3, <2>5 DEF CancelledRow, Released, TypeOK, Row, Asked, Reads
  <2>6. CASE jobs[j].status \in {"claimed", "running"}
    BY <1>1, <2>3, <2>6 DEF CancelledRow, ENQUEUED_STATUSES, TypeOK, Row, Asked, Reads
  <2>7. QED
    BY <2>4, <2>5, <2>6 DEF OpenToCancel
<1>4. QED
  BY <1>2, <1>3 DEF Moves

LEMMA ProcessMoves ==
    ASSUME TypeOK, Ownership, NEW w \in Workers,
           Crash(w) \/ RequestStop(w) \/ Drained(w) \/ Restart(w), NEW j \in Jobs
    PROVE  Moves(j)
<1>1. Quiet
  BY OtherShapes
<1>2. jobs' = jobs
  BY DEF Crash, RequestStop, Drained, Restart
<1>3. QED
  BY <1>1, <1>2, SameRowRests DEF Moves

\* One row, one step: one of the seven moves.
LEMMA EveryRowMoves ==
    ASSUME TypeOK, Ownership, Remembers, [Next]_vars
    PROVE  \A j \in Jobs : Moves(j)
<1>1. CASE UNCHANGED vars
  <2>1. Quiet /\ jobs' = jobs
    BY <1>1, OtherShapes DEF vars
  <2>2. QED
    BY <2>1, SameRowRests DEF Moves
<1>2. QED
  BY <1>1, EventMoves, RecoverMoves, ClaimMoves, RunMoves, HeartbeatMoves, CancelMoves,
     ProcessMoves DEF Next

-----------------------------------------------------------------------------
(***************************************************************************)
(* What the threads remember, and the invariants the moves keep.           *)
(***************************************************************************)

\* The marks of a thread after a step.
ThreadStep(t) ==
    /\ threads'[t].pc = "recover" => threads[t].pc = "recover" \/ Dialect = "sqlite"
    /\ threads'[t].pc = "cas" => \/ threads[t].pc = "cas" /\ threads'[t].read = threads[t].read
                                 \/ \A c \in threads'[t].read : c.status \in ENQUEUED_STATUSES
    /\ threads'[t].error = "cancelled" =>
          /\ threads'[t].job = threads[t].job
          /\ \/ threads[t].error = "cancelled"
             \/ threads[t].job \in Jobs /\ jobs[threads[t].job].cancelAsked

\* A thread the step leaves alone, apart from candidates it drops before recovering.
LEMMA IdleStep ==
    ASSUME NEW t \in Threads,
           \/ threads'[t] = threads[t]
           \/ \E pc \in IdlePcs \ {"recover", "cas"} : threads'[t] = At(pc)
    PROVE  ThreadStep(t)
<1>1. CASE threads'[t] = threads[t]
  BY <1>1 DEF ThreadStep
<1>2. ASSUME NEW pc \in IdlePcs \ {"recover", "cas"}, threads'[t] = At(pc)
      PROVE  ThreadStep(t)
  <2>1. threads'[t].pc = pc /\ threads'[t].error = "none"
    BY <1>2 DEF At
  <2>2. QED
    BY <2>1 DEF ThreadStep
<1>3. QED
  BY <1>1, <1>2

LEMMA WithoutCandidateStep ==
    ASSUME TypeOK, NEW j \in Jobs, NEW t \in Threads, threads'[t] = WithoutCandidate(j)[t]
    PROVE  ThreadStep(t)
<1>1. CASE threads[t].pc = "recover"
  <2>1. threads'[t].pc = "recover" /\ threads[t].error = "none" /\ threads'[t].error = "none"
    <3>1. threads[t] \in IdleThread
      BY <1>1, ThreadFacts DEF BusyPcs
    <3>2. threads[t].error = "none"
      BY <3>1 DEF IdleThread
    <3>3. QED
      BY <1>1, <3>2, WithoutCandidateFacts
  <2>2. QED
    BY <1>1, <2>1 DEF ThreadStep
<1>2. CASE threads[t].pc # "recover"
  BY <1>2, IdleStep DEF WithoutCandidate
<1>3. QED
  BY <1>1, <1>2

LEMMA ThreadSteps ==
    ASSUME TypeOK, [Next]_vars, NEW u \in Threads
    PROVE  ThreadStep(u)
<1>1. CASE threads' = threads
  BY <1>1, IdleStep
<1>2. ASSUME NEW t \in Threads, Recover(t) PROVE ThreadStep(u)
  <2>1. CASE RecoverSelect(t)
    BY <2>1, IdleStep DEF RecoverSelect, TypeOK, At, ThreadStep
  <2>2. CASE RecoverLocked(t) \/ RecoverCompareAndSet(t)
    BY <2>2, IdleStep DEF RecoverLocked, RecoverCompareAndSet, TypeOK, IdlePcs
  <2>3. QED
    BY <1>2, <2>1, <2>2 DEF Recover
<1>3. ASSUME NEW t \in Threads, Claim(t) PROVE ThreadStep(u)
  <2>1. CASE NothingToClaim(t)
    BY <2>1, IdleStep DEF NothingToClaim, BackToPoll, TypeOK, IdlePcs
  <2>2. CASE ClaimSelect(t)
    BY <2>2, IdleStep DEF ClaimSelect, Candidate, Due, TypeOK, At, ThreadStep
  <2>3. ASSUME NEW j \in Jobs, ClaimRow(t, j) PROVE ThreadStep(u)
    <3>1. PICK token \in Tokens :
            threads' = [WithoutCandidate(j) EXCEPT ![t] =
                          [At("mark") EXCEPT !.job = j, !.token = token]]
      BY <2>3 DEF ClaimRow, FreshTokens
    <3>2. CASE u = t
      BY <3>1, <3>2, WithoutCandidateFacts DEF ThreadStep, At
    <3>3. CASE u # t
      BY <3>1, <3>3, WithoutCandidateStep
    <3>4. QED
      BY <3>2, <3>3
  <2>4. QED
    BY <1>3, <2>1, <2>2, <2>3, ClaimCases
<1>4. ASSUME NEW t \in Threads, Run(t) PROVE ThreadStep(u)
  <2>1. CASE BackToPoll(t)
    BY <2>1, IdleStep DEF BackToPoll, TypeOK, IdlePcs
  <2>2. CASE threads' = [threads EXCEPT ![t].pc = "run"]
    BY <2>2, IdleStep DEF TypeOK, Thread, IdleThread, BusyThread, ThreadStep
  <2>3. CASE HandlerRaises(t)
    <3>1. threads[t].job \in Jobs /\ threads[t] \in BusyThread
      BY <2>3, ThreadFacts DEF HandlerRaises, BusyPcs
    <3>2. PICK e \in RaisedErrors(threads[t].job) :
            threads' = [threads EXCEPT ![t].pc = "settle", ![t].error = e]
      BY <2>3 DEF HandlerRaises
    <3>3. u = t => /\ threads'[u].pc = "settle" /\ threads'[u].error = e
                   /\ threads'[u].job = threads[u].job
      BY <3>1, <3>2 DEF TypeOK, BusyThread
    <3>4. u # t => threads'[u] = threads[u]
      BY <3>2 DEF TypeOK
    <3>5. QED
      BY <3>1, <3>2, <3>3, <3>4, IdleStep DEF ThreadStep, RaisedErrors
  <2>4. QED
    BY <1>4, <2>1, <2>2, <2>3 DEF Run, MarkRunning, Complete, Fail, FinishCancel, LeaseLost, EndRun
<1>5. ASSUME NEW t \in Threads, Heartbeat(t) PROVE ThreadStep(u)
  <2>1. beats[t].pc = "write" => beats[t].job \in Jobs
    BY DEF TypeOK, Beat, LiveBeat, NoBeat
  <2>2. QED
    BY <1>1, <1>5, <2>1, WithoutCandidateStep
       DEF Heartbeat, HeartbeatRead, HeartbeatWrite
<1>6. ASSUME NEW w \in Workers, Crash(w) \/ RequestStop(w) \/ Drained(w) \/ Restart(w)
      PROVE  ThreadStep(u)
  BY <1>6, IdleStep DEF Crash, RequestStop, Drained, Restart, IdlePcs
<1>7. ASSUME NEW j \in Jobs, Enqueue(j) \/ BecomeDue(j) \/ LeaseLapses(j) PROVE ThreadStep(u)
  BY <1>1, <1>7 DEF Enqueue, BecomeDue, LeaseLapses
<1>8. ASSUME NEW c \in Cancellers, CancelRead(c) \/ CancelCompareAndSet(c) PROVE ThreadStep(u)
  BY <1>1, <1>8 DEF CancelRead, CancelCompareAndSet
<1>9. QED
  BY <1>1, <1>2, <1>3, <1>4, <1>5, <1>6, <1>7, <1>8 DEF Next, vars

\* Attempts are within the budget wherever the next step could count one: the budget
\* itself is not inductive, since a cancellation hides that the owner has yet to start.
AttemptsLeft ==
    Dialect = "postgresql" =>
        \A j \in Jobs :
            /\ jobs[j].attempt <= MaxAttempts
            /\ jobs[j].status \in ENQUEUED_STATUSES \cup {"absent", "claimed"}
                  => jobs[j].attempt < MaxAttempts
            /\ \A t \in Threads : Matches(t, j) /\ threads[t].pc = "mark"
                  => jobs[j].attempt < MaxAttempts

Queue == TypeOK /\ Ownership /\ Remembers /\ CancelledAfterAsked /\ NoUnrequestedCancel
            /\ AttemptsLeft

LEMMA InitQueue == Init => Queue
<1> SUFFICES ASSUME Init PROVE Queue
  OBVIOUS
<1>1. TypeOK /\ Ownership
  BY InitType, InitOwnership
<1>2. Remembers /\ CancelledAfterAsked
  BY DEF Init, At, Remembers, CancelledAfterAsked
<1>3. NoUnrequestedCancel /\ AttemptsLeft
  BY AttemptAssumption DEF Init, NewRow, At, NoUnrequestedCancel, AttemptsLeft, Matches,
     ENQUEUED_STATUSES
<1>4. QED
  BY <1>1, <1>2, <1>3 DEF Queue

LEMMA AskedForGood ==
    ASSUME NEW j \in Jobs, Moves(j), jobs[j].cancelAsked
    PROVE  jobs'[j].cancelAsked
BY DEF Moves, Rests, Submitted, Taken, Started, Settled, Asked, TakenBack, Reads

LEMMA NextRemembers ==
    ASSUME Queue, [Next]_vars
    PROVE  Remembers' /\ CancelledAfterAsked'
<1>1. \A t \in Threads : ThreadStep(t)
  BY ThreadSteps DEF Queue
<1>2. \A j \in Jobs : Moves(j)
  BY EveryRowMoves DEF Queue
<1>3. Remembers'
  BY <1>1 DEF Queue, Remembers, ThreadStep
<1>4. CancelledAfterAsked'
  BY <1>1, <1>2, AskedForGood DEF Queue, CancelledAfterAsked, ThreadStep
<1>5. QED
  BY <1>3, <1>4

LEMMA NextCancels ==
    ASSUME Queue, [Next]_vars
    PROVE  NoUnrequestedCancel'
<1> SUFFICES ASSUME NEW j \in Jobs, jobs'[j].status \in {"cancel_requested", "cancelled"}
             PROVE  jobs'[j].cancelAsked
  BY DEF NoUnrequestedCancel
<1>1. Moves(j)
  BY EveryRowMoves DEF Queue
<1>2. CASE jobs[j].cancelAsked
  BY <1>1, <1>2, AskedForGood
<1>3. CASE jobs[j].status \in {"cancel_requested", "cancelled"}
  BY <1>2, <1>3 DEF Queue, NoUnrequestedCancel
<1>4. CASE Settled(j)
  <2>1. PICK t \in Threads : Matches(t, j) /\ threads[t].error = "cancelled"
    BY <1>4 DEF Settled, Reads
  <2>2. threads[t].job = j
    BY <2>1 DEF Queue, Ownership, OwnersFollowRows
  <2>3. QED
    BY <1>2, <2>1, <2>2 DEF Queue, CancelledAfterAsked
<1>5. CASE Asked(j)
  BY <1>5 DEF Asked, Reads
<1>6. QED
  BY <1>1, <1>3, <1>4, <1>5 DEF Moves, Rests, Submitted, Taken, Started, TakenBack, Reads

LEMMA NextAttempts ==
    ASSUME Queue, [Next]_vars
    PROVE  AttemptsLeft'
<1> SUFFICES ASSUME Dialect = "postgresql", NEW j \in Jobs
             PROVE  /\ jobs'[j].attempt <= MaxAttempts
                    /\ jobs'[j].status \in ENQUEUED_STATUSES \cup {"absent", "claimed"}
                          => jobs'[j].attempt < MaxAttempts
                    /\ \A t \in Threads : Matches(t, j)' /\ threads'[t].pc = "mark"
                          => jobs'[j].attempt < MaxAttempts
  BY DEF AttemptsLeft
<1>1. Moves(j) /\ jobs[j].attempt \in Nat /\ MaxAttempts \in Nat
  BY EveryRowMoves, AttemptAssumption DEF Queue, TypeOK, Row
<1>2. /\ jobs[j].attempt <= MaxAttempts
      /\ jobs[j].status \in ENQUEUED_STATUSES \cup {"absent", "claimed"}
            => jobs[j].attempt < MaxAttempts
      /\ \A t \in Threads : Matches(t, j) /\ threads[t].pc = "mark"
            => jobs[j].attempt < MaxAttempts
  BY DEF Queue, AttemptsLeft
<1>3. CASE Rests(j)
  BY <1>2, <1>3 DEF Rests, Reads, OwnersStay
<1>4. CASE Submitted(j)
  BY <1>1, <1>2, <1>4 DEF Submitted, Reads, Matches
<1>5. CASE Taken(j)
  BY <1>1, <1>2, <1>5 DEF Taken, Reads
<1>6. CASE Started(j)
  <2>1. PICK t \in Threads : Matches(t, j) /\ threads[t].pc = "mark" /\ threads'[t].pc = "run"
    BY <1>6 DEF Started
  <2>2. jobs'[j].attempt = jobs[j].attempt + 1 /\ jobs'[j].status = "running"
    BY <1>6 DEF Started, Reads
  <2>3. jobs[j].attempt + 1 <= MaxAttempts
    BY <1>1, <1>2, <2>1
  <2>4. ASSUME NEW u \in Threads, Matches(u, j)' PROVE u = t
    BY <1>6, <2>1, <2>4 DEF Started, Matches, Queue, Ownership, UniqueTokens
  <2>5. QED
    BY <2>1, <2>2, <2>3, <2>4 DEF ENQUEUED_STATUSES
<1>7. CASE Settled(j)
  <2>1. /\ jobs'[j].attempt = jobs[j].attempt
        /\ jobs'[j].status \in {"succeeded", "failed", "cancelled",
              IF jobs[j].attempt < MaxAttempts THEN "retry_wait" ELSE "dead_lettered"}
        /\ jobs'[j].token = NoToken
    BY <1>7 DEF Settled, Reads
  <2>2. QED
    BY <1>2, <2>1 DEF Matches, ENQUEUED_STATUSES
<1>8. CASE Asked(j)
  <2>1. /\ jobs'[j].attempt = jobs[j].attempt
        /\ jobs'[j].status \in {"cancelled", "cancel_requested"}
        /\ \A t \in Threads : Matches(t, j)' => Matches(t, j) /\ threads'[t].pc = threads[t].pc
    BY <1>8 DEF Asked, Reads, Matches
  <2>2. QED
    BY <1>2, <2>1 DEF ENQUEUED_STATUSES
<1>9. CASE TakenBack(j)
  <2>1. /\ jobs'[j].attempt = jobs[j].attempt
        /\ jobs'[j].status = IF jobs[j].attempt < MaxAttempts THEN "pending" ELSE "dead_lettered"
        /\ jobs'[j].token = NoToken
    BY <1>9 DEF TakenBack, Reads
  <2>2. QED
    BY <1>2, <2>1 DEF Matches, ENQUEUED_STATUSES
<1>10. QED
  BY <1>1, <1>3, <1>4, <1>5, <1>6, <1>7, <1>8, <1>9 DEF Moves

LEMMA QueueInvariant == Spec => []Queue
<1>1. ASSUME Queue, [Next]_vars PROVE Queue'
  BY <1>1, NextType, NextOwnership, NextRemembers, NextCancels, NextAttempts DEF Queue
<1>2. QED
  BY <1>1, InitQueue, PTL DEF Spec

\* A job ends cancelled, or waits to be, only after somebody asked for it: no race of
\* recovery, settlement and a retried cancel request invents a cancellation.
THEOREM CancelsAreRequested == Spec => []NoUnrequestedCancel
<1>1. Queue => NoUnrequestedCancel
  BY DEF Queue
<1>2. QED
  BY <1>1, QueueInvariant, PTL

\* On PostgreSQL no job starts more often than max_attempts and a queued job always
\* has an attempt left, through any number of crashes, recoveries and cancel requests.
THEOREM AttemptsStayInBudget ==
    ASSUME Dialect = "postgresql"
    PROVE  Spec => []AttemptBudget
<1>1. Queue => AttemptBudget
  BY DEF Queue, AttemptsLeft, AttemptBudget
<1>2. QED
  BY <1>1, QueueInvariant, PTL

\* Every status change of every row, in every interleaving and on both databases, is
\* one that _ALLOWED lists.
THEOREM TransitionsAreLegal == Spec => LegalTransitions
<1>1. ASSUME Queue, [Next]_vars
      PROVE  \A j \in Jobs : jobs[j].status \notin {"absent", jobs'[j].status}
                               => CanTransition(jobs[j].status, jobs'[j].status)
  <2> SUFFICES ASSUME NEW j \in Jobs, jobs[j].status # "absent", jobs'[j].status # jobs[j].status
               PROVE  CanTransition(jobs[j].status, jobs'[j].status)
    OBVIOUS
  <2>1. Moves(j) /\ jobs[j].status \in JobStatuses
    BY <1>1, EveryRowMoves DEF Queue, TypeOK, Row
  <2>2. CASE Taken(j) \/ Started(j) \/ Asked(j)
    BY <2>2, Zenon DEF Taken, Started, Asked, Reads, CanTransition, AllowedTargets, ENQUEUED_STATUSES
  <2>3. CASE Settled(j) \/ TakenBack(j)
    BY <2>3 DEF Settled, TakenBack, Reads, CanTransition, AllowedTargets
  <2>4. QED
    BY <2>1, <2>2, <2>3 DEF Moves, Rests, Submitted, Reads
<1>2. QED
  BY <1>1, QueueInvariant, PTL DEF Spec, LegalTransitions

\* A job leaves its owner only when that owner ended its run, or when recovery found
\* the lease lapsed.
THEOREM OwnersDecide == Spec => OwnerDecides
<1>1. ASSUME Queue, [Next]_vars
      PROVE  \A j \in Jobs :
                jobs[j].token \notin {NoToken, jobs'[j].token}
                  => \/ OwnerEnded(j)
                     \/ /\ jobs[j].lease = "lapsed"
                        /\ jobs'[j].status \in {"pending", "dead_lettered"}
  <2> SUFFICES ASSUME NEW j \in Jobs, jobs[j].token # NoToken, jobs[j].token # jobs'[j].token
               PROVE  \/ OwnerEnded(j)
                      \/ /\ jobs[j].lease = "lapsed"
                         /\ jobs'[j].status \in {"pending", "dead_lettered"}
    OBVIOUS
  <2>1. Moves(j) /\ jobs[j].status \in ACTIVE_STATUSES
    BY <1>1, EveryRowMoves DEF Queue, Ownership, OwnershipMatchesStatus
  <2>2. CASE Settled(j)
    <3>1. PICK t \in Threads : Matches(t, j) /\ threads'[t].pc = "poll"
      BY <2>2 DEF Settled
    <3>2. CanWrite(t, j)
      BY <1>1, <3>1 DEF Queue, Ownership, OwnersFollowRows, Matches, CanWrite, Owns
    <3>3. QED
      BY <3>1, <3>2 DEF OwnerEnded
  <2>3. CASE TakenBack(j)
    BY <2>3 DEF TakenBack, Reads
  <2>4. QED
    BY <2>1, <2>2, <2>3
       DEF Moves, Rests, Submitted, Taken, Started, Asked, ACTIVE_STATUSES, ENQUEUED_STATUSES
<1>2. QED
  BY <1>1, QueueInvariant, PTL DEF Spec, OwnerDecides

-----------------------------------------------------------------------------
(***************************************************************************)
(* DurableJobs implements JobLifecycle.  The refinement mapping names the  *)
(* owner with CHOOSE; ownership makes the choice unique, and each of the   *)
(* seven moves is then a step of the lifecycle or a stutter.               *)
(***************************************************************************)

LEMMA OwnerIs ==
    ASSUME NEW j \in Jobs
    PROVE  Queue => /\ jobs[j].token = NoToken => OwnerOf(j) = Nobody
                    /\ \A t \in Threads : Matches(t, j) => OwnerOf(j) = t
                    /\ jobs[j].token # NoToken /\ (\A t \in Threads : ~Matches(t, j))
                          => OwnerOf(j) = Gone
<1> SUFFICES ASSUME Queue
             PROVE  /\ jobs[j].token = NoToken => OwnerOf(j) = Nobody
                    /\ \A t \in Threads : Matches(t, j) => OwnerOf(j) = t
                    /\ jobs[j].token # NoToken /\ (\A t \in Threads : ~Matches(t, j))
                          => OwnerOf(j) = Gone
  OBVIOUS
<1>1. OneOwner
  BY OwnershipGivesOneOwner DEF Queue
<1>2. ASSUME NEW t \in Threads, Matches(t, j) PROVE OwnerOf(j) = t
  <2>1. CanWrite(t, j)
    BY <1>2 DEF Queue, Ownership, OwnersFollowRows, Matches, CanWrite, Owns
  <2>2. \A u \in Threads : CanWrite(u, j) => u = t
    BY <1>1, <2>1 DEF OneOwner
  <2>3. jobs[j].token # NoToken
    BY <1>2 DEF Matches
  <2>4. QED
    BY <2>1, <2>2, <2>3 DEF OwnerOf
<1>3. ASSUME jobs[j].token # NoToken, \A t \in Threads : ~Matches(t, j)
      PROVE  OwnerOf(j) = Gone
  <2>1. \A t \in Threads : ~CanWrite(t, j)
    BY <1>3 DEF CanWrite, Owns, Matches
  <2>2. QED
    BY <1>3, <2>1 DEF OwnerOf
<1>4. QED
  BY <1>2, <1>3 DEF OwnerOf

LEMMA OwnerIsNext ==
    ASSUME NEW j \in Jobs, Queue'
    PROVE  /\ jobs'[j].token = NoToken => OwnerOf(j)' = Nobody
           /\ \A t \in Threads : Matches(t, j)' => OwnerOf(j)' = t
           /\ jobs'[j].token # NoToken /\ (\A t \in Threads : ~Matches(t, j)')
                 => OwnerOf(j)' = Gone
<1>1. (Queue => /\ jobs[j].token = NoToken => OwnerOf(j) = Nobody
                /\ \A t \in Threads : Matches(t, j) => OwnerOf(j) = t
                /\ jobs[j].token # NoToken /\ (\A t \in Threads : ~Matches(t, j))
                      => OwnerOf(j) = Gone)'
  BY OwnerIs, PTL
<1>2. QED
  BY <1>1

LEMMA MovesAreSteps ==
    ASSUME Dialect = "postgresql", Queue, Queue', NEW j \in Jobs, Moves(j)
    PROVE  \/ Lifecycle!Step(j)
           \/ Lifecycle!Becomes(j, jobs[j].status, OwnerOf(j), jobs[j].attempt)
<1> DEFINE n == jobs[j].attempt
           o == OwnerOf(j)
<1>1. /\ jobs[j].token = NoToken => o = Nobody
      /\ \A t \in Threads : Matches(t, j) => o = t
      /\ jobs[j].token # NoToken /\ (\A t \in Threads : ~Matches(t, j)) => o = Gone
  BY OwnerIs
<1>2. /\ jobs'[j].token = NoToken => OwnerOf(j)' = Nobody
      /\ \A t \in Threads : Matches(t, j)' => OwnerOf(j)' = t
      /\ jobs'[j].token # NoToken /\ (\A t \in Threads : ~Matches(t, j)') => OwnerOf(j)' = Gone
  BY OwnerIsNext
<1>3. jobs[j].status \notin ACTIVE_STATUSES <=> jobs[j].token = NoToken
  BY RowFacts DEF Queue
<1> HIDE DEF o
<1>4. CASE Rests(j)
  <2>1. jobs'[j].status = jobs[j].status /\ jobs'[j].attempt = n
    BY <1>4 DEF Rests, Reads
  <2>2. CASE OwnerOf(j)' = o
    BY <2>1, <2>2 DEF Lifecycle!Becomes, o
  <2>3. CASE OwnerOf(j)' # o
    <3>1. jobs'[j].token = jobs[j].token /\ \A t \in Threads : Matches(t, j)' => Matches(t, j)
      BY <1>4 DEF Rests, OwnersStay
    <3>2. jobs[j].token # NoToken
      BY <1>1, <1>2, <2>3, <3>1
    <3>3. \A t \in Threads : ~Matches(t, j)'
      BY <1>1, <1>2, <2>3, <3>1
    <3>4. OwnerOf(j)' = Gone
      BY <1>2, <3>1, <3>2, <3>3
    <3>5. o \in Threads
      BY <1>1, <2>3, <3>2, <3>4
    <3>6. Lifecycle!OwnerVanishes(j)
      BY <2>1, <3>4, <3>5 DEF Lifecycle!OwnerVanishes, Lifecycle!Becomes, o
    <3>7. QED
      BY <3>6 DEF Lifecycle!Step
  <2>4. QED
    BY <2>2, <2>3
<1>5. CASE Submitted(j)
  <2>1. PICK s \in {"pending", "scheduled"} : jobs'[j].status = s /\ jobs'[j].attempt = n
    BY <1>5 DEF Submitted, Reads
  <2>2. Lifecycle!Becomes(j, s, Nobody, n)
    BY <1>2, <1>5, <2>1 DEF Lifecycle!Becomes, Submitted
  <2>3. Lifecycle!Submit(j)
    BY <1>5, <2>1, <2>2 DEF Submitted, Lifecycle!Submit, Lifecycle!Becomes
  <2>4. QED
    BY <2>3 DEF Lifecycle!Step
<1>6. CASE Taken(j)
  <2>1. PICK t \in Threads : Matches(t, j)'
    BY <1>6 DEF Taken
  <2>2. Lifecycle!Becomes(j, "claimed", t, n)
    BY <1>2, <1>6, <2>1 DEF Lifecycle!Becomes, Taken, Reads
  <2>3. Lifecycle!Take(j)
    BY <1>6, <2>1, <2>2 DEF Taken, ENQUEUED_STATUSES, Lifecycle!Take, Lifecycle!Becomes,
                            Lifecycle!ENQUEUED_STATUSES
  <2>4. QED
    BY <2>3 DEF Lifecycle!Step
<1>7. CASE Started(j)
  <2>1. PICK t \in Threads : Matches(t, j) /\ Matches(t, j)' /\ threads[t].pc = "mark"
    BY <1>7 DEF Started
  <2>2. o = t /\ OwnerOf(j)' = t
    BY <1>1, <1>2, <2>1
  <2>3. Lifecycle!Becomes(j, "running", o, n + 1)
    BY <1>7, <2>2 DEF Lifecycle!Becomes, Started, Reads
  <2>4. n < MaxAttempts
    BY <2>1 DEF Queue, AttemptsLeft
  <2>5. Lifecycle!Start(j)
    BY <1>7, <2>1, <2>2, <2>3, <2>4 DEF Started, Lifecycle!Start, Lifecycle!Becomes, o
  <2>6. QED
    BY <2>5 DEF Lifecycle!Step
<1>8. CASE Settled(j)
  <2>1. PICK t \in Threads : Matches(t, j)
    BY <1>8 DEF Settled
  <2>2. PICK s \in {"succeeded", "failed", "cancelled",
                    IF n < MaxAttempts THEN "retry_wait" ELSE "dead_lettered"} :
            jobs'[j].status = s /\ jobs'[j].attempt = n
    BY <1>8 DEF Settled, Reads
  <2>3. o \in Threads /\ OwnerOf(j)' = Nobody
    BY <1>1, <1>2, <1>8, <2>1 DEF Settled
  <2>4. Lifecycle!Becomes(j, s, Nobody, n)
    BY <2>2, <2>3 DEF Lifecycle!Becomes
  <2>5. Lifecycle!Settle(j)
    BY <1>8, <2>2, <2>3, <2>4 DEF Settled, Lifecycle!Settle, Lifecycle!Becomes, o
  <2>6. QED
    BY <2>5 DEF Lifecycle!Step
<1>9. CASE Asked(j)
  <2>1. CASE jobs[j].status \in ENQUEUED_STATUSES
    <3>1. jobs'[j].status = "cancelled" /\ jobs'[j].attempt = n /\ jobs'[j].token = NoToken
      BY <1>9, <2>1 DEF Asked, Reads, ENQUEUED_STATUSES
    <3>2. Lifecycle!Becomes(j, "cancelled", Nobody, n)
      BY <1>2, <3>1 DEF Lifecycle!Becomes
    <3>3. Lifecycle!AskCancel(j)
      BY <2>1, <3>2 DEF ENQUEUED_STATUSES, Lifecycle!AskCancel, Lifecycle!Becomes,
                        Lifecycle!ENQUEUED_STATUSES
    <3>4. QED
      BY <3>3 DEF Lifecycle!Step
  <2>2. CASE jobs[j].status \notin ENQUEUED_STATUSES
    <3>1. /\ jobs[j].status \in {"claimed", "running"}
          /\ jobs'[j].status = "cancel_requested" /\ jobs'[j].attempt = n
          /\ jobs'[j].token = jobs[j].token
          /\ \A t \in Threads : threads'[t] = threads[t]
      BY <1>9, <2>2 DEF Asked, Reads
    <3>2. \A t \in Threads : Matches(t, j)' <=> Matches(t, j)
      BY <3>1 DEF Matches
    <3>3. OwnerOf(j)' = o
      BY <1>1, <1>2, <3>1, <3>2
    <3>4. Lifecycle!Becomes(j, "cancel_requested", o, n)
      BY <3>1, <3>3 DEF Lifecycle!Becomes
    <3>5. Lifecycle!AskCancel(j)
      BY <3>1, <3>4 DEF Lifecycle!AskCancel, Lifecycle!Becomes, o
    <3>6. QED
      BY <3>5 DEF Lifecycle!Step
  <2>3. QED
    BY <2>1, <2>2
<1>10. CASE TakenBack(j)
  <2> DEFINE s == IF n < MaxAttempts THEN "pending" ELSE "dead_lettered"
  <2>1. jobs'[j].status = s /\ jobs'[j].attempt = n /\ OwnerOf(j)' = Nobody
    BY <1>2, <1>10 DEF TakenBack, Reads
  <2>2. Lifecycle!Becomes(j, s, Nobody, n)
    BY <2>1 DEF Lifecycle!Becomes
  <2>3. Lifecycle!TakeBack(j)
    BY <1>10, <2>2 DEF TakenBack, Lifecycle!TakeBack, Lifecycle!Becomes
  <2>4. QED
    BY <2>3 DEF Lifecycle!Step
<1>11. QED
  BY <1>4, <1>5, <1>6, <1>7, <1>8, <1>9, <1>10 DEF Moves

\* On PostgreSQL the queue of the source, with its tokens, leases, heartbeats, crashes
\* and races, implements the abstract lifecycle, whatever the numbers of jobs, threads,
\* processes, faults and attempts.
THEOREM QueueImplementsLifecycle ==
    ASSUME Dialect = "postgresql"
    PROVE  Spec => ImplementsLifecycle
<1>1. Init => Lifecycle!Init
  BY DEF Init, NewRow, Lifecycle!Init, OwnerOf
<1>2. ASSUME Queue, Queue', [Next]_vars PROVE Lifecycle!Next
  <2>1. \A j \in Jobs : Moves(j)
    BY <1>2, EveryRowMoves DEF Queue
  <2>2. \A j \in Jobs : \/ Lifecycle!Step(j)
                        \/ Lifecycle!Becomes(j, jobs[j].status, OwnerOf(j), jobs[j].attempt)
    BY <1>2, <2>1, MovesAreSteps
  <2>3. QED
    BY <2>2 DEF Lifecycle!Next, Lifecycle!Becomes
<1>3. QED
  BY <1>1, <1>2, QueueInvariant, PTL DEF Spec, ImplementsLifecycle, Lifecycle!Spec

=============================================================================
