------------------------------ MODULE LLMBudget ------------------------------
(***************************************************************************)
(* The shared LLM budget ledger of one workspace (app/llm/budget.py) and   *)
(* the meters that use it (app/llm/metering.py), on PostgreSQL.            *)
(*                                                                         *)
(* A meter belongs to one worker attempt of a Scout's execute job, or to a *)
(* brief outside the queue.  Each provider call is reserved at its worst   *)
(* case in a transaction of its own, made, and settled in another; what is *)
(* never settled is ended by recovery.  The jobs are those of one Scout:   *)
(* their calls are also admitted (app/jobs/admission.py, K = 1), in the    *)
(* reservation's and the settlement's transactions.  A job is reduced to   *)
(* who holds it and whether the lease is live (DurableJobs has the rest);  *)
(* the Scout's other reasons to refuse a call are a run that stops.  A     *)
(* missing period row and one of zeros are the same here.                  *)
(***************************************************************************)
EXTENDS Integers, FiniteSets, FiniteSetsExt

CONSTANTS
    Meters,   \* one per attempt or brief
    Jobs,     \* execute jobs of the Scout
    JobOf,    \* the job of each meter; NoJob for a brief
    NoJob, NoMeter,
    CallCap,  \* llm_max_calls_per_run
    Budget,   \* llm_workspace_monthly_budget_usd
    Worsts,   \* worst cases a call may have
    Reports,  \* costs a provider may report, above the worst case too
    MaxMonth, \* bound: months that begin
    MaxFaults \* bound: crashes, failed settlements and leases that lapse under a live run

ASSUME MeterAssumption == /\ IsFiniteSet(Meters)
                          /\ JobOf \in [Meters -> Jobs \cup {NoJob}]
                          /\ NoJob \notin Jobs /\ NoMeter \notin Meters
ASSUME AmountAssumption == /\ CallCap \in Nat \ {0} /\ Budget \in Nat
                           /\ Worsts \subseteq Nat /\ Reports \subseteq Nat
ASSUME BoundsAssumption == MaxMonth \in Nat \ {0} /\ MaxFaults \in Nat

VARIABLES
    tenant,  \* the workspace exists
    month,   \* the clock's month
    periods, \* llm_budget_periods
    calls,   \* llm_budget_reservations, with the usage rows of each
    meters,
    jobs,
    sweep,   \* the reservations the sweep selected, between its read and its write
    faults

vars == <<tenant, month, periods, calls, meters, jobs, sweep, faults>>

-----------------------------------------------------------------------------
Months == 1..MaxMonth
\* attempt_key: the meter and the ordinal of its call.
Keys == Meters \X (1..CallCap)

Ended == {"settled", "released", "expired"}
\* The call's admission: outstanding, ended, or resolved by an operator.
Unresolved == {"open", "unknown"}
Admissions == {"none", "known", "reconciled"} \cup Unresolved

\* age: 0, 1 once the admission's deadline has passed, 2 once expires_at has too.
NoRow == [state |-> "none", worst |-> 0, charge |-> 0, month |-> 1,
          age |-> 0, usage |-> 0, admission |-> "none"]
Reservation == [state: {"none", "reserved"} \cup Ended, worst: Nat, charge: Nat,
                month: Months, age: 0..2, usage: Nat, admission: Admissions]

NoSpend == [reserved |-> 0, settled |-> 0, violations |-> 0]
Period == [reserved: Nat, settled: Nat, violations: Nat]

\* made: calls this meter made; prior: usage rows of its job when it was bound.
Meter == [pc: {"new", "bind", "release", "idle", "calling", "failed", "over"}, made: Nat, prior: Nat]

OpenJob == [state |-> "open", holder |-> NoMeter, live |-> FALSE]
ClosedJob == [state |-> "terminal", holder |-> NoMeter, live |-> FALSE]
JobState == [state: {"open", "held", "terminal"}, holder: Meters \cup {NoMeter}, live: BOOLEAN]

NoSweep == [reading |-> FALSE, rows |-> {}]

Init == /\ tenant = TRUE
        /\ month = 1
        /\ periods = [p \in Months |-> NoSpend]
        /\ calls = [k \in Keys |-> NoRow]
        /\ meters = [m \in Meters |-> [pc |-> "new", made |-> 0, prior |-> 0]]
        /\ jobs = [j \in Jobs |-> OpenJob]
        /\ sweep = NoSweep
        /\ faults = 0

-----------------------------------------------------------------------------
KeyJob(k) == JobOf[k[1]]
Reserved(k) == calls[k].state = "reserved"
ReservedFor(j) == {k \in Keys : Reserved(k) /\ KeyJob(k) = j}

\* Mutant: recovery takes what it read, whatever the row is now.
StillReservedBug(S) == S
StillReserved(S) == {k \in S : Reserved(k)}

\* _release_rows: each row that is still reserved ends at its worst case, and each
\* period's settled amount grows by what was ended.
Recovered(expired, released) ==
    LET ends(k) == IF k \in StillReserved(expired) THEN "expired"
                   ELSE IF k \in StillReserved(released) THEN "released"
                   ELSE "none"
        ended(p) == {k \in StillReserved(expired \cup released) : calls[k].month = p}
    IN
    /\ calls' = [k \in Keys |-> IF ends(k) = "none" THEN calls[k]
                                ELSE [calls[k] EXCEPT !.state = ends(k),
                                                      !.charge = calls[k].worst]]
    /\ periods' = [p \in Months |->
                     [periods[p] EXCEPT !.settled =
                        @ + MapThenSumSet(LAMBDA k : calls[k].worst, ended(p))]]

\* release_for_job.
ReleaseForJob(j) == Recovered({}, ReservedFor(j))

\* The sweep's live_lease, and the holder's own view of its job.
LiveLease(j) == j \in Jobs /\ jobs[j].state = "held" /\ jobs[j].live
Holds(m) == JobOf[m] \in Jobs /\ jobs[JobOf[m]].holder = m

SetPc(m, pc) == meters' = [meters EXCEPT ![m].pc = pc]

-----------------------------------------------------------------------------
\* A meter's life.

\* A worker claims the job and builds the attempt's meter; a brief builds its own.
Start(m) ==
    /\ meters[m].pc = "new"
    /\ SetPc(m, "bind")
    /\ IF JobOf[m] = NoJob
       THEN jobs' = jobs
       ELSE /\ jobs[JobOf[m]].state = "open"
            /\ jobs' = [jobs EXCEPT ![JobOf[m]] = [state |-> "held", holder |-> m, live |-> TRUE]]
    /\ UNCHANGED <<tenant, month, periods, calls, sweep, faults>>

\* The calls of a job that have a usage row.
UsageRows(j) == Cardinality({k \in Keys : KeyJob(k) = j /\ calls[k].usage > 0})

\* bind: the job's recorded calls are counted ...
Bind(m) ==
    /\ meters[m].pc = "bind"
    /\ IF JobOf[m] = NoJob
       THEN SetPc(m, "idle")
       ELSE meters' = [meters EXCEPT ![m].pc = "release", ![m].prior = UsageRows(JobOf[m])]
    /\ UNCHANGED <<tenant, month, periods, calls, jobs, sweep, faults>>

\* ... and then, in a transaction of its own, what earlier attempts left in flight is
\* released.  Neither asks whether the attempt still holds the job.
ReleaseEarlier(m) ==
    /\ meters[m].pc = "release"
    /\ ReleaseForJob(JobOf[m])
    /\ SetPc(m, "idle")
    /\ UNCHANGED <<tenant, month, jobs, sweep, faults>>

\* Mutant: no unique index.
SlotFreeBug == TRUE
\* uq_scout_admission_unresolved: K = 1.
SlotFree == \A k \in Keys : calls[k].admission \notin Unresolved

\* admit_external, for a call of a queued run: the attempt holds its job under a live
\* lease, and no admission of the Scout is unresolved (else it waits, or the run stops).
Admitted(m) == JobOf[m] # NoJob => Holds(m) /\ LiveLease(JobOf[m]) /\ SlotFree

\* Mutant: the month's settled spend is compared, not what is reserved.
AffordableBug(w) == periods[month].settled + w <= Budget
\* The conditional UPDATE of the period.
Affordable(w) == periods[month].reserved + w <= Budget

NewCall(m, w) == [state |-> "reserved", worst |-> w, charge |-> 0, month |-> month,
                  age |-> 0, usage |-> 0,
                  admission |-> IF JobOf[m] = NoJob THEN "none" ELSE "open"]

\* before_attempt and reserve: admission, reservation and period in one transaction.  A
\* refusal (cap, budget, admission) makes no call and writes nothing.
Reserve(m) ==
    LET key == <<m, meters[m].made + 1>> IN
    /\ meters[m].pc = "idle"
    /\ meters[m].prior + meters[m].made < CallCap
    /\ tenant
    /\ Admitted(m)
    /\ \E w \in Worsts :
          /\ Affordable(w)
          /\ calls' = [calls EXCEPT ![key] = NewCall(m, w)]
          /\ periods' = [periods EXCEPT ![month].reserved = @ + w]
    /\ meters' = [meters EXCEPT ![m].pc = "calling", ![m].made = @ + 1]
    /\ UNCHANGED <<tenant, month, jobs, sweep, faults>>

Cheaper(a, b) == IF a < b THEN a ELSE b

Charge(row, reported) == Cheaper(reported, row.worst)

Violation(row, reported) == IF reported > row.worst THEN 1 ELSE 0

\* end_statement: an operator's resolution stands.
EndOf(row, known) == IF row.admission # "open" THEN row.admission
                     ELSE IF known THEN "known" ELSE "unknown"

\* settle of a row still reserved.
SettleReserved(k, reported, known) ==
    LET row == calls[k] IN
    /\ Reserved(k)
    /\ calls' = [calls EXCEPT ![k].state = "settled", ![k].usage = @ + 1,
                              ![k].charge = Charge(row, reported),
                              ![k].admission = EndOf(row, known)]
    /\ periods' = [periods EXCEPT ![row.month].settled = @ + Charge(row, reported),
                                  ![row.month].violations = @ + Violation(row, reported)]

\* Mutant: recovery's state is overwritten, with the settled charge.
LateSettlementBug(k, reported, known) ==
    /\ calls[k].state \in {"released", "expired"}
    /\ calls' = [calls EXCEPT ![k].state = "settled", ![k].usage = @ + 1,
                              ![k].admission = EndOf(calls[k], known)]
    /\ UNCHANGED periods
\* Mutant: recovery was first, so nothing is written.
LateDroppedBug(k, reported, known) ==
    /\ calls[k].state \in {"released", "expired"}
    /\ calls' = [calls EXCEPT ![k].admission = EndOf(calls[k], known)]
    /\ UNCHANGED periods
\* _late_settlement: recovery was first.  No money moves; the usage row is written.
LateSettlement(k, reported, known) ==
    LET row == calls[k] IN
    /\ row.state \in {"released", "expired"}
    /\ row.usage = 0
    /\ calls' = [calls EXCEPT ![k].usage = @ + 1, ![k].admission = EndOf(row, known)]
    /\ periods' = [periods EXCEPT ![row.month].violations = @ + Violation(row, reported)]

\* The tenant and its rows are gone: logged and counted only.
OrphanedSettlement(k) == calls[k].state = "none" /\ UNCHANGED <<calls, periods>>

\* after_attempt: the call ended with a reported cost, or at its worst case where the
\* outcome is unknown or carries no usage.
Settle(m) ==
    LET k == <<m, meters[m].made>> IN
    /\ meters[m].pc = "calling"
    /\ \E reported \in Reports \cup {calls[k].worst}, known \in BOOLEAN :
          /\ ~known => reported = calls[k].worst
          /\ \/ SettleReserved(k, reported, known)
             \/ LateSettlement(k, reported, known)
             \/ OrphanedSettlement(k)
    /\ SetPc(m, "idle")
    /\ UNCHANGED <<tenant, month, jobs, sweep, faults>>

\* The settlement cannot be written: the run fails and the row stays reserved.
SettleFails(m) ==
    /\ meters[m].pc = "calling"
    /\ faults < MaxFaults
    /\ faults' = faults + 1
    /\ SetPc(m, "failed")
    /\ UNCHANGED <<tenant, month, periods, calls, jobs, sweep>>

\* A run that may no longer call: refused, cancelled or failed elsewhere.
StopsCalling(m) ==
    /\ meters[m].pc = "idle"
    /\ SetPc(m, "failed")
    /\ UNCHANGED <<tenant, month, periods, calls, jobs, sweep, faults>>

\* The handler returned: release_for_job and the job's completion under one fence.
Finish(m) ==
    /\ meters[m].pc = "idle"
    /\ IF Holds(m)
       THEN /\ ReleaseForJob(JobOf[m])
            /\ jobs' = [jobs EXCEPT ![JobOf[m]] = ClosedJob]
       ELSE UNCHANGED <<periods, calls, jobs>>
    /\ SetPc(m, "over")
    /\ UNCHANGED <<tenant, month, sweep, faults>>

\* The handler raised: retried, or final with the hook's release, or acknowledged as
\* cancelled, which releases nothing.
FailRun(m) ==
    /\ meters[m].pc = "failed"
    /\ IF Holds(m)
       THEN \/ /\ jobs' = [jobs EXCEPT ![JobOf[m]] = OpenJob]
               /\ UNCHANGED <<periods, calls>>
            \/ /\ jobs' = [jobs EXCEPT ![JobOf[m]] = ClosedJob]
               /\ ReleaseForJob(JobOf[m])
            \/ /\ jobs' = [jobs EXCEPT ![JobOf[m]] = ClosedJob]
               /\ UNCHANGED <<periods, calls>>
       ELSE UNCHANGED <<periods, calls, jobs>>
    /\ SetPc(m, "over")
    /\ UNCHANGED <<tenant, month, sweep, faults>>

Alive(m) == meters[m].pc \notin {"new", "over"}

HolderGone(j) == LiveLease(j) /\ ~Alive(jobs[j].holder)

\* The process dies, with a call on the wire or between two calls.
Crash(m) ==
    /\ Alive(m)
    /\ faults < MaxFaults
    /\ faults' = faults + 1
    /\ SetPc(m, "over")
    /\ UNCHANGED <<tenant, month, periods, calls, jobs, sweep>>

-----------------------------------------------------------------------------
\* The job around it.

LeaseLapses(j) ==
    /\ LiveLease(j)
    /\ jobs' = [jobs EXCEPT ![j].live = FALSE]
    /\ IF Alive(jobs[j].holder)
       THEN faults < MaxFaults /\ faults' = faults + 1
       ELSE faults' = faults
    /\ UNCHANGED <<tenant, month, periods, calls, meters, sweep>>

\* A late heartbeat of the holder.
Heartbeat(j) ==
    /\ jobs[j].state = "held"
    /\ ~jobs[j].live
    /\ Alive(jobs[j].holder)
    /\ jobs' = [jobs EXCEPT ![j].live = TRUE]
    /\ UNCHANGED <<tenant, month, periods, calls, meters, sweep, faults>>

\* recover_expired_leases: requeue, or dead-letter with the hook's release.
Recover(j) ==
    /\ jobs[j].state = "held"
    /\ ~jobs[j].live
    /\ \/ /\ jobs' = [jobs EXCEPT ![j] = OpenJob]
          /\ UNCHANGED <<periods, calls>>
       \/ /\ jobs' = [jobs EXCEPT ![j] = ClosedJob]
          /\ ReleaseForJob(j)
    /\ UNCHANGED <<tenant, month, meters, sweep, faults>>

\* A queued job is cancelled; what an earlier attempt reserved stays.
CancelQueued(j) ==
    /\ jobs[j].state = "open"
    /\ jobs' = [jobs EXCEPT ![j] = ClosedJob]
    /\ UNCHANGED <<tenant, month, periods, calls, meters, sweep, faults>>

-----------------------------------------------------------------------------
\* Recovery of what nobody settled.

\* The clock passes the admission's deadline, then expires_at.
Expire(k) ==
    /\ Reserved(k) \/ calls[k].admission = "open"
    /\ calls[k].age < 2
    /\ calls' = [calls EXCEPT ![k].age = @ + 1]
    /\ UNCHANGED <<tenant, month, periods, meters, jobs, sweep, faults>>

\* Mutant: only rows of a held job are swept.
LeakedBug(k) == /\ Reserved(k)
                /\ calls[k].age = 2
                /\ KeyJob(k) \in Jobs
                /\ jobs[KeyJob(k)].state = "held" /\ ~jobs[KeyJob(k)].live
Leaked(k) == Reserved(k) /\ calls[k].age = 2 /\ ~LiveLease(KeyJob(k))

\* release_expired selects without a lock ...
SweepRead ==
    /\ ~sweep.reading
    /\ sweep' = [reading |-> TRUE, rows |-> {k \in Keys : Leaked(k)}]
    /\ UNCHANGED <<tenant, month, periods, calls, meters, jobs, faults>>

OfTerminalJob(k) == /\ Reserved(k)
                    /\ KeyJob(k) \in Jobs
                    /\ jobs[KeyJob(k)].state = "terminal"

\* ... then ends what of it is still reserved, and what terminal jobs left
\* (release_terminal), in one transaction.
SweepWrite ==
    /\ sweep.reading
    /\ Recovered(sweep.rows, {k \in Keys : OfTerminalJob(k)})
    /\ sweep' = NoSweep
    /\ UNCHANGED <<tenant, month, meters, jobs, faults>>

\* reconcile.resolve: an operator declares an admission over.  Refused while its attempt
\* holds the job under a live lease, and before its deadline where no end is recorded.
Reconcile(k) ==
    /\ calls[k].admission \in Unresolved
    /\ ~(Holds(k[1]) /\ LiveLease(KeyJob(k)))
    /\ calls[k].admission = "open" => calls[k].age >= 1
    /\ calls' = [calls EXCEPT ![k].admission = "reconciled"]
    /\ UNCHANGED <<tenant, month, periods, meters, jobs, sweep, faults>>

NextMonth ==
    /\ month < MaxMonth
    /\ month' = month + 1
    /\ UNCHANGED <<tenant, periods, calls, meters, jobs, sweep, faults>>

\* The workspace is deleted: its jobs, periods, reservations and usage rows cascade.
DeleteTenant ==
    /\ tenant
    /\ tenant' = FALSE
    /\ periods' = [p \in Months |-> NoSpend]
    /\ calls' = [k \in Keys |-> NoRow]
    /\ jobs' = [j \in Jobs |-> ClosedJob]
    /\ UNCHANGED <<month, meters, sweep, faults>>

-----------------------------------------------------------------------------
Work(m) == Bind(m) \/ ReleaseEarlier(m) \/ Reserve(m) \/ Settle(m) \/ Finish(m) \/ FailRun(m)

Next ==
    \/ \E m \in Meters : Start(m) \/ Work(m) \/ SettleFails(m) \/ StopsCalling(m) \/ Crash(m)
    \/ \E j \in Jobs : LeaseLapses(j) \/ Heartbeat(j) \/ Recover(j) \/ CancelQueued(j)
    \/ \E k \in Keys : Expire(k) \/ Reconcile(k)
    \/ SweepRead \/ SweepWrite \/ NextMonth \/ DeleteTenant

Spec == Init /\ [][Next]_vars

\* A call ends, an attempt ends, the clock passes deadlines and leases, and workers poll.
Fairness ==
    /\ \A m \in Meters : WF_vars(Work(m))
    /\ \A k \in Keys : WF_vars(Expire(k))
    /\ \A j \in Jobs : WF_vars(HolderGone(j) /\ LeaseLapses(j)) /\ WF_vars(Recover(j))
    /\ WF_vars(SweepRead) /\ WF_vars(SweepWrite)

FairSpec == Spec /\ Fairness

-----------------------------------------------------------------------------
(***************************************************************************)
(* Properties.                                                             *)
(***************************************************************************)

\* Rows, meters, jobs and the sweep hold values the code can store.
TypeOK ==
    /\ tenant \in BOOLEAN
    /\ month \in Months
    /\ periods \in [Months -> Period]
    /\ calls \in [Keys -> Reservation]
    /\ meters \in [Meters -> Meter]
    /\ jobs \in [Jobs -> JobState]
    /\ sweep \in [reading: BOOLEAN, rows: SUBSET Keys]
    /\ faults \in Nat

\* metering.py, the guarantee: the worst cases of all calls started in a month never
\* exceed the budget, whatever was settled, lost, released or reported above its bound.
BudgetHolds ==
    \A p \in Months :
        MapThenSumSet(LAMBDA k : calls[k].worst, {k \in Keys : calls[k].month = p}) <= Budget

\* The period rows are exactly the sums of their reservations: what is reserved, and
\* what is charged for calls that ended, by settlement or by recovery, each once.
PeriodsBalance ==
    \A p \in Months :
        /\ periods[p].reserved =
             MapThenSumSet(LAMBDA k : calls[k].worst, {k \in Keys : calls[k].month = p})
        /\ periods[p].settled =
             MapThenSumSet(LAMBDA k : calls[k].charge, {k \in Keys : calls[k].month = p})

\* Once a call's charge is recorded it stands, however late or often the call is settled,
\* released or swept; only the tenant's deletion removes it.
ChargesAreFinal ==
    [][\A k \in Keys :
         tenant' /\ calls[k].state \in Ended
           => /\ calls'[k].state = calls[k].state
              /\ calls'[k].charge = calls[k].charge]_vars

\* A call that was made and whose meter went on has its usage row, whichever of
\* settlement and recovery came first; no call has two.
UsageRecorded ==
    \A m \in Meters, n \in 1..CallCap :
        LET k == <<m, n>> IN
        /\ calls[k].usage <= 1
        /\ tenant /\ (n < meters[m].made \/ (n = meters[m].made /\ meters[m].pc = "idle"))
             => calls[k].usage = 1

\* Two attempts of one Scout have calls on the wire at once only after an operator
\* declared one of them over.
CallsAreSerial ==
    \A m, n \in Meters :
        /\ m # n /\ JobOf[m] # NoJob /\ JobOf[n] # NoJob /\ tenant
        /\ meters[m].pc = "calling" /\ meters[n].pc = "calling"
        => \E q \in {m, n} : calls[<<q, meters[q].made>>].admission = "reconciled"

\* A callback that arrives after the workspace was deleted recreates nothing.
DeletedStaysDeleted ==
    ~tenant => /\ \A p \in Months : periods[p] = NoSpend
               /\ \A k \in Keys : calls[k] = NoRow

\* No reservation stays reserved for ever: it is settled, or recovery ends it.
NothingLeaks == \A k \in Keys : []<>~Reserved(k)

=============================================================================
