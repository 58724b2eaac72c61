---------------------------- MODULE ScoutSchedule ----------------------------
(***************************************************************************)
(* The recurring schedules of one workspace (app/scouting_requests/        *)
(* schedules.py): the scout_schedules rows, the scout_schedule.tick jobs   *)
(* that keep each recurrence alive by enqueueing their own successor, the  *)
(* hook that reseeds after a tick failed for good, and the routes that     *)
(* create, pause, resume and delete a schedule while ticks run.            *)
(*                                                                         *)
(* A transaction of a route is its reads, which are not locked, and its    *)
(* commit; the workspace row is locked in between by the operations that   *)
(* enable a schedule.  A tick is a durable job, taken at the level         *)
(* DurableJobs is shown to implement: one owner, a bounded number of       *)
(* attempts, and effects that commit with the job's transition or not at   *)
(* all.  Time is abstract: a tick is scheduled or due.  A successor's      *)
(* occurrence is later than its predecessor's and a resumed recurrence     *)
(* starts at a new instant, so no idempotency key is ever met again.       *)
(***************************************************************************)
EXTENDS Naturals, FiniteSets

CONSTANTS
    Requests,      \* the Scouts of the workspace
    Customers,     \* concurrent calls of the schedule routes
    MayCall,       \* bound: the routes each of them calls
    Slots,         \* live tick jobs (a bound)
    Cap,           \* MAX_ACTIVE_SCHEDULES_PER_WORKSPACE
    MaxSchedules,  \* bound: schedule rows ever created
    MaxAttempts,   \* Job.max_attempts of a tick
    MaxFaults,     \* bound: failures, crashes, cancellations, capability changes
    Nobody         \* the workspace row is not locked

ASSUME ScheduleAssumption ==
    /\ Cap \in Nat \ {0} /\ MaxSchedules \in Nat /\ MaxAttempts \in Nat \ {0}
    /\ MaxFaults \in Nat /\ Slots \in SUBSET Nat /\ Nobody \notin Customers
    /\ MayCall \in [Customers -> SUBSET {"create", "pause", "resume", "delete"}]
    /\ IsFiniteSet(Requests) /\ Requests # {}

VARIABLES
    schedules,   \* the row of each request, if any
    ticks,       \* the live tick jobs
    runs,        \* scheduled runs in flight, by request
    calls,       \* the route call of each customer
    locked,      \* who holds the workspace row
    capability,  \* scheduling resolves enabled for the workspace
    created,     \* schedule rows created so far: the next id
    faults,
    lost         \* history: what ended the chain of an enabled schedule, by id

vars == <<schedules, ticks, runs, calls, locked, capability, created, faults, lost>>

-----------------------------------------------------------------------------
Ids == 1..MaxSchedules
NoId == 0

Schedule == [id: Ids, enabled: BOOLEAN]
NoSchedule == [id |-> NoId, enabled |-> FALSE]

\* Every state but "free" is one of _INFLIGHT_STATUSES.  "stuck" is a job in
\* cancel_requested whose owner died: no recovery selects it.
TickStates == {"free", "scheduled", "due", "running", "cancelling", "abandoned",
               "failing", "asked_failing", "stuck"}
\* The last attempt of a tick fails in a transaction that is not committed yet; the row of
\* one that was asked to stop says cancel_requested until it is.
Failing == {"failing", "asked_failing"}
\* What the handler, or the hook of a failing tick, decided from what it read.
Plans == {"unread", "run", "skip", "gone", "dark", "off", "cancelled",
          "reseed", "live", "foreign"}
Tick == [state: TickStates, request: Requests, id: Ids \cup {NoId},
         attempt: 0..MaxAttempts, asked: BOOLEAN, plan: Plans]

NoTick == [state |-> "free", request |-> CHOOSE r \in Requests : TRUE, id |-> NoId,
           attempt |-> 0, asked |-> FALSE, plan |-> "unread"]

\* enqueue_schedule_tick: scheduled_for its occurrence, which is in the future.
NewTick(r, id) == [state |-> "scheduled", request |-> r, id |-> id, attempt |-> 0,
                   asked |-> FALSE, plan |-> "unread"]

Causes == {"dark", "cancelled", "late_stop", "foreign", "hook"}

Kinds == {"create", "pause", "resume", "delete"}
Call == [kind: Kinds, step: {"read", "counted"}, request: Requests,
         id: Ids \cup {NoId}, enabled: BOOLEAN]
NoCall == [kind |-> "none", step |-> "none", id |-> NoId, enabled |-> FALSE]

Live(k) == ticks[k].state # "free"
LiveTicks(r) == {k \in Slots : Live(k) /\ ticks[k].request = r}
\* The ticks whose payload names the request's present schedule.
OwnTicks(r) == {k \in LiveTicks(r) : ticks[k].id = schedules[r].id}

\* _has_pending_tick: any live tick job of the request, whichever schedule it names.
PendingTicks(r) == LiveTicks(r)

EnabledCount(but) ==
    Cardinality({r \in Requests : schedules[r].enabled /\ schedules[r].id \notin but})

LostTo(id, cause) == [lost EXCEPT ![id] = cause]
Found(id) == [lost EXCEPT ![id] = "none"]

-----------------------------------------------------------------------------
Init ==
    /\ schedules = [r \in Requests |-> NoSchedule]
    /\ ticks = [k \in Slots |-> NoTick]
    /\ runs = [r \in Requests |-> 0]
    /\ calls = [c \in Customers |-> NoCall]
    /\ locked = Nobody
    /\ capability = TRUE
    /\ created = 0
    /\ faults = 0
    /\ lost = [id \in Ids |-> "none"]

-----------------------------------------------------------------------------
\* A tick job between its enqueue and its handler.

Become(k, state) == ticks' = [ticks EXCEPT ![k].state = state, ![k].plan = "unread"]
Fault == faults < MaxFaults /\ faults' = faults + 1
RowsUnchanged == UNCHANGED <<schedules, runs, calls, locked, created>>

\* The clock passes the occurrence.
BecomeDue(k) ==
    /\ ticks[k].state = "scheduled"
    /\ Become(k, "due")
    /\ RowsUnchanged /\ UNCHANGED <<capability, faults, lost>>

\* Claim and mark_running.
Claim(k) ==
    /\ ticks[k].state = "due"
    /\ ticks' = [ticks EXCEPT ![k].state = "running", ![k].attempt = @ + 1]
    /\ RowsUnchanged /\ UNCHANGED <<capability, faults, lost>>

\* run_schedule_tick's gates, in their order; empty when the tick may go on.
StopReason(t) ==
    LET s == schedules[t.request] IN
    IF s.id # t.id THEN {"gone"}
    ELSE IF ~capability THEN {"dark"}
    ELSE IF ~s.enabled THEN {"off"}
    ELSE IF t.asked THEN {"cancelled"}
    ELSE {}

\* Mutant: the overlap is not looked at.
FanOutsBug(r) == {"run", "skip"}
\* A paused request, an execution in flight (a manual one, which ScoutRun models, or a
\* scheduled one) or an unresolved admission skips the run, never the chain.
FanOuts(r) == {"skip"} \cup (IF runs[r] = 0 THEN {"run"} ELSE {})

\* The handler's reads.
TickRead(k) ==
    /\ ticks[k].state \in {"running", "cancelling"}
    /\ ticks[k].plan = "unread"
    /\ \E plan \in (IF StopReason(ticks[k]) # {} THEN StopReason(ticks[k])
                    ELSE FanOuts(ticks[k].request)) :
          ticks' = [ticks EXCEPT ![k].plan = plan]
    /\ RowsUnchanged /\ UNCHANGED <<capability, faults, lost>>

\* A tick ends without a successor; its schedule may be enabled all the same.
ChainEnds(k, cause) ==
    LET r == ticks[k].request IN
    /\ ticks' = [ticks EXCEPT ![k] = NoTick]
    /\ lost' = IF schedules[r].enabled /\ schedules[r].id = ticks[k].id
               THEN LostTo(ticks[k].id, cause) ELSE lost

CauseOf(plan) == CASE plan \in {"dark", "cancelled", "foreign"} -> plan
                   [] plan = "off" -> "late_stop"
                   [] OTHER -> "none"

\* The successor is enqueued in the transaction that ends its predecessor, for a row
\* paused since it was read too.
Successor(k) ==
    /\ ticks' = [ticks EXCEPT ![k] = NewTick(@.request, @.id)]
    /\ UNCHANGED lost

RowThere(k) == schedules[ticks[k].request].id = ticks[k].id

\* Fan-out, successor and completion commit together.
TickChains(k) ==
    /\ ticks[k].plan \in {"run", "skip"}
    /\ RowThere(k)
    /\ Successor(k)
    /\ runs' = [runs EXCEPT ![ticks[k].request] = @ + (IF ticks[k].plan = "run" THEN 1 ELSE 0)]
    /\ UNCHANGED <<schedules, calls, locked, created, capability, faults>>

\* The handler returned early.
TickStops(k) ==
    /\ ticks[k].state \in {"running", "cancelling"}
    /\ ticks[k].plan \in {"gone", "dark", "off", "cancelled"}
    /\ ChainEnds(k, CauseOf(ticks[k].plan))
    /\ RowsUnchanged /\ UNCHANGED <<capability, faults>>

\* What recover_after_tick_failure reads, in its order.  The failing tick itself is
\* already terminal in its own transaction.
HookPlan(k) ==
    LET r == ticks[k].request
        others == PendingTicks(r) \ {k}
    IN
    IF ~RowThere(k) THEN "gone"
    ELSE IF ~schedules[r].enabled THEN "off"
    ELSE IF others # {} THEN IF others \cap OwnTicks(r) # {} THEN "live" ELSE "foreign"
    ELSE IF ~capability THEN "dark"
    ELSE "reseed"

AttemptLeft(k) == ticks[k].attempt < MaxAttempts

\* fail and _recover_one: try again while an attempt is left, else fail for good, with
\* the terminal-failure hook in the same transaction.
AttemptFails(k) ==
    ticks' = [ticks EXCEPT ![k] =
                IF AttemptLeft(k)
                THEN [@ EXCEPT !.state = "due", !.plan = "unread"]
                ELSE [@ EXCEPT !.state = IF ticks[k].state = "cancelling"
                                         THEN "asked_failing" ELSE "failing",
                               !.plan = HookPlan(k)]]

\* The handler raised, or its UPDATE found the schedule's row gone (StaleDataError).
TickRaises(k) ==
    /\ ticks[k].state \in {"running", "cancelling"}
    /\ \/ ticks[k].plan \in {"run", "skip"} /\ ~RowThere(k) /\ UNCHANGED faults
       \/ Fault
    /\ AttemptFails(k)
    /\ RowsUnchanged /\ UNCHANGED <<capability, lost>>

\* The worker dies, before or inside the failing transaction, which is undone: a row that
\* says cancel_requested stays so.
Crash(k) ==
    /\ ticks[k].state \in {"running", "cancelling"} \cup Failing
    /\ Fault
    /\ Become(k, IF ticks[k].state \in {"cancelling", "asked_failing"} THEN "stuck"
                 ELSE "abandoned")
    /\ RowsUnchanged /\ UNCHANGED <<capability, lost>>

\* Mutant: a job without attempts left is not recovered.
RecoverableBug(k) == ticks[k].state = "abandoned" /\ AttemptLeft(k)
Recoverable(k) == ticks[k].state = "abandoned"

\* The lease lapses and another worker recovers the job.
Recover(k) ==
    /\ Recoverable(k)
    /\ AttemptFails(k)
    /\ RowsUnchanged /\ UNCHANGED <<capability, faults, lost>>

\* Mutant: the hook does nothing.
HookReseedsBug(k) == FALSE
HookReseeds(k) == ticks[k].plan = "reseed" /\ RowThere(k)

\* The failure commits with what the hook wrote; a hook whose UPDATE found the row gone
\* was undone by its savepoint.
TickFails(k) ==
    /\ ticks[k].state \in Failing
    /\ IF HookReseeds(k)
       THEN Successor(k)
       ELSE ChainEnds(k, CauseOf(ticks[k].plan))
    /\ RowsUnchanged /\ UNCHANGED <<capability, faults>>

\* The hook raised: swallowed, and the failure commits without it.
HookRaises(k) ==
    /\ ticks[k].state \in Failing
    /\ Fault
    /\ ChainEnds(k, "hook")
    /\ RowsUnchanged /\ UNCHANGED capability

\* The cancel route: an enqueued tick is cancelled at once, one with an owner is asked.
CancelTick(k) ==
    /\ Fault
    /\ \/ /\ ticks[k].state \in {"scheduled", "due"}
          /\ ChainEnds(k, "cancelled")
       \/ /\ ticks[k].state \in {"running", "abandoned"}
          /\ ticks' = [ticks EXCEPT ![k].asked = TRUE,
                         ![k].state = IF @ = "running" THEN "cancelling" ELSE "stuck"]
          /\ UNCHANGED lost
    /\ RowsUnchanged /\ UNCHANGED capability

RunEnds(r) ==
    /\ runs[r] > 0
    /\ runs' = [runs EXCEPT ![r] = @ - 1]
    /\ UNCHANGED <<schedules, ticks, calls, locked, capability, created, faults, lost>>

\* An override, the flag or the ceiling changes.
CapabilityChanges ==
    /\ Fault
    /\ capability' = ~capability
    /\ RowsUnchanged /\ UNCHANGED <<ticks, lost>>

-----------------------------------------------------------------------------
\* The schedule routes.  Each is gated by the capability when it starts.  next_run_at and
\* last_tick_at are for display and are left out.

Opens(c, kind, r) ==
    /\ kind \in MayCall[c]
    /\ calls' = [calls EXCEPT ![c] = [kind |-> kind, step |-> "read", request |-> r,
                                      id |-> schedules[r].id, enabled |-> schedules[r].enabled]]

\* The reads that find nothing to do (a second schedule, a paused one, an active one)
\* end the call at once and are no step.
CallReads(c) ==
    /\ calls[c] = NoCall
    /\ capability
    /\ \E r \in Requests :
          \/ schedules[r].id = NoId /\ created < MaxSchedules /\ Opens(c, "create", r)
          \/ schedules[r].enabled /\ Opens(c, "pause", r)
          \/ /\ schedules[r].id # NoId
             /\ ~(schedules[r].enabled /\ PendingTicks(r) # {})
             /\ Opens(c, "resume", r)
          \/ schedules[r].id # NoId /\ Opens(c, "delete", r)
    /\ UNCHANGED <<schedules, ticks, runs, locked, capability, created, faults, lost>>

\* Mutant: the count is taken without the lock.
LockedBug(c) == locked' = locked
\* _lock_workspace_for_cap.
Locked(c) == locked = Nobody /\ locked' = c

\* create and resume: lock the workspace row, then count the other enabled schedules.
CallCounts(c) ==
    /\ calls[c].kind \in {"create", "resume"} /\ calls[c].step = "read"
    /\ Locked(c)
    /\ EnabledCount({calls[c].id}) < Cap
    /\ calls' = [calls EXCEPT ![c].step = "counted"]
    /\ UNCHANGED <<schedules, ticks, runs, capability, created, faults, lost>>

Unlocked(c) == locked' = IF locked = c THEN Nobody ELSE locked
Closes(c) == calls' = [calls EXCEPT ![c] = NoCall] /\ Unlocked(c)

\* The present row is the one this call loaded.
RowLoaded(c) == schedules[calls[c].request].id = calls[c].id

FreeSlots == {k \in Slots : ~Live(k)}
Seeds(r, id) == \E k \in FreeSlots :
                   /\ \A other \in FreeSlots : k <= other
                   /\ ticks' = [ticks EXCEPT ![k] = NewTick(r, id)]

\* create_schedule: insert the row and seed its first tick; the unique constraint
\* refuses a second row.
CreateCommits(c) ==
    LET r == calls[c].request
        id == created + 1
    IN
    /\ calls[c].kind = "create" /\ calls[c].step = "counted"
    /\ RowLoaded(c) /\ created < MaxSchedules
    /\ created' = id
    /\ schedules' = [schedules EXCEPT ![r] = [id |-> id, enabled |-> TRUE]]
    /\ IF capability
       THEN Seeds(r, id) /\ UNCHANGED lost
       ELSE UNCHANGED ticks /\ lost' = LostTo(id, "dark")
    /\ Closes(c)
    /\ UNCHANGED <<runs, capability, faults>>

\* Mutant: a resume always seeds.
SeedsUnlessPendingBug(r) == TRUE
SeedsUnlessPending(r) == PendingTicks(r) = {}

\* resume_schedule: enable the row and seed a tick unless one is pending.  The session
\* writes enabled only where it differs from the value it loaded.
ResumeCommits(c) ==
    LET r == calls[c].request
        id == calls[c].id
        enabled == schedules[r].enabled \/ ~calls[c].enabled
    IN
    /\ calls[c].kind = "resume" /\ calls[c].step = "counted"
    /\ RowLoaded(c)
    /\ schedules' = [schedules EXCEPT ![r].enabled = enabled]
    /\ IF capability /\ SeedsUnlessPending(r)
       THEN Seeds(r, id) /\ lost' = Found(id)
       ELSE /\ UNCHANGED ticks
            /\ lost' = IF ~enabled \/ OwnTicks(r) # {} THEN lost
                       ELSE LostTo(id, IF capability THEN "foreign" ELSE "dark")
    /\ Closes(c)
    /\ UNCHANGED <<runs, capability, created, faults>>

\* pause_schedule: the row is disabled, its tick stays in the queue.
PauseCommits(c) ==
    LET r == calls[c].request IN
    /\ calls[c].kind = "pause"
    /\ RowLoaded(c)
    /\ schedules' = [schedules EXCEPT ![r].enabled = FALSE]
    /\ lost' = Found(calls[c].id)
    /\ Closes(c)
    /\ UNCHANGED <<ticks, runs, capability, created, faults>>

\* delete_schedule: the row goes, its tick stays in the queue.
DeleteCommits(c) ==
    /\ calls[c].kind = "delete"
    /\ schedules' = IF RowLoaded(c)
                    THEN [schedules EXCEPT ![calls[c].request] = NoSchedule] ELSE schedules
    /\ lost' = Found(calls[c].id)
    /\ Closes(c)
    /\ UNCHANGED <<ticks, runs, capability, created, faults>>

\* A refusal or an error rolls the call back: the cap, a row that is gone or a second row.
CallRefused(c) ==
    /\ calls[c].kind \in {"create", "pause", "resume"}
    /\ \/ calls[c].step = "read" /\ calls[c].kind # "pause"
          /\ locked = Nobody /\ EnabledCount({calls[c].id}) >= Cap
       \/ (calls[c].step = "counted" \/ calls[c].kind = "pause") /\ ~RowLoaded(c)
    /\ Closes(c)
    /\ UNCHANGED <<schedules, ticks, runs, capability, created, faults, lost>>

-----------------------------------------------------------------------------
Handles(k) == TickRead(k) \/ TickChains(k) \/ TickStops(k) \/ TickRaises(k) \/ TickFails(k)

Next ==
    \/ \E k \in Slots : BecomeDue(k) \/ Claim(k) \/ Handles(k) \/ Crash(k) \/ Recover(k)
                          \/ HookRaises(k) \/ CancelTick(k)
    \/ \E r \in Requests : RunEnds(r)
    \/ CapabilityChanges
    \/ \E c \in Customers : CallReads(c) \/ CallCounts(c) \/ CreateCommits(c)
                              \/ ResumeCommits(c) \/ PauseCommits(c) \/ DeleteCommits(c)
                              \/ CallRefused(c)

Spec == Init /\ [][Next]_vars

\* The clock advances, workers poll, a handler returns, a lapsed lease is recovered:
\* each tick is in the hands of one of these at a time.  Nothing obliges a customer or an
\* operator to act.
Fairness ==
    \A k \in Slots : WF_vars(BecomeDue(k) \/ Claim(k) \/ Handles(k) \/ Recover(k))

FairSpec == Spec /\ Fairness

-----------------------------------------------------------------------------
(***************************************************************************)
(* Properties.                                                             *)
(***************************************************************************)

\* Every row, tick and call holds values the code can store.
TypeOK ==
    /\ schedules \in [Requests -> Schedule \cup {NoSchedule}]
    /\ ticks \in [Slots -> Tick]
    /\ runs \in [Requests -> Nat]
    /\ calls \in [Customers -> Call \cup {NoCall}]
    /\ locked \in Customers \cup {Nobody}
    /\ capability \in BOOLEAN
    /\ created \in 0..MaxSchedules
    /\ faults \in 0..MaxFaults
    /\ lost \in [Ids -> Causes \cup {"none"}]

\* A schedule never has two live ticks, whatever the pauses, resumes, retries, crashes
\* and reseeding hooks that overlap: two chains would run the Scout twice a period for
\* ever, and nothing would join them again.
OneChain ==
    \A k1, k2 \in Slots :
        Live(k1) /\ Live(k2) /\ ticks[k1].id = ticks[k2].id => k1 = k2

\* The workspace never has more enabled schedules than the cap, although the count and
\* the write of two calls may interleave.
CapHolds == Cardinality({r \in Requests : schedules[r].enabled}) <= Cap

\* A Scout never has two scheduled runs in flight: a tick that decided to fan out before
\* its schedule was deleted and recreated does not add one to its successor's.
ScheduledRunsDoNotPileUp == \A r \in Requests : runs[r] <= 1

\* An enabled schedule has a live tick of its own unless the chain was lost in one of
\* these ways: scheduling was unavailable, an operator cancelled the tick, the hook
\* raised, a tick that had read the pause ended after the resume, or the tick of a
\* deleted schedule was taken for its own.
ChainLostOnlyBy ==
    \A r \in Requests :
        schedules[r].enabled /\ OwnTicks(r) = {} => lost[schedules[r].id] # "none"

\* The tick of this request advances its recurrence, or skips a failed occurrence.
Ticks(r) == \E k \in Slots : /\ ticks[k].request = r
                             /\ ticks[k].state \in {"running", "cancelling"} \cup Failing
                             /\ ticks'[k] = NewTick(r, ticks[k].id)

Healthy(r) == /\ schedules[r].enabled
              /\ capability
              /\ lost[schedules[r].id] = "none"
              /\ \A k \in OwnTicks(r) : ticks[k].state # "stuck"

\* A schedule that stays enabled, with its chain not lost, ticks for ever: failed and
\* crashed attempts, dead-lettered ticks and concurrent calls do not stop it.
RecurrenceGoesOn ==
    \A r \in Requests : <>[]Healthy(r) => []<><<Ticks(r)>>_vars

=============================================================================
