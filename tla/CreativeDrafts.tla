--------------------------- MODULE CreativeDrafts ---------------------------
(* Text drafts generated from an approved recommendation brief: the append-  *)
(* only decisions on the brief (approvals/service.py), the request that       *)
(* queues or joins a creative.generate job and the job that generates one     *)
(* draft (creative/service.py), the daily ceilings that bound what it may     *)
(* spend (llm/quota.py), the capability override that switches it off         *)
(* (capabilities/service.py), and the retention of finished jobs.             *)
(*                                                                            *)
(* PostgreSQL at READ COMMITTED.  A workspace has one brief, in one version;  *)
(* all requests share channel, parent and requester, so a request's           *)
(* idempotency prefix is its workspace and the next draft version.  The job   *)
(* queue is the one of DurableJobs reduced to waiting, running and finished;  *)
(* a job's attempt number stands for its claim token.                         *)
EXTENDS Integers, FiniteSets, Sequences, FiniteSetsExt

CONSTANTS Workspaces,        \* each with one brief
          Deciders,          \* transactions that record a decision
          Requesters,        \* transactions of the generate route
          Workers,           \* job threads
          None,              \* no holder, no decision
          MaxAttempts,       \* attempts of a job
          Worst,             \* worst-case cost of one provider attempt
          Costs,             \* what an attempt may turn out to cost
          WorkspaceCeiling,  \* llm_daily_cost_ceiling_usd_per_workspace
          GlobalCeiling,     \* llm_daily_cost_ceiling_usd_global
          CallCeiling,       \* llm_max_calls_per_workspace_per_day
          MaxDay, MaxCalls,  \* bounds: days, provider attempts
          Occasions          \* bounds: how often each event below may happen

ASSUME CostsAreBounded == Worst \in Nat /\ Costs \subseteq 0..Worst
ASSUME CeilingsArePositive ==
    /\ WorkspaceCeiling \in Nat \ {0}
    /\ GlobalCeiling \in Nat \ {0}
    /\ CallCeiling \in Nat \ {0}
Events == {"decision", "request", "purge", "day", "override", "fault", "spend"}
ASSUME OccasionsAreCounts == Occasions \subseteq [Events -> Nat]
ASSUME AttemptsArePositive == MaxAttempts \in Nat \ {0}
ASSUME BoundsAreCounts == MaxDay \in Nat \ {0} /\ MaxCalls \in Nat
ASSUME NoneIsNobody == None \notin Workspaces \cup Workers

VARIABLES decisions,   \* of a workspace's brief, by decision_seq
          deciding,    \* what each decider holds and saw
          jobs,        \* the creative.generate rows
          requests,    \* what each request read
          workers,     \* what each job thread is doing
          globalLock,  \* holder of the advisory generation lock
          rowLock,     \* holder of a workspace row's NO KEY UPDATE lock
          calls,       \* provider attempts: reservations and usage rows
          drafts,      \* of a workspace's brief: the job of each version
          on,          \* whether creative_generation resolves enabled
          day,         \* the UTC day
          rows,        \* creative.generate rows ever inserted
          crossed,     \* ghost: the drafts a purge overtook a request for
          left         \* how often each event may still happen

vars == <<decisions, deciding, jobs, requests, workers, globalLock, rowLock,
          calls, drafts, on, day, rows, crossed, left>>

Kinds == {"approved", "rejected", "revoked"}
\* A row: the workspace, the version and the number in its idempotency key, and its id, for
\* the key of a row that retention deleted may come again.
Key == [ws : Workspaces, version : Nat, n : Nat, id : Nat]
Active == {"waiting", "running"}

NotDeciding == [ws |-> None, saw |-> None]
NoRequest == [pc |-> "idle", ws |-> None, version |-> 0, prior |-> {}]
Idle == [pc |-> "idle", key |-> None, attempt |-> 0, call |-> 0]

\* Generation starts from briefs that were approved; nothing was asked yet.
Init ==
    /\ decisions = [ws \in Workspaces |-> <<"approved">>]
    /\ deciding = [d \in Deciders |-> NotDeciding]
    /\ jobs = [k \in {} |-> None]
    /\ requests = [r \in Requesters |-> NoRequest]
    /\ workers = [w \in Workers |-> Idle]
    /\ globalLock = None
    /\ rowLock = [ws \in Workspaces |-> None]
    /\ calls = <<>>
    /\ drafts = [ws \in Workspaces |-> <<>>]
    /\ on = [ws \in Workspaces |-> TRUE]
    /\ day = 1
    /\ rows = 0
    /\ crossed = {}
    /\ left \in Occasions

\* The bound on an event.
Occurs(event) == left[event] > 0 /\ left' = [left EXCEPT ![event] = @ - 1]

-----------------------------------------------------------------------------
(* Decisions on a brief *)

Controlling(ws) ==
    IF decisions[ws] = <<>> THEN None ELSE decisions[ws][Len(decisions[ws])]

Approved(ws) == Controlling(ws) = "approved"

\* Mutant: the decision is read without the brief row's lock.
LocksBriefBug(ws) == TRUE

\* _lock_subject: the brief row's FOR UPDATE lock is held until the commit.
LocksBrief(ws) == \A d \in Deciders : deciding[d].ws # ws

DecisionReads(d, ws) ==
    /\ deciding[d] = NotDeciding
    /\ Occurs("decision")
    /\ LocksBrief(ws)
    /\ deciding' = [deciding EXCEPT ![d] = [ws |-> ws, saw |-> Controlling(ws)]]
    /\ UNCHANGED <<decisions, jobs, requests, workers, globalLock, rowLock, calls, drafts,
                   on, rows, crossed, day>>

\* The transition rule: only a controlling approval can be revoked.
Permitted(d, kind) == kind = "revoked" => deciding[d].saw = "approved"

\* The row takes max(decision_seq) + 1, read by a statement of its own.
DecisionCommits(d, kind) ==
    /\ deciding[d].ws # None
    /\ Permitted(d, kind)
    /\ decisions' = [decisions EXCEPT ![deciding[d].ws] = Append(@, kind)]
    /\ deciding' = [deciding EXCEPT ![d] = NotDeciding]
    /\ UNCHANGED <<jobs, requests, workers, globalLock, rowLock, calls, drafts, on, rows,
                   crossed, day, left>>

DecisionRefused(d) ==
    /\ deciding[d].ws # None
    /\ ~ Permitted(d, "revoked")
    /\ deciding' = [deciding EXCEPT ![d] = NotDeciding]
    /\ UNCHANGED <<decisions, jobs, requests, workers, globalLock, rowLock, calls, drafts,
                   on, rows, crossed, day, left>>

-----------------------------------------------------------------------------
(* The daily ceilings, read from the ledger *)

\* A usage row counts on the day it was written, at its cost; a reservation
\* without one counts on the day it was made, at its worst case.
Charge(c, d) ==
    IF c.recorded # 0
      THEN IF c.recorded = d THEN c.cost ELSE 0
      ELSE IF c.made = d THEN Worst ELSE 0

Spent(wss, d) ==
    MapThenSumSet(LAMBDA i : Charge(calls[i], d), {i \in DOMAIN calls : calls[i].ws \in wss})

CallsMade(ws, d) ==
    Cardinality({i \in DOMAIN calls :
        calls[i].ws = ws /\ calls[i].task = "generate" /\ calls[i].recorded = d})

\* A ceiling already reached, or one the attempt could cross, refuses it.
Below(spent, worst, ceiling) == spent < ceiling /\ spent + worst <= ceiling

Fits(ws, worst) ==
    /\ CallsMade(ws, day) + 1 <= CallCeiling
    /\ Below(Spent({ws}, day), worst, WorkspaceCeiling)
    /\ Below(Spent(Workspaces, day), worst, GlobalCeiling)

-----------------------------------------------------------------------------
(* The generate request *)

NextVersion(ws) == Len(drafts[ws]) + 1

WithPrefix(ws, version) ==
    {k \in DOMAIN jobs : k.ws = ws /\ k.version = version}

\* The route's gates, the advisory ceilings and the next version.
RequestReads(r, ws) ==
    /\ requests[r].pc = "idle"
    /\ Occurs("request")
    /\ on[ws]
    /\ Approved(ws)
    /\ Fits(ws, 0)
    /\ requests' = [requests EXCEPT ![r] =
                      [pc |-> "reading", ws |-> ws, version |-> NextVersion(ws), prior |-> {}]]
    /\ UNCHANGED <<decisions, deciding, jobs, workers, globalLock, rowLock, calls, drafts,
                   on, rows, crossed, day>>

\* A prior job still going to run is joined, otherwise the prior ones are counted.
RequestFindsPrior(r) ==
    LET prior == WithPrefix(requests[r].ws, requests[r].version) IN
    /\ requests[r].pc = "reading"
    /\ requests' = [requests EXCEPT ![r] =
         IF \E k \in prior : jobs[k].status \in Active
           THEN NoRequest
           ELSE [@ EXCEPT !.pc = "enqueuing", !.prior = prior]]
    /\ UNCHANGED <<decisions, deciding, jobs, workers, globalLock, rowLock, calls, drafts,
                   on, rows, crossed, day, left>>

\* Mutant: the key counts the jobs at the insert.
NumberOfLateBug(r) == Cardinality(WithPrefix(requests[r].ws, requests[r].version))

\* The key numbers the request after the prior jobs it read.
NumberOf(r) == Cardinality(requests[r].prior)

KeyOf(r) ==
    [ws |-> requests[r].ws, version |-> requests[r].version, n |-> NumberOf(r), id |-> rows]

Taken(r) == \E k \in WithPrefix(requests[r].ws, requests[r].version) : k.n = NumberOf(r)

\* enqueue: a job with this key is returned, finished or not, also when it appears by a race.
RequestEnqueues(r) ==
    /\ requests[r].pc = "enqueuing"
    /\ \/ /\ Taken(r)
          /\ UNCHANGED <<jobs, rows>>
       \/ /\ ~ Taken(r)
          /\ jobs' = [k \in DOMAIN jobs \cup {KeyOf(r)} |->
                        IF k \in DOMAIN jobs THEN jobs[k]
                        ELSE [status |-> "waiting", attempts |-> 0, owner |-> None]]
          /\ rows' = rows + 1
    /\ requests' = [requests EXCEPT ![r] = NoRequest]
    /\ UNCHANGED <<decisions, deciding, workers, globalLock, rowLock, calls, drafts, on,
                   crossed, day, left>>

\* Retention deletes finished jobs past the cut-off, in any order and at any time: also
\* between a request's reading of the prior jobs and its insert.
Overtakes(k) ==
    \E r \in Requesters :
        requests[r].pc = "enqueuing" /\ requests[r].ws = k.ws /\ requests[r].version = k.version

Purge(k) ==
    /\ jobs[k].status \notin Active
    /\ Occurs("purge")
    /\ jobs' = [j \in DOMAIN jobs \ {k} |-> jobs[j]]
    /\ crossed' = IF Overtakes(k) THEN crossed \cup {<<k.ws, k.version>>} ELSE crossed
    /\ UNCHANGED <<decisions, deciding, requests, workers, globalLock, rowLock, calls, drafts,
                   on, rows, day>>

-----------------------------------------------------------------------------
(* The generation job *)

At(w, pc) == workers[w].pc = pc
Moves(w, pc) == workers' = [workers EXCEPT ![w].pc = pc]
Ws(w) == workers[w].key.ws

Claim(w, k) ==
    /\ At(w, "idle")
    /\ jobs[k].status = "waiting"
    /\ jobs' = [jobs EXCEPT ![k] =
                  [status |-> "running", attempts |-> @.attempts + 1, owner |-> w]]
    /\ workers' = [workers EXCEPT ![w] =
                     [pc |-> "claimed", key |-> k, attempt |-> jobs'[k].attempts, call |-> 0]]
    /\ UNCHANGED <<decisions, deciding, requests, globalLock, rowLock, calls, drafts, on,
                   rows, crossed, day, left>>

\* Mutant: the completion is not fenced.
StillOwnsBug(w) == workers[w].key \in DOMAIN jobs

\* The fence of the worker's last write: its claim is still the job's.
StillOwns(w) ==
    LET k == workers[w].key IN
    /\ k \in DOMAIN jobs
    /\ jobs[k].status = "running"
    /\ jobs[k].owner = w
    /\ jobs[k].attempts = workers[w].attempt

\* The transaction ends, with it every lock, and the job row takes status if
\* the fence holds.
Unlocked(w) ==
    /\ globalLock' = IF globalLock = w THEN None ELSE globalLock
    /\ rowLock' = [ws \in Workspaces |-> IF rowLock[ws] = w THEN None ELSE rowLock[ws]]

Finishes(w, status) ==
    /\ jobs' = IF StillOwns(w) THEN [jobs EXCEPT ![workers[w].key].status = status] ELSE jobs
    /\ workers' = [workers EXCEPT ![w] = Idle]
    /\ Unlocked(w)

\* Mutant: only the workspace row is locked.
GenerationIsFreeBug == TRUE

\* lock_for_generation: the advisory lock of all generation, then the row.
GenerationIsFree == globalLock = None

LocksForGeneration(w) ==
    /\ At(w, "claimed")
    /\ GenerationIsFree
    /\ rowLock[Ws(w)] = None
    /\ globalLock' = w
    /\ rowLock' = [rowLock EXCEPT ![Ws(w)] = w]
    /\ Moves(w, "locked")
    /\ UNCHANGED <<decisions, deciding, jobs, requests, calls, drafts, on, rows, crossed,
                   day, left>>

\* The gates, all read after the locks: capability, approval.
GatesPass(w) ==
    /\ At(w, "locked")
    /\ on[Ws(w)]
    /\ Approved(Ws(w))
    /\ Moves(w, "gated")
    /\ UNCHANGED <<decisions, deciding, jobs, requests, globalLock, rowLock, calls, drafts,
                   on, rows, crossed, day, left>>

\* A gate is closed, or the parent or the requester's role is gone.
GatesRefuse(w) ==
    /\ At(w, "locked")
    /\ Finishes(w, "failed")
    /\ UNCHANGED <<decisions, deciding, requests, calls, drafts, on, rows, crossed, day,
                   left>>

\* before_attempt, at first and when the service tries again after a transient
\* failure: the ceilings, then the reservation in a session of its own.
Attempts(w) == At(w, "gated") \/ At(w, "settled")

CeilingsPass(w) ==
    /\ Attempts(w)
    /\ Fits(Ws(w), Worst)
    /\ Moves(w, "checked")
    /\ UNCHANGED <<decisions, deciding, jobs, requests, globalLock, rowLock, calls, drafts,
                   on, rows, crossed, day, left>>

CeilingsRefuse(w) ==
    /\ Attempts(w)
    /\ ~ Fits(Ws(w), Worst)
    /\ Finishes(w, "failed")
    /\ UNCHANGED <<decisions, deciding, requests, calls, drafts, on, rows, crossed, day,
                   left>>

Reserves(w) ==
    /\ At(w, "checked")
    /\ Len(calls) < MaxCalls
    /\ calls' = Append(calls, [ws |-> Ws(w), task |-> "generate", made |-> day,
                               recorded |-> 0, cost |-> 0])
    /\ workers' = [workers EXCEPT ![w].pc = "calling", ![w].call = Len(calls) + 1]
    /\ UNCHANGED <<decisions, deciding, jobs, requests, globalLock, rowLock, drafts, on,
                   rows, crossed, day, left>>

\* The provider answered or failed: the attempt's usage row is written at once,
\* whatever becomes of the job's own transaction.
Settles(w, cost) ==
    /\ At(w, "calling")
    /\ calls' = [calls EXCEPT ![workers[w].call].recorded = day, ![workers[w].call].cost = cost]
    /\ Moves(w, "settled")
    /\ UNCHANGED <<decisions, deciding, jobs, requests, globalLock, rowLock, drafts, on,
                   rows, crossed, day, left>>

\* A failed attempt is retried while the job has attempts left.
Failed(attempts) == IF attempts < MaxAttempts THEN "waiting" ELSE "failed"

\* The model stayed unavailable (retried), failed for good, or was withheld.
AttemptFails(w) ==
    /\ At(w, "settled")
    /\ \/ Finishes(w, Failed(workers[w].attempt))
       \/ Finishes(w, "failed")
    /\ UNCHANGED <<decisions, deciding, requests, calls, drafts, on, rows, crossed, day,
                   left>>

\* The draft, its version taken under the brief row's lock, is committed with
\* the completion of the job or not at all.
StoresDraft(w) ==
    /\ At(w, "settled")
    /\ LocksBrief(Ws(w))
    /\ drafts' = IF StillOwns(w) THEN [drafts EXCEPT ![Ws(w)] = Append(@, workers[w].key)]
                 ELSE drafts
    /\ Finishes(w, "succeeded")
    /\ UNCHANGED <<decisions, deciding, requests, calls, on, rows, crossed, day, left>>

-----------------------------------------------------------------------------
(* The surroundings *)

\* A lease is recovered while its worker goes on, or after it died.
Recovers(k) ==
    /\ jobs[k].status = "running"
    /\ \/ workers[jobs[k].owner].key # k /\ left' = left
       \/ workers[jobs[k].owner].key = k /\ Occurs("fault")
    /\ jobs' = [jobs EXCEPT ![k].status = Failed(jobs[k].attempts), ![k].owner = None]
    /\ UNCHANGED <<decisions, deciding, requests, workers, globalLock, rowLock, calls,
                   drafts, on, rows, crossed, day>>

\* The process of a worker dies: its transaction is rolled back, its
\* reservation stays.
Crash(w) ==
    /\ ~ At(w, "idle")
    /\ Occurs("fault")
    /\ workers' = [workers EXCEPT ![w] = Idle]
    /\ Unlocked(w)
    /\ UNCHANGED <<decisions, deciding, jobs, requests, calls, drafts, on, rows, crossed,
                   day>>

\* Mutant: the override is written without the lock.
MayOverrideBug(ws) == TRUE

\* An administrator sets or clears the override, under the workspace row's
\* FOR UPDATE lock.
MayOverride(ws) == rowLock[ws] = None

Override(ws) ==
    /\ Occurs("override")
    /\ MayOverride(ws)
    /\ on' = [on EXCEPT ![ws] = ~ @]
    /\ UNCHANGED <<decisions, deciding, jobs, requests, workers, globalLock, rowLock, calls,
                   drafts, rows, crossed, day>>

\* A Scout run or a brief spends in the workspace, outside these ceilings.
OtherSpend(ws, cost) ==
    /\ Occurs("spend")
    /\ Len(calls) < MaxCalls
    /\ calls' = Append(calls, [ws |-> ws, task |-> "other", made |-> day,
                               recorded |-> day, cost |-> cost])
    /\ UNCHANGED <<decisions, deciding, jobs, requests, workers, globalLock, rowLock,
                   drafts, on, rows, crossed, day>>

NextDay ==
    /\ day < MaxDay
    /\ Occurs("day")
    /\ day' = day + 1
    /\ UNCHANGED <<decisions, deciding, jobs, requests, workers, globalLock, rowLock, calls,
                   drafts, on, rows, crossed>>

Next ==
    \/ \E d \in Deciders :
         \/ \E ws \in Workspaces : DecisionReads(d, ws)
         \/ \E kind \in Kinds : DecisionCommits(d, kind)
         \/ DecisionRefused(d)
    \/ \E r \in Requesters :
         \/ \E ws \in Workspaces : RequestReads(r, ws)
         \/ RequestFindsPrior(r)
         \/ RequestEnqueues(r)
    \/ \E w \in Workers :
         \/ \E k \in DOMAIN jobs : Claim(w, k)
         \/ LocksForGeneration(w)
         \/ GatesPass(w)
         \/ GatesRefuse(w)
         \/ CeilingsPass(w)
         \/ CeilingsRefuse(w)
         \/ Reserves(w)
         \/ \E cost \in Costs : Settles(w, cost)
         \/ AttemptFails(w)
         \/ StoresDraft(w)
         \/ Crash(w)
    \/ \E k \in DOMAIN jobs : Purge(k) \/ Recovers(k)
    \/ \E ws \in Workspaces :
         \/ Override(ws)
         \/ \E cost \in Costs : OtherSpend(ws, cost)
    \/ NextDay

Spec == Init /\ [][Next]_vars

-----------------------------------------------------------------------------
(* Properties *)

Decision == [ws : Workspaces \cup {None}, saw : Kinds \cup {None}]
Job == [status : Active \cup {"succeeded", "failed"}, attempts : 0..MaxAttempts,
        owner : Workers \cup {None}]
Request == [pc : {"idle", "reading", "enqueuing"}, ws : Workspaces \cup {None},
            version : Nat, prior : SUBSET Key]
Thread == [pc : {"idle", "claimed", "locked", "gated", "checked", "calling", "settled"},
           key : Key \cup {None}, attempt : 0..MaxAttempts, call : 0..MaxCalls]
Call == [ws : Workspaces, task : {"generate", "other"}, made : 1..MaxDay,
         recorded : 0..MaxDay, cost : 0..Worst]

\* The types of the state: no job is attempted more often than it may be, a
\* running one has an owner, and a thread with a call points at its row.
TypeOK ==
    /\ decisions \in [Workspaces -> Seq(Kinds)]
    /\ \A ws \in Workspaces : decisions[ws] # <<>>
    /\ deciding \in [Deciders -> Decision]
    /\ DOMAIN jobs \in SUBSET Key
    /\ IsFiniteSet(DOMAIN jobs)
    /\ jobs \in [DOMAIN jobs -> Job]
    /\ \A k \in DOMAIN jobs : /\ jobs[k].status = "waiting" => jobs[k].attempts < MaxAttempts
                              /\ jobs[k].status = "running" => jobs[k].owner \in Workers
    /\ requests \in [Requesters -> Request]
    /\ \A r \in Requesters : /\ requests[r].pc # "idle" => requests[r].ws \in Workspaces
                             /\ IsFiniteSet(requests[r].prior)
    /\ workers \in [Workers -> Thread]
    /\ \A w \in Workers : /\ workers[w].pc # "idle" => workers[w].key \in Key
                          /\ workers[w].pc = "calling" => workers[w].call \in 1..Len(calls)
    /\ globalLock \in Workers \cup {None}
    /\ rowLock \in [Workspaces -> Workers \cup {None}]
    /\ calls \in Seq(Call)
    /\ Len(calls) <= MaxCalls
    /\ drafts \in [Workspaces -> Seq(Key)]
    /\ on \in [Workspaces -> BOOLEAN]
    /\ day \in 1..MaxDay
    /\ rows \in Nat
    /\ crossed \subseteq Workspaces \X Nat
    /\ left \in [Events -> Nat]

\* A brief is revoked only from an approval: two deciders cannot both withdraw
\* one approval, nor withdraw one that a rejection replaced (record_decision).
RevokesFollowApprovals ==
    \A ws \in Workspaces : \A i \in DOMAIN decisions[ws] :
        decisions[ws][i] = "revoked" => i > 1 /\ decisions[ws][i - 1] = "approved"

Generated(wss, d) ==
    MapThenSumSet(LAMBDA i : Charge(calls[i], d),
        {i \in DOMAIN calls : calls[i].ws \in wss /\ calls[i].task = "generate"})

InFlight(ws, d) == {w \in Workers : At(w, "calling") /\ Ws(w) = ws /\ calls[workers[w].call].made = d}

\* What generation spends on a day, calls in flight and calls whose process
\* died included, stays within both cost ceilings, and the calls of a day
\* within theirs, whatever the rest of the program spends meanwhile and
\* whenever the day changes (CeilingMeter, lock_for_generation).
CeilingsHold ==
    \A d \in 1..MaxDay :
        /\ Generated(Workspaces, d) <= GlobalCeiling
        /\ \A ws \in Workspaces :
             /\ Generated({ws}, d) <= WorkspaceCeiling
             /\ CallsMade(ws, d) + Cardinality(InFlight(ws, d)) <= CallCeiling

\* An override that switches generation off waits for the call in flight, and
\* none starts after it: no provider call is under way in a workspace that is
\* switched off (execute_generation's gates, _lock_workspace).
OffMeansQuiet ==
    \A w \in Workers :
        workers[w].pc \in {"gated", "checked", "calling", "settled"} => on[Ws(w)]

\* A job yields one draft if it succeeded and none otherwise, though an attempt
\* that lost its lease may still finish after the next one began.
OneDraftPerJob ==
    \A ws \in Workspaces :
        /\ \A i, j \in DOMAIN drafts[ws] : drafts[ws][i] = drafts[ws][j] => i = j
        /\ \A k \in DOMAIN jobs : k.ws = ws =>
             (jobs[k].status = "succeeded" <=> \E i \in DOMAIN drafts[ws] : drafts[ws][i] = k)

\* Requests that would produce the same draft never queue it twice at once
\* (_idempotency_prefix: "a repeated submit joins the job already queued"), except a draft
\* one of whose jobs retention deleted between a request's count of them and its insert:
\* there two requests may count differently, and queue the draft under two keys.
OneLiveJob ==
    \A j, k \in DOMAIN jobs :
        /\ j.ws = k.ws /\ j.version = k.version /\ <<j.ws, j.version>> \notin crossed
        /\ jobs[j].status \in Active /\ jobs[k].status \in Active
        => j = k

=============================================================================
