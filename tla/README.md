# SignalNest: a TLA+ model of the durable core

SignalNest is a multi-tenant FastAPI monolith (`apps/api/app`) with a separate
worker process, a React client (`apps/web`) and deployment tooling. Customers
define *Scouts* (scout requests); a Scout's *run* fetches public sources,
analyses what it finds with paid LLM calls and stores opportunities and briefs,
from which drafts are generated once they are approved. What can go wrong in an
order nobody tested lives where transactions, worker processes and external
calls meet: the durable job queue, the life of a Scout and of its schedule, the
ledger and the ceilings that pay for LLM calls, the reading of live sources and
their takedown, the members of organizations and their erasure, and the
credentials of an account. Those are modelled here.

All paths below are relative to `apps/api/app` unless they start with `docs/`.

## 1. The parts of the system

| Part | State | Operations | Talks to | What makes it hard | Correct when |
|---|---|---|---|---|---|
| Job store and worker (`jobs/store.py`, `jobs/worker.py`, `jobs/status.py`) | `jobs` rows: status, attempts, worker id, lease token and expiry; worker and heartbeat threads | enqueue, claim, start, heartbeat, complete, fail, cancel, recover, drain | handlers, routes | several processes, crashes, leases that lapse under a live owner, two database dialects | one owner can write; status moves only along `_ALLOWED`; every job ends |
| Scout run (`jobs/admission.py`, `jobs/handlers.py`, `jobs/pipeline.py`, `scouting_requests/routes.py`) | the `scout_requests` row: status, run fence, owner; the run's captured credentials | pause, resume, run now, tick, claim, admit, finish, restore, release, cancel, settle a failure | job store, ledger | each step is its own transaction; routes read first and write later; hooks run late | a live run keeps its Scout; a pause holds; old runs change nothing; a Scout is not left in flight with nothing driving it |
| Scout schedules (`scouting_requests/schedules.py`) | `scout_schedules` rows, tick jobs | create, pause, resume, delete, tick, chain, reseed | job store, Scout | a chain of jobs is the only memory of a recurrence; pauses, hooks and late ticks meet | one chain per schedule, never two; the cap holds; the recurrence goes on |
| LLM budget ledger (`llm/budget.py`, `llm/metering.py`) | period, reservation and usage rows, one meter per attempt | reserve, settle, late settlement, release, sweep, reconcile | run admissions, job leases | settlement races recovery; crashes with a call on the wire; deletion of the tenant | the month's budget is never exceeded; each call is charged once and recorded once; no reservation is kept for ever |
| Approvals, creative drafts, daily ceilings, overrides (`approvals/service.py`, `creative/service.py`, `llm/quota.py`, `capabilities/service.py`) | append-only decisions, generation jobs, draft versions, usage of the day, advisory and row locks | decide, request, generate, override, purge | job store, providers | requests join or queue jobs by key; gates are read long before the call they allow | a decision follows the one it saw; ceilings hold; an override is obeyed at once; one draft per job |
| Connectors and takedown (`connectors/live.py`, `connectors/feedcache.py`, `connectors/takedown.py`) | the worker's feed cache, takedown rows, stored signals and findings | read, retry, cool down, answer from the cache, take down, purge | pipeline, network | overlapping runs share a cache lock by lock; a takedown meets runs about to write | nothing of a taken-down source is stored; sources are left alone as long as they asked |
| Organizations, invitations, erasure (`organizations/`, `privacy/erasure.py`) | accounts, organizations, members, invitations | change a role, remove, invite, revoke, accept, register, leave, erase | row locks | checks and writes under different locks, taken in different orders | an owner remains; authority is current when it is used; nothing of the erased is left |
| Account credentials (`auth/service.py`, `auth/account_tokens.py`) | password and epoch, sessions, access tokens, mailed tokens | sign in and out, change, reset, verify, delete | mail | passwords are verified without a lock; tokens are mailed | no credential outlives its password; a token works once; mail is throttled |
| Worker registry, backoff, stuck jobs, Redis wake-up | `workers` rows; none; none; Redis keys | register, beat, drain; delays; listings; notify, lock | worker | late beats, expired locks | observability never gates a job |
| Intelligence, scoring, geography, claims and other data parts | none shared | pure transformations | | | |
| Web client, deployment and tooling (`scripts/`, `security/`, `infra/`) | none of the product's | | | | |

`PROJECT.json` lists every part with its sources and status, and every hazard
with the line where it bites.

## 2. Modules

| Module | Models | Kind |
|---|---|---|
| `JobStatus` | `jobs/status.py`: classes of statuses and `_ALLOWED` | pure |
| `DurableJobs` | store, worker threads, heartbeats, cancel route, processes | state machine |
| `JobLifecycle` | what the queue promises, without tokens, leases or processes | abstract specification |
| `DurableJobsRefinement` | `DurableJobs` implements `JobLifecycle` | refinement mapping |
| `ScoutRun` | one Scout, its jobs, runs, routes, tick | state machine |
| `ScoutLifecycle` | what a Scout promises: epochs, owners, who settles it | abstract specification |
| `ScoutRunRefinement` | `ScoutRun` implements `ScoutLifecycle` | refinement mapping |
| `ScoutSchedule` | the schedules of a workspace and their tick chains | state machine |
| `LLMBudget` | the ledger of one workspace, its meters, K = 1 admissions | state machine |
| `CreativeDrafts` | decisions, generation requests and jobs, ceilings, overrides, retention | state machine |
| `FeedReads` | the reads of one worker process, its cache, takedowns | state machine |
| `Tenancy` | accounts, organizations, members, invitations, erasure | state machine |
| `AccountTokens` | the credentials of one account | state machine |
| `..._proofs` | proofs about the module they are named after | TLAPS |
| `MC...` | instances for TLC | |

`JobStatus` is shared by `DurableJobs`, `JobLifecycle` and `ScoutRun`. The other
state machines take the queue at the level `DurableJobs` is shown to implement:
a job has one owner with a credential, its effects commit with its transition or
not at all, and recovery takes a lapsed lease back. Operators named `...Bug`,
each just above the definition it changes and under a comment that starts with
"Mutant", are not part of the model: they show that a property notices when the
code goes wrong.

### DurableJobs

* `jobs[j]` is a row of the `jobs` table; a `lease` is `live` or `lapsed`, which
  is `lease_expires_at` against the reader's clock; `due` is `available_at`
  against it. A lease token is a nonce: `ClaimRow` takes one nobody still holds
  (`_new_lease_token`).
* `threads[t]` is a worker thread with the credential it captured at the claim.
  It survives in the thread after the row has moved on: that is what the fence
  (`FencedUpdate`, the WHERE clause of `_fenced_update`) is for. Two threads of
  one process share a worker id.
* `beats[t]` is the heartbeat thread of the run. It reads the status in one step
  and extends the lease in the next, and may outlive its run by that one step.
* `cancels[c]` is a cancel request between its read and its compare-and-set,
  tried three times.
* `up[w]` is a process: up, draining or down. A crash loses all credentials of
  its threads; an expired shutdown grace is a crash.
* On PostgreSQL claim and recovery lock the rows they select, so each is one
  action; on SQLite they are a read and a compare-and-set (`Dialect`).

### ScoutRun

* `request` is the Scout's row. The routes `Pause` (one statement), `ResumeRead`
  / `ResumeWrite` (read, then a write by primary key), `RunRead` / `RunWrite`
  (read, then compare-and-set and enqueue) and the tick (`TickRead` /
  `TickWrite`) act on it.
* `runs[t]` is an attempt: `MarkRunning`, the first safe point (`Start`), the
  claim of the Scout (`ClaimScout`, its own transaction), admissions, which are
  refused for the first `Cause` that applies, `Finish`, or an exception
  (`Raise`), the after-rollback writes (`Rollback`) and the failure (`Fail`),
  with the hook that settles the Scout. `FinalWrite` is the last transaction:
  the row and the Scout change together or, where the fence refuses, not at all.
* A credential is the number of the claim that minted it. `overwritten` is a
  history variable for one property: a Resume overwrote a status other than the
  paused one it had read.
* `ScoutLifecycle` is the Scout as its customer may see it: a status, an epoch
  that each pause begins anew (the run fence), an owner, and the epoch each job
  was enqueued in. There a take-over is one step of a job of the current epoch; a
  settlement is made for a job of that epoch and not in place of another job's
  run; an owner releases the Scout, gives it back or refuses it. Every read that
  precedes its write, lease, claim number, hook and rollback of `ScoutRun` is
  hidden by the mapping.

### ScoutSchedule

* `schedules[r]` is the `scout_schedules` row of Scout r; `ticks[k]` a live tick
  job, `scheduled` until its occurrence. A tick reads (`TickRead`, the gates of
  `run_schedule_tick` in their order), then commits the fan-out, its successor
  and its completion together (`TickChains`), or ends (`TickStops`).
* A tick that fails for good runs `recover_after_tick_failure` in the failing
  transaction: `HookPlan` is what it reads, `TickFails` what it commits.
* `calls[c]` is a route: it reads its row, the enabling ones lock the workspace
  row and count (`CallCounts`), and commit. A resume writes `enabled` only where
  it differs from the value it loaded, as the session does.
* `lost` is a history variable: what left an enabled schedule without a tick.

### LLMBudget

* `calls[<<m, n>>]` is the reservation row of the n-th call of meter m, with its
  usage row and its admission; `periods[p]` is the month's row.
* `Reserve` is `before_attempt` with its admission, reservation and conditional
  period update in one transaction. `Settle` is `after_attempt`: the row is
  still reserved, or recovery was first (`LateSettlement`), or the tenant is
  gone (`OrphanedSettlement`).
* `Bind` counts the job's usage rows and `ReleaseEarlier` then releases what an
  earlier attempt left, in its own transaction. `SweepRead` and `SweepWrite` are
  apart because the sweep selects without a lock. Every recovery goes through
  `Recovered` (`_release_rows`).
* `Reconcile` is an operator's resolution of an admission (`jobs/reconcile.py`).

### CreativeDrafts

* `decisions[ws]` are the rows on the workspace's brief by `decision_seq`. A
  decider reads the controlling one under the brief row's lock and appends.
* A request reads its gates, then the prior jobs of its idempotency prefix, and
  enqueues with the key that numbers it after them; a key that exists is joined.
  Retention (`Purge`) deletes a finished job at any time, between the two as well.
  A key may then come again, so a row also has an `id`, which `rows` counts;
  `crossed` is a history variable: the drafts a purge overtook a request for.
* A job thread takes the advisory lock of all generation and the workspace row
  (`LocksForGeneration`, the two together), reads its gates, checks the three
  ceilings before each provider attempt, reserves and settles it in sessions of
  their own, and commits its draft with the completion of the job.
* `calls` are the provider attempts of generation and of everything else that
  spends; `on` is the resolved capability; `left` bounds how often each event of
  the surroundings happens.

### FeedReads

* `cache[s]` is the entry of `FeedCache`: a body, how long it is fresh, how long
  the source is left alone, the failures in a row. Every lookup and every update
  takes the cache's lock for itself: `fresh` and `cooling` are two steps.
* `runs[r]` reads one source after the other (cache, cool-down, admission, wire,
  retries), takes the shared advisory locks of the sources it got, re-checks the
  takedowns and commits. A takedown waits for the exclusive lock of its source,
  reads the evidence of the findings that cite it (`TakedownReads`, which locks no
  finding), and later writes it back whole, without the source, with the
  suppression and the purge of the signals (`TakedownCommits`).
* `trail` is what an observer of the wire remembers; no action reads it. Among it,
  `sent` holds the requests of the last interval, each with its thread, its
  number among the thread's attempts, its age, and whether its thread has begun
  another fetch since; `overlapped` says that another takedown had read, and was to
  write back, a finding that cites this source too.

### Tenancy

* A call of a route is a transaction: it reads, waits for locks, decides
  (`step`), and commits; `held` are the rows it holds: organizations and users
  FOR UPDATE, invitations because it updated or will delete them. Foreign keys make
  inserts wait for the first two, and updates of an invitation wait for its row.
* A revocation or a superseding invitation writes the invitation first and then
  waits for the actor its audit row names; an acceptance locks the organization,
  then the invitation (`AcceptClaims`), then inserts.
* An erasure locks the user row (`EraseLocksUser`), then the organizations it
  read, in id order (`EraseLocksOrganization`), plans under the locks
  (`EraseDecides`), and then comes to the invitations it deletes or clears one by
  one, in any order (`EraseReaches`, `EraseLocksInvitation`). The erasure of an
  invitee's address (`ForgetDecides`) walks invitations only.
* `DeadlockAborts`: the database aborts a call that waits in a cycle (`WaitsOn`,
  `Deadlocked`). Cycles are real here, and not only with an erasure in them: an
  acceptance that holds the organization waits for an invitation that a
  superseding call holds, which waits for the organization. A worker that runs a
  job of an organization refuses its erasure (`NoActiveJobs`, nondeterministic).

### AccountTokens

* The password is a version number and `epoch` the credential epoch; `tokens[p]`
  are the mailed tokens of a purpose. A request reads (`Begins` with what it
  loaded) and later decides and writes under the user row's lock in one action.
* A mailed token expires, is spent or is withdrawn; the mails of a purpose within
  the sliding window are counted against the cap, the last one against the
  cooldown (`Counted`, `Throttled`).

## 3. Runs

Times on two cores.

| Run | Distinct states | Question | Bounds |
|---|---|---|---|
| `jobs_safety` | 598,188 (44 s) | one owner, who may take a job, refinement of `JobLifecycle`, on PostgreSQL | 1 job, 3 threads in 2 processes, 3 tokens, 1 cancel request, 2 attempts, 2 faults |
| `jobs_liveness` | 323,889 (29 s) | jobs end, drains end, legal transitions, on SQLite | 1 job, 2 processes of one thread, 2 tokens, 1 cancel request, 1 fault |
| `jobs_cancel_crash` | violation | a requested cancellation ends the job | 1 attempt, 1 fault |
| `scout_safety` | 1,886,955 (45 s) | ownership, old runs, stranding, refinement of `ScoutLifecycle` | 2 jobs, 2 threads, 2 editors, 1 pause, 1 fault, no Cancel |
| `scout_liveness` | 712,628 (24 s) | runs settle | 2 jobs, 1 thread, 1 editor, a Cancel, 1 fault, a schedule |
| `schedule_chain` | 709,534 (58 s) | one chain, the cap, no pile-up, how a chain is lost, and that it goes on | 2 Scouts, 2 customers, cap 1, 2 schedules ever, 2 attempts, 2 faults |
| `tenancy_erasure` | 1,863,873 (50 s) | an owner remains, nothing names the erased, the caller's authority is current, nobody stands still | 2 organizations, 2 owners and an address, 2 callers, 1 invitation |
| `account_credentials` | 1,788,134 (45 s) | credentials follow the password, tokens work once, mail is throttled | 2 callers, 2 changes, 2 reset tokens, 1 verification token, a daily cap of 2, cooldown 1, window 3, 1 session, clock to 4 |
| `creative_drafts` | 934,917 (38 s) | decisions, ceilings, overrides, one draft, one live job | 2 workspaces, 2 threads, 2 deciders, 2 requesters and 3 requests, 1 purge, 3 calls, 2 days |
| `feed_reads` | 319,001 (29 s) | takedowns, politeness, 304 answers, Retry-After | 2 sources, 2 threads, 2 operators, interval 2, pause 3, 2 attempts |
| `budget_ledger` | 629,386 (25 s) | budget, balance, usage, serial calls, final charges | 2 attempts of a job and a brief, 1 call each, 2 months, worst case 2, reports 1 and 3, budget 3, 1 fault |
| `budget_liveness` | 107,200 (12 s) | nothing leaks | 2 attempts, 2 calls each, 1 fault |

Why these bounds are enough to be worth something. One job is all a fence
compares; three threads with two of one process give the reclaim by the same
worker id, three tokens a stale credential for two of them and a fresh one (two
in the run of liveness: the lost attempt's and its successor's); two
faults give a crash inside a recovery; two attempts give a retry and an
exhausted budget of attempts. Two jobs of a Scout are a run and its rival, one
pause separates old from new runs, two editors give a Resume that writes late; a
Cancel is left to `scout_liveness`.
Two schedules ever created over two Scouts with a cap of one give a full cap, a
deletion followed by a new schedule on the same Scout, and a tick that outlives
its own; one customer creates while the other pauses, resumes and deletes. Two owners are enough for each to remove the other, two organizations
for two orders of locks. A second reset token is minted once the cooldown of 1 has
passed, and the window of 3 slides within a clock of 4, so the cooldown refuses
what the cap of two allows. Of the
ceilings, the workspace's allows one worst case of 2 under 3 and the global one
two under 4, so each refuses something the other allows. A budget of 3 with
worst cases of 2 refuses the second call of a month, a report of 3 exceeds its
bound and a report of 1 is below it, two months separate reservation from
settlement. What the proofs of section 5 state holds for every instance. Larger ones were
explored by hand and gave the same answers: `scout_safety` with a Cancel (4.1
million states), with three jobs (20 million) and, for the refinement, with a
Cancel and a schedule (5.7 million), `jobs_liveness` with three
tokens (656,000), `schedule_chain` with other divisions of the routes (1.8
million), `account_credentials` with three reset tokens (5.7 million),
`creative_drafts` with its surroundings less often excluded (1.9 million),
`feed_reads` with operators who may take down either source (780,000) and
`budget_ledger` with a budget of 5 (3.4 million).

Two modules bound what may happen besides the actors they are about by a choice
made once, so that the product of rare events does not drown the interesting
ones: in `CreativeDrafts`, `Occasions` says how often each event of the
surroundings may happen and `MCCreativeDrafts` lists seven mixes; in `FeedReads`,
an occasion is a deployment (sources, answers, what a finding may cite, which
operator takes down what, whether time matters) and `MCFeedReads` lists four:
failing sources over time, a source that asks to wait while an operator takes it
down, one source taken down by two operators, and two sources taken down by two
operators while two runs write. `MayCall` of three modules says which routes
each caller uses; together the callers use all of them.

Tokens, threads, editors, attempts, workspaces and equal owners are symmetric
where the cfg says so; the runs of liveness properties use no symmetry. That
something ends is stated as "again and again it is not going on" (`[]<>`), which
under the fairness below is what "each one that begins ends" (`~>`) says of it,
and which TLC checks without a product of the state graph.

Deadlock is checked in `jobs_safety`, where a process can always poll. The other
specifications have finitely many jobs, calls or ticks and really do stop when
all are used up, so their configurations say `CHECK_DEADLOCK FALSE`.

Fairness, weak throughout. Queue: a thread keeps polling (`Worker._loop` never
leaves its loop and swallows a failing poll), an attempt ends (a handler is
assumed to return), the heartbeat beats, the clock advances, a supervisor
restarts a stopped process and the sweep runs in every poll (`poll_once`).
Schedules: each tick is in the hands of one of the clock, a polling worker, a
handler that returns or the recovery of a lapsed lease. Feeds: a run that began
reading goes on and a free lock is granted (`WF` of a run's reads and writes and
of a takedown's purge). No customer or operator has to act: enqueue, cancel,
pause, resume, takedown and reconcile carry no fairness, time need not pass in
`FeedReads`, and nothing obliges a live owner's lease to lapse. In `DurableJobs`
and `ScoutRun` the lease of a job whose owner is gone lapses.

## 4. Where the code and its documentation differ

Checked by a run that expects a violation:

1. `jobs_cancel_crash`: `_recovery_candidates_select` (`jobs/store.py:715`) takes
   only claimed and running rows. A job that was asked to cancel and whose worker
   then dies stays `cancel_requested`; `docs/phase-3a-durable-jobs.md:67-68` and
   `jobs/worker.py:15` say otherwise.

Found by runs that have since given their place to others; the passing runs
state what holds all the same (`StrandedOnlyByStops`, `ChainLostOnlyBy`):

2. A Cancel between the claim of a job and `mark_running` is overwritten by it.
   The run still stops, but `settle_cancelled_request` wants the row to say
   `cancel_requested`, so the Scout stays queued with no job; compare the comment
   at `jobs/handlers.py:244`. With three jobs there is another way: a run that
   was cancelled before it started does not settle the Scout while a superseded
   rival is still closing, and the rival does not either.
3. A lease that has lapsed but was not recovered when the Scout is claimed is
   treated as lost (`jobs/admission.py:466`): the job ends succeeded and the
   Scout stays queued; the runbook
   (`docs/operations/scout-scheduling-runbook.md:488`) promises a retry.
4. Resume writes `draft` over whatever the Scout became after it was read
   (`scouting_requests/routes.py:397`): over a running Scout, whose run then
   leaves it in flight, and over a queued one, so that a second Run now is
   accepted while the first one's job is queued.
5. `bind` counts the job's recorded calls once (`llm/metering.py:377`). The call
   of a lost attempt settles later, and the job records more than
   `llm_max_calls_per_run` calls; the wait of K = 1 admissions does not help,
   because the settlement frees the slot.

Seen while modelling:

* Schedules. A resume takes any pending tick of the Scout for its own, so the
  tick of a deleted schedule leaves the new one without a chain once it finds its
  own gone (`lost` "foreign"; `schedules.py:239-247`). A resume keeps an older
  pending tick although `next_run_at` is recomputed. A tick that read `enabled`
  before a pause still fans out; one that read the pause and commits after the
  resume leaves no chain ("late_stop"). A tick in `cancel_requested` whose worker
  died is stuck, and keeps the schedule from being reseeded.
* Tenancy. Locks are taken in several orders (an erasure: user, organizations,
  invitations; a member route: organization, user; a revocation: invitation, user;
  an acceptance: organization, invitation, user), so calls can deadlock and the
  database aborts one. The deletion of an account looks for the invitations sent to
  its address once, without a lock that an inviter would wait for, so one inserted
  after that stays. The refusal of an erasure while jobs run is decided once, so "no
  worker writes into a scope that is being deleted" (the docstring of
  `erase_organization`) is not ensured for a job that starts after it.
* Creative drafts. "A repeated submit joins the job already queued"
  (`creative/service.py:342-343`, `creative/routes.py:35-36`) does not hold across
  retention: a request reads one finished prior job, retention deletes it
  (`privacy/retention.py:102-106`), another request reads none and queues key 0, and
  the first queues key 1, so one draft has two live jobs. `OneLiveJob` leaves out
  the drafts this happened to (`crossed`) and holds for all others. Without a race,
  retention may leave `len(prior)` the number of a remaining finished job, so that
  a request is answered with that job and nothing is queued
  (`creative/service.py:390-424`). The calls ceiling counts
  usage rows only, so a call whose process died does not count. The retention of
  decisions purges in id order (`privacy/retention.py:118-144`) and may delete a
  newer revocation before the older approval it withdraws.
* Takedowns. The runbook (`docs/operations/live-data-sources.md:145-150`) says that
  a takedown removes the source's entries from the evidence of mixed
  opportunities. `_purge` reads that evidence without a row lock and writes the
  whole list back (`connectors/takedown.py:308-315`), and the advisory locks are
  per source, so of two takedowns of two sources that one opportunity cites, the
  later write restores what the earlier one removed. Neither sees it: each recounts
  what remains (`verified`, lines 155-156) inside its own transaction.
  `SuppressedForGood` leaves out the findings of such a source (`overlapped`).
* Feeds. `fresh` and `cooling` are looked up under separate acquisitions of the
  lock; a `store` in between clears the cool-down, and the thread fetches again a
  source that was just read. The runbook allows overlapping runs
  `WORKER_CONCURRENCY` x `CONNECTOR_RSS_MAX_ATTEMPTS` requests in an interval
  (`docs/operations/live-data-sources.md:234-237`); with these second fetches there
  can be more. Each needs a store by another thread, so the bound is
  (2 `WORKER_CONCURRENCY` - 1) x `CONNECTOR_RSS_MAX_ATTEMPTS`, which `PoliteFloor`
  states and TLC and TLAPS confirm. A stop
  between two attempts starts no cool-down. In overlapping runs a later failure
  without Retry-After, or a good answer, replaces a longer cool-down that
  Retry-After asked for. `forget` of a takedown removes the body a 304 in flight
  needs (`feedcache.py:8-9`). `revalidated` does not clear a cool-down that an
  overlapping run started, so a source just confirmed is reported `held`.
* Queue. On SQLite, which is for development, `_recover_one` decides from the
  attempts it read before its conditional write (`jobs/store.py:796`), so
  `AttemptBudget` can fail there. After a lease was recovered and the job
  requeued, a late `complete` or `fail` meets `ensure_transition` first and
  raises `InvalidJobTransition` rather than `JobLeaseLostError`. Two threads may
  both be inside the handler of one job after a lapse, although only one can
  write (`jobs/worker.py:18-20`).
* Ledger. `release_expired` evaluates `live_lease` before it locks
  (`llm/budget.py:745`), so a heartbeat in between does not keep a reservation of
  a live job from being expired, at its worst case.
* Worker registry. The fence of the registry reads the generation and writes by
  it in two steps (`jobs/worker_registry.py:112-125`); `sweep_stale` may overwrite
  a stopped or draining worker, and a late beat a draining one. The advisory
  lock of `jobs/coordination.py:143` can be released after its time-to-live by a
  holder that lost it. Both only report or only save work.


## 5. Proofs

Checked by TLAPS for every value of the constants that satisfies the named
assumptions, the `ASSUME`s of each module; nothing else is assumed. Almost no
invariant of interest is inductive as it stands. What each needed:

`DurableJobs_proofs`. `TypeOK` says that a busy thread holds a job and a token
and an idle one none, which makes it inductive (`TypeCorrect`), and
`OwnershipMatchesStatus` is inductive on top of it (`OwnedWhileActive`): each
write sets worker, token and lease together or clears them together, and the
fenced ones start from a held row. `OneOwner` is not: a claim could mint a token
another thread still holds. Tokens captured by two threads differ, and
`ClaimRow` keeps it so (`SingleOwner`). For the rest, every step changes a row by
one of seven moves (enqueue, claim, start, extend, end, give back, ask to
cancel); with an invariant of the whole queue this gives `CancelsAreRequested`,
`TransitionsAreLegal`, `OwnersDecide`, on PostgreSQL `AttemptsStayInBudget`, and
there too `QueueImplementsLifecycle`: initial states map to initial states, and
each move is an action of `JobLifecycle` or a stutter.

`LLMBudget_proofs`. `LedgerInv`: a row's usage follows its state
(`UsageFollowsState`), a meter's rows follow its position (`CallsFollowMeter`),
the meter stays within the cap (`MadeWithinCap`). Most steps are `Quiet`; one
lemma covers them, and `Reserve`, `Settle` and `DeleteTenant` have their own.
From it `EveryCallRecorded` and `ChargesNeverChange`. `MoneyInv` says that the
amounts of a month are the sums over its rows (`LedgerBalances`, `BudgetIsKept`,
`TypeCorrect`), with `CallsOneAtATime` and `DeletedStaysEmpty`. The sums are
folds over sets. What the proofs need of them (any element may be added first;
what one changed amount does to the total) is proved first; induction over finite
sets takes an operator as a parameter, so each of those lemmas considers a least
counterexample instead.

`AccountTokens_proofs`. Credentials live only under the password version that
issued them (`CredentialsEnd`); a write of a token's table never opens a row
again, and closes all others when it opens one (`OneIsOpen`), so a confirmation that
presents a closed token finds it closed and writes nothing (`TokensAreSpentOnce`);
what a request loaded is at most as new as what it finds (`ProofsAreCurrent`);
rows carry times that increase, so those in a window are the last ones
(`MailThrottled`).

`FeedReads_proofs`. A run that holds the shared lock of a source has seen no
takedown of it, or the takedown waits; what a takedown read of the findings that
cite its source still stands when it writes, unless it was overlapped
(`ReadsAgree`, `TakenDownIsGone`); a body a conditional request relies on stays
until the request is answered or forgotten (`BodiesOutliveRequests`);
`TypeCorrect`. `PoliteInv` bounds the requests of an interval (`SourcesAreSpared`).
Each that is counted belongs to a fetch that still lasts, or is at least as old as
the hold-off or the young body its fetch left (`Window`). So a run that found no
young body has no counted request, unless a body came since it looked (`Asking`),
and then its fetch is its second; and while a body is young, the thread that
brought the first one has fetched once and is not about to again (`Spared`). No two
requests of one fetch have one attempt number (`Distinct`, `FewRequests`).
What a publisher asked
for never exceeds the cool-down that was set (`PausesAreKept`), whatever power of
two the cool-down grew to: of `2 ^ n` the proof uses no more than that it is an
integer. That the threads are finitely many is an assumption the bound itself
needs (`FeedAssumption`).

`Tenancy_proofs`. A call that has decided still holds the rows it read; no row
has two holders; members are active accounts of live organizations; a departing
account has locked each organization it can still be a member of
(`MemberBacked`, `AcceptBacked`, `EraseBacked`). A call that wrote an invitation
holds it, open (`InviteBacked`, `RevokeBacked`), and an erasure holds or is yet to
come to every invitation that names what it erases (`Reaches`): others may clear
such a name, but add none while it holds the user and the organizations
(`NamesKept`). Each step is by the actor it is about or leaves what it holds alone
(`Bystander`). From these `TypeCorrect`, `OwnersRemain`, `ErasedIsForgotten`,
`AuthorityHolds` and `InvitationsFinal`. Only calls under way hold rows, and whoever
follows finitely many waits walks in a circle; so a call can go on or the database
breaks a deadlock (`NobodyStandsStill`, which is `NoStandstill` without `ENABLED`).
It needs that concurrent calls are finitely many and that users, organizations and
invitations are rows of different tables (`TenancyAssumption`). Nothing is claimed of
which calls a deadlock needs: with the rows of invitations there are many kinds.

`ScoutRun_proofs`. Each step is a move of the Scout's row, the attempts and the
owner (`TypeCorrect`); who made it, a pause, an editor, a hook or an attempt, gives
the action properties `PausesHold`, `OldRunsAreInert` and `OwnersKeepTheirScout`.
`OnlyStopsStrand` is the long one: while nothing of the excused kind happened, a
Scout in flight has an owner that still drives it, or a job that will claim it,
or a hook about to settle it, job by job and attempt by attempt (`Drive`).
`ScoutImplementsLifecycle` needs three more facts: an attempt that restores the
Scout never restores "paused" (`NotFromPaused`), the fence a tick read is not
ahead of the Scout's (`TickBehind`), and only a Run now and a tick add a job
(`NoNewJob`). Each other step leaves the row alone, or the owner leaves it, a job
of its fence settles it, or an attempt takes it over (`ByRun`). `PauseHolds`,
which no run lists any more, follows the abstract specification's `Next`, where
only `Resume` leaves "paused", and has its own theorem with the editor named.

`ScoutSchedule_proofs`. Ids of schedules are given once, so a tick belongs to at
most one; then one chain is a consequence of what a tick, a hook and a resume
read before they add one (`ChainsAreSingle`). A call that counts holds the
workspace lock until it commits (`CapIsKept`). A tick that decided to run does so
while its row is there and nothing runs (`RunsDoNotPileUp`). Whatever ends a
chain records its cause (`ChainsAreLostOnlyBy`).

`CreativeDrafts_proofs`. A decider that read the controlling decision still sees
it, and no two hold one brief (`RevocationsAreEarned`); a thread past its gates
holds the workspace row, under which alone the override changes (`OffIsQuiet`);
the prior jobs a request read have all ended and, unless a purge overtook it, are
still there, so if more have come since, its number is taken (`PriorHaveEnded`,
`LiveJobIsSingle`); a row's id is never given again (`RowsAreOld`), so the job an
attempt finishes is the one it claimed although its key may have come again, and
stores one draft (`DraftIsSingle`); `TypeCorrect`. `CeilingsAreKept` rests on the lock of all
generation: one thread at a time is past it, so the room a thread found at its
check is still there when it reserves and while it calls (`RoomLeft`): its own
call left out, the worst case fits, a new day only makes room, and a settlement
charges no more than the worst case. Whatever else spends is charged to
another task (`OtherCalls`). The totals are sums over a sequence that grows; the
lemmas about sums are those of `LLMBudget_proofs`, stated again because neither
module can extend the other.

`PROJECT.json` names the run that checks the same property on its instance; the
type invariants of proved modules are proved and not run again.

Every safety property that a run checks is proved, except one. Only
model-checked: `NoStandstill`, which speaks of `ENABLED` (`NobodyStandsStill` is
what of it can be proved; that a call whose rows are free really can proceed is
what TLC adds); liveness, which rests on fairness (`EveryJobEnds`, `DrainEnds`,
`RunsSettle`, `NothingLeaks`, `RecurrenceGoesOn`, `TakedownEnds`). The refinement
is not claimed on SQLite, and neither is the bound on attempts.
`SomeoneCanGo`, which no run lists, was checked by hand on the instance of
`tenancy_erasure`, and the inductive invariants of the longer proofs (`PoliteInv`,
`CeilingInv`, `Inv` of `Tenancy_proofs`) on the instances of their modules.

## 6. What is abstracted

* Time is the order of events: leases, deadlines and availability lapse in steps
  of their own, so every relative speed is covered. Where a length matters it is
  a small clock (`FeedReads`, `AccountTokens`, months in `LLMBudget`, days in
  `CreativeDrafts`). Claim order, priority, backoff and poll intervals are left
  out; recovery's limit of 100 rows is not reached.
* Handlers are their transactions; what a run computes is data.
* Faults are counted (`MaxFaults`): crashes, shutdowns, leases that lapse under a
  live owner.
* Not in `ScoutRun`: deletion or erasure of the request, incomplete identities,
  jobs enqueued before fences, SQLite, hooks and fenced writers that raise.
  Refusals by needs-attention, location or budget are the nondeterministic
  refusal of `RunWrite`.
* Not in `ScoutSchedule`: the times of occurrences (how a resume recomputes the
  next one), deletion of the Scout under its schedule. The run a tick starts is
  reduced to "one is going", which `ScoutRun` models.
* Not in `LLMBudget`: the same-session path of SQLite (`record_settled`,
  `flush`), fetch admissions, the mock provider. A missing period row and a row
  of zeros are the same. A job is reduced to its holder and lease; the
  cancellation of a held job is a run that stops.
* In `CreativeDrafts`: PostgreSQL only; one brief per workspace in one version,
  one channel, parent and requester, so that every request competes for one key;
  the two locks of a generation are taken together; a failure and its rollback
  are one step (`Finishes`). Cancellation of a generation job, decisions on
  drafts and the claims library are not modelled. The retention of decisions is
  not either: it may remove a decision others rest on (section 4).
* In `FeedReads`: no time passes between two lookups of one read; the eviction
  past 64 entries is not reached; a waiting takedown blocks new shared holders
  (`Claimed`), as PostgreSQL's lock queue does; the row locks that two takedowns'
  updates of one finding take until they commit, their deadlocks, and the API
  process's own cache are left out. One worker process, since the cache is one
  process's memory.
* In `Tenancy`: registering an account with an organization of its own is a single
  step; jobs that run are a nondeterministic refusal; an insert that meets another
  transaction's uncommitted row in the unique index of open invitations is refused
  or not by what is committed, and does not wait. The run has one invitation
  row, so it does not reach the branch of `InviteCommits` that supersedes an
  older one; the proofs cover any number.
* In `AccountTokens`: mail that is sent arrives; the token's text is its row.

Not modelled, and why: the worker registry, the advisory lock and backoff report
or pace and decide nothing (section 4 says what was seen of them); providers,
prompts, screening, scoring, geography, claims, connectors' parsers and exports
transform data and share no state; the web client and the tooling keep none of
the product's. Of the repository's 113,000 implementation lines about
half are scripts and security tooling and some 50,000 are the application's
(`apps/api/app`), where schemas, configuration, routing and transformations
outweigh the code that shares mutable state. The modules here map about 8,000
lines; what could still be added is in section 7, and is far from the rest.

Some hazards of this code are listed here rather than in `PROJECT.json`, because
nothing checks them and others are more pressing: the attempts SQLite's recovery
reads early (`jobs/store.py:796`), the unlocked read of `live_lease`
(`llm/budget.py:745`), the advisory lock's time-to-live
(`jobs/coordination.py:143`), the order in which retention purges decisions
(`privacy/retention.py:118`), a job that starts after an erasure decided.
`RunsSettle` is checked with one editor: with two, the run takes many minutes.

## 7. Plan

1. `WorkerRegistry` and `AdvisoryLock`: small, and both have known races.
2. In `ScoutRun`: fenced writers and hooks that raise, deletion of the request.
   `ScoutSchedule` with the effect of its ticks on the Scout, as an
   implementation of `ScoutLifecycle` too.
3. The same-session path of SQLite in `LLMBudget`.
4. Pure operators: `backoff`, next occurrence, stuck jobs, against reference
   definitions.
5. Proofs: that a schedule's ticks implement `ScoutLifecycle` (item 2); that the requests a source is sent are spread, not only
   bounded; the ledger together with the admissions it waits for.
