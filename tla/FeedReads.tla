------------------------------ MODULE FeedReads ------------------------------
(***************************************************************************)
(* How the Scout runs of one worker process read live sources, and how an  *)
(* operator takes a source down: connectors/live.py (LiveRssConnector),    *)
(* connectors/feedcache.py (the process-wide cache), connectors/           *)
(* takedown.py, and the part of jobs/pipeline.py between the selection of  *)
(* the sources and the commit of the run, on PostgreSQL.                   *)
(*                                                                         *)
(* The worker's threads share the cache; each lookup and each update takes *)
(* its lock, and nothing holds it in between.  A takedown is a transaction *)
(* of the API process, ordered against the runs by an advisory lock per    *)
(* source: shared for a run that is about to write, exclusive for it.      *)
(*                                                                         *)
(* Time is counted down: `fresh` and `cool` say how many ticks a body is   *)
(* still young and a source is still left alone.  `trail` is what an       *)
(* observer of the wire remembers; no action reads it.                     *)
(***************************************************************************)
EXTENDS Integers, FiniteSetsExt

CONSTANTS
    Sources,      \* source keys; their order is the order of sorted(keys)
    Threads,      \* the worker's threads, WORKER_CONCURRENCY of them
    Operators,    \* callers of the takedown route
    Interval,     \* the politeness interval, in ticks
    MaxDoublings, \* MAX_FAILURE_BACKOFF_DOUBLINGS
    Day,          \* MAX_COOL_DOWN_SECONDS, in ticks
    Pauses,       \* the Retry-After values a source may send
    MaxAttempts,  \* CONNECTOR_RSS_MAX_ATTEMPTS
    MaxRequests,  \* takedowns one operator asks for
    Occasions     \* the deployments explored: the registry, the sources that have
                  \* something for the Scouts, the sources one finding may cite, the
                  \* answers the sources give, which operator may take which source
                  \* down, and whether it lasts long enough for time to matter

Answers == {"good", "notModified", "unreadable", "refused", "transient", "askedToWait"}

ASSUME FeedAssumption ==
    /\ Sources \subseteq Nat
    /\ IsFiniteSet(Threads) /\ Threads # {} /\ Interval \in Nat \ {0} /\ MaxAttempts \in Nat \ {0}
    /\ MaxRequests \in Nat /\ MaxDoublings \in Nat /\ Day \in Nat /\ Pauses \subseteq Nat
    /\ Occasions \subseteq [registry : SUBSET Sources, matching : SUBSET Sources,
                            citable : SUBSET SUBSET Sources, answers : SUBSET Answers,
                            operators : SUBSET (Operators \X Sources), lasting : BOOLEAN]

VARIABLES
    occasion,  \* who and what this behaviour has; never changes
    cache,     \* the process's FeedCache, one entry per source
    runs,      \* what each thread's run is doing
    takedowns, \* what each operator's request is doing
    taken,     \* the committed rows of source_takedowns
    stored,    \* the committed signals and the evidence of the findings
    trail      \* the observer's notes

vars == <<occasion, cache, runs, takedowns, taken, stored, trail>>

NoEntry == [body |-> FALSE, fresh |-> 0, cool |-> 0, failures |-> 0]
NoRun == [pc |-> "idle", left |-> {}, hit |-> FALSE, conditional |-> FALSE,
          attempt |-> 0, got |-> {}, locked |-> {}]
\* The sources a finding still cites, by the sources it was built from; {}: no finding.
NoFindings == [f \in occasion.citable |-> {}]
NoTakedown == [pc |-> "idle", key |-> 0, saw |-> NoFindings, requests |-> 0]
NoTrail == [sent |-> {}, untracked |-> 0, asked |-> 0, overlapped |-> FALSE]

Init ==
    /\ occasion \in Occasions
    /\ cache = [s \in Sources |-> NoEntry]
    /\ runs = [r \in Threads |-> NoRun]
    /\ takedowns = [o \in Operators |-> NoTakedown]
    /\ taken = {}
    /\ stored = [signals |-> {}, findings |-> NoFindings]
    /\ trail = [s \in Sources |-> NoTrail]

Countdown(n) == Max({n - 1, 0})

\* The requests of the last interval, one tick later.
Older(sent) == {[e EXCEPT !.age = @ + 1] : e \in {f \in sent : f.age + 1 < Interval}}

\* The two lookups of one read follow each other at once: no tick falls between them.
Tick ==
    /\ occasion.lasting
    /\ \A r \in Threads : runs[r].pc # "cooling?"
    /\ cache' = [s \in Sources |-> [cache[s] EXCEPT !.fresh = Countdown(@), !.cool = Countdown(@)]]
    /\ trail' = [s \in Sources |->
                   [trail[s] EXCEPT !.sent = Older(@), !.untracked = Countdown(@),
                                    !.asked = Countdown(@)]]
    /\ UNCHANGED <<occasion, runs, takedowns, taken, stored>>

-----------------------------------------------------------------------------
\* The run selects its sources.

\* The observer knows that the process lost track of a source's contacts, and counts
\* again when an interval has passed.
Lost(note) == [note EXCEPT !.untracked = Interval, !.sent = {}]

\* The cache forgets sources.
Forget(keys) ==
    /\ cache' = [s \in Sources |-> IF s \in keys THEN NoEntry ELSE cache[s]]
    /\ trail' = [s \in Sources |->
                   IF s \in keys THEN [Lost(trail[s]) EXCEPT !.asked = 0]
                   ELSE trail[s]]

\* active_takedowns, live_connector_for and live_targets_for.
RunStarts(r) ==
    /\ runs[r].pc = "idle"
    /\ occasion.registry \ taken # {}
    /\ Forget(taken)
    /\ runs' = [runs EXCEPT ![r] = [NoRun EXCEPT !.pc = "fresh?", !.left = occasion.registry \ taken]]
    /\ UNCHANGED <<occasion, takedowns, taken, stored>>

\* The source a run is reading: targets are read one after the other.
Reading(r) == Min(runs[r].left)

\* The run goes on with its next source, or with what it has.
Passes(r, kept) ==
    LET rest == runs[r].left \ {Reading(r)} IN
    runs' = [runs EXCEPT ![r].left = rest, ![r].got = @ \cup kept,
                         ![r].hit = FALSE, ![r].conditional = FALSE, ![r].attempt = 0,
                         ![r].pc = IF rest = {} THEN "fetched" ELSE "fresh?"]

\* A source that was read delivers signals, if some of them match the Scouts' keywords.
Delivers(r) == Passes(r, {Reading(r)} \cap occasion.matching)

-----------------------------------------------------------------------------
\* One read of one source.

LooksForFresh(r) ==
    /\ runs[r].pc = "fresh?"
    /\ runs' = [runs EXCEPT ![r].pc = "cooling?", ![r].hit = cache[Reading(r)].fresh > 0]
    /\ UNCHANGED <<occasion, cache, takedowns, taken, stored, trail>>

\* Served without a request: the body is young, or the source cools down and one is held.
Serves(r) ==
    LET s == Reading(r) IN
    /\ runs[r].pc = "cooling?"
    /\ \/ (runs[r].hit \/ (cache[s].cool > 0 /\ cache[s].body)) /\ Delivers(r)
       \/ ~runs[r].hit /\ cache[s].cool > 0 /\ ~cache[s].body /\ Passes(r, {})
    /\ UNCHANGED <<occasion, cache, takedowns, taken, stored, trail>>

\* The observer tells the requests of a run's last fetch from those of the ones before.
Outdated(sent, r) == {IF e.by = r THEN [e EXCEPT !.old = TRUE] ELSE e : e \in sent}

\* Neither fresh nor cooling: a fetch, conditional if the held body has validators.  Both
\* may have become untrue at once, if another run stored a body between the two lookups.
BeginsFetch(r) ==
    LET s == Reading(r) IN
    /\ runs[r].pc = "cooling?" /\ ~runs[r].hit /\ cache[s].cool = 0
    /\ \E conditional \in {FALSE, cache[s].body} :
         runs' = [runs EXCEPT ![r].pc = "admit", ![r].attempt = 1, ![r].conditional = conditional]
    /\ trail' = [trail EXCEPT ![s].sent = Outdated(@, r)]
    /\ UNCHANGED <<occasion, cache, takedowns, taken, stored>>

\* The observer tells requests of one attempt at one time apart by their number.
Request(r, sent) ==
    LET same == {e \in sent : e.by = r /\ e.attempt = runs[r].attempt /\ e.age = 0} IN
    [by |-> r, attempt |-> runs[r].attempt, age |-> 0, nth |-> Cardinality(same), old |-> FALSE]

\* The admission of the attempt, and its request on the wire.
SendsRequest(r) ==
    /\ runs[r].pc = "admit"
    /\ runs' = [runs EXCEPT ![r].pc = "wire"]
    /\ trail' = IF trail[Reading(r)].untracked = 0
                THEN [trail EXCEPT ![Reading(r)].sent = @ \cup {Request(r, @)}] ELSE trail
    /\ UNCHANGED <<occasion, cache, takedowns, taken, stored>>

\* Mutant: the first failure holds the source off for nothing.
HoldOffBug(failures) ==
    IF failures = 1 THEN 0 ELSE Min({Interval * 2 ^ Min({failures - 2, MaxDoublings}), Day})

HoldOff(failures) ==
    Max({Interval, Min({Interval * 2 ^ Min({failures - 1, MaxDoublings}), Day})})

\* Mutant: Retry-After may shorten the hold-off, and is dropped after the first failure.
LengthenedBug(seconds, pause) == IF seconds > Interval THEN seconds ELSE Max({seconds, pause - 1})

Lengthened(seconds, pause) == Max({seconds, Min({pause, Day})})

\* fetch_failed; failures beyond the last doubling count the same. A pause of 0 asks nothing.
Cooled(entry, pause) ==
    LET failures == Min({entry.failures + 1, MaxDoublings + 1}) IN
    [entry EXCEPT !.failures = failures, !.cool = Lengthened(HoldOff(failures), pause)]

\* Mutant: a failed fetch also drops the copy it held.
FailedEntryBug(entry, pause) == [Cooled(entry, pause) EXCEPT !.body = FALSE, !.fresh = 0]

FailedEntry(entry, pause) == Cooled(entry, pause)

\* The fetch gave up: the cool-down starts and the source contributes nothing.
Fails(r, pause) ==
    LET s == Reading(r) IN
    /\ cache' = [cache EXCEPT ![s] = FailedEntry(@, pause)]
    /\ trail' = [trail EXCEPT ![s].asked = Min({pause, Day})]
    /\ Passes(r, {})

\* A good read ends the streak of failures and the observer's pause.
GoodRead(s, entry) ==
    /\ cache' = [cache EXCEPT ![s] = entry]
    /\ trail' = [trail EXCEPT ![s].asked = 0]

Answered(r, answer) ==
    runs[r].pc = "wire" /\ answer \in occasion.answers /\ UNCHANGED <<occasion, takedowns, taken, stored>>

\* A 200 with a readable body: store.
Stores(r) ==
    /\ Answered(r, "good")
    /\ GoodRead(Reading(r), [body |-> TRUE, fresh |-> Interval, cool |-> 0, failures |-> 0])
    /\ Delivers(r)

\* A 304: revalidated. It leaves a cool-down that another run started.
Revalidates(r) ==
    LET s == Reading(r) IN
    /\ Answered(r, "notModified") /\ runs[r].conditional
    /\ \/ /\ cache[s].body
          /\ GoodRead(s, [cache[s] EXCEPT !.fresh = Interval, !.failures = 0])
          /\ Delivers(r)
       \/ ~cache[s].body /\ Fails(r, 0)

\* An unreadable body, or a failure that is not retried.
IsRefused(r) ==
    /\ \E answer \in {"unreadable", "refused"} : Answered(r, answer)
    /\ Fails(r, 0)

AskedToWait(r) == Answered(r, "askedToWait") /\ \E pause \in Pauses : Fails(r, pause)

MayRetry(r) == runs[r].attempt < MaxAttempts

TransientFailure(r) ==
    /\ Answered(r, "transient")
    /\ \/ /\ MayRetry(r)
          /\ runs' = [runs EXCEPT ![r].pc = "admit", ![r].attempt = @ + 1]
          /\ UNCHANGED <<cache, trail>>
       \/ ~MayRetry(r) /\ Fails(r, 0)

-----------------------------------------------------------------------------
\* The re-check of the takedowns and the run's writes.

\* The exclusive lock of a source is held, or asked for and ahead in the lock's queue.
Claimed(s) == \E o \in Operators : takedowns[o].pc # "idle" /\ takedowns[o].key = s

\* Mutant: the keys are locked in any order.
NextKeysBug(missing) == missing

NextKeys(missing) == {Min(missing)}

\* The post-fetch admission, then without_taken_down: one shared lock per source.
ReadyToWrite(r) ==
    /\ runs[r].pc = "fetched"
    /\ runs' = [runs EXCEPT ![r].pc = "lock"]
    /\ UNCHANGED <<occasion, cache, takedowns, taken, stored, trail>>

LocksSource(r) ==
    /\ runs[r].pc = "lock" /\ ~(runs[r].got \subseteq runs[r].locked)
    /\ \E s \in NextKeys(runs[r].got \ runs[r].locked) :
         /\ ~Claimed(s)
         /\ runs' = [runs EXCEPT ![r].locked = @ \cup {s}]
    /\ UNCHANGED <<occasion, cache, takedowns, taken, stored, trail>>

StillUp(keys) == keys \ taken

Rechecks(r) ==
    /\ runs[r].pc = "lock" /\ runs[r].got \subseteq runs[r].locked
    /\ runs' = [runs EXCEPT ![r].pc = "write", ![r].got = StillUp(@)]
    /\ UNCHANGED <<occasion, cache, takedowns, taken, stored, trail>>

\* The run commits its signals and findings; a finding cites sources that delivered.
Commits(r) ==
    /\ runs[r].pc = "write"
    /\ \E new \in SUBSET {f \in occasion.citable : f \subseteq runs[r].got} :
         stored' = [signals |-> stored.signals \cup runs[r].got,
                    findings |-> [f \in occasion.citable |->
                                    IF f \in new THEN f ELSE stored.findings[f]]]
    /\ runs' = [runs EXCEPT ![r] = NoRun]
    /\ UNCHANGED <<occasion, cache, takedowns, taken, trail>>

\* A refused admission (a pause, a lost lease) or an exception ends the run and discards
\* its writes. A fetch that is cut between two attempts starts no cool-down.
RunStops(r) ==
    /\ runs[r].pc \in {"admit", "fetched", "write"}
    /\ trail' = IF runs[r].attempt > 1 THEN [trail EXCEPT ![Reading(r)] = Lost(@)]
                ELSE trail
    /\ runs' = [runs EXCEPT ![r] = NoRun]
    /\ UNCHANGED <<occasion, cache, takedowns, taken, stored>>

\* The process dies and is started again with an empty cache.
Restart ==
    /\ Forget(Sources)
    /\ runs' = [r \in Threads |-> NoRun]
    /\ UNCHANGED <<occasion, takedowns, taken, stored>>

-----------------------------------------------------------------------------
\* The takedown.

TakedownAsks(o, s) ==
    /\ <<o, s>> \in occasion.operators /\ s \in occasion.registry /\ takedowns[o].pc = "idle"
    /\ takedowns[o].requests < MaxRequests
    /\ takedowns' = [takedowns EXCEPT ![o].pc = "waiting", ![o].key = s, ![o].requests = @ + 1]
    /\ UNCHANGED <<occasion, cache, runs, taken, stored, trail>>

Holds(o) == takedowns[o].pc \in {"purging", "writing"}

OnlyTakedown(o) == \A p \in Operators \ {o} : Holds(p) => takedowns[p].key # takedowns[o].key

\* Mutant: the takedown does not wait for the runs that are writing.
ExclusiveBug(o) == OnlyTakedown(o)

Exclusive(o) == OnlyTakedown(o) /\ \A r \in Threads : takedowns[o].key \notin runs[r].locked

TakedownLocks(o) ==
    /\ takedowns[o].pc = "waiting" /\ Exclusive(o)
    /\ takedowns' = [takedowns EXCEPT ![o].pc = "purging"]
    /\ UNCHANGED <<occasion, cache, runs, taken, stored, trail>>

\* _purge reads the evidence of the findings that cite the source, locking none of them.
TakedownReads(o) ==
    /\ takedowns[o].pc = "purging"
    /\ takedowns' = [takedowns EXCEPT ![o].pc = "writing", ![o].saw = stored.findings]
    /\ UNCHANGED <<occasion, cache, runs, taken, stored, trail>>

\* The evidence it read is written back whole, without the source; a finding built only
\* from the source is deleted.
Purged(o) ==
    LET s == takedowns[o].key
        saw == takedowns[o].saw IN
    [f \in occasion.citable |-> IF s \in saw[f] THEN saw[f] \ {s} ELSE stored.findings[f]]

\* Another takedown read, and will write back, a finding that cites both its source and this.
Overlapped(o) ==
    \E p \in Operators \ {o}, f \in occasion.citable :
        takedowns[p].pc = "writing" /\ {takedowns[o].key, takedowns[p].key} \subseteq takedowns[p].saw[f]

\* The purge, the suppression and their commit; a repeated takedown purges again.
TakedownCommits(o) ==
    LET s == takedowns[o].key IN
    /\ takedowns[o].pc = "writing"
    /\ taken' = taken \cup {s}
    /\ stored' = [signals |-> stored.signals \ {s}, findings |-> Purged(o)]
    /\ trail' = [trail EXCEPT ![s].overlapped = @ \/ Overlapped(o)]
    /\ takedowns' = [takedowns EXCEPT ![o].pc = "idle", ![o].key = 0, ![o].saw = NoFindings]
    /\ UNCHANGED <<occasion, cache, runs>>

-----------------------------------------------------------------------------
Reads(r) ==
    \/ LooksForFresh(r) \/ Serves(r) \/ BeginsFetch(r) \/ SendsRequest(r)
    \/ Stores(r) \/ Revalidates(r) \/ IsRefused(r) \/ AskedToWait(r) \/ TransientFailure(r)

Writes(r) == ReadyToWrite(r) \/ LocksSource(r) \/ Rechecks(r) \/ Commits(r)

Purges(o) == TakedownLocks(o) \/ TakedownReads(o) \/ TakedownCommits(o)

Next ==
    \/ Tick \/ Restart
    \/ \E r \in Threads : RunStarts(r) \/ Reads(r) \/ Writes(r) \/ RunStops(r)
    \/ \E o \in Operators : Purges(o) \/ \E s \in Sources : TakedownAsks(o, s)

\* A run that has begun goes on, and a lock that is free is granted; nobody has to start a
\* run or a takedown, and time need not pass.
Fairness ==
    /\ \A r \in Threads : WF_vars(Reads(r) \/ Writes(r))
    /\ \A o \in Operators : WF_vars(Purges(o))

Spec == Init /\ [][Next]_vars /\ Fairness

-----------------------------------------------------------------------------
ReadStates == {"fresh?", "cooling?", "admit", "wire"}

RunIn(states) ==
    [pc: states, left: SUBSET Sources, hit: BOOLEAN, conditional: BOOLEAN,
     attempt: 0 .. MaxAttempts, got: SUBSET Sources, locked: SUBSET Sources]

Findings == [occasion.citable -> SUBSET Sources]
Takedown == [pc: {"idle", "waiting", "purging", "writing"}, key: Sources \cup {0},
             saw: Findings, requests: 0 .. MaxRequests]

\* The types of what decides the steps; an entry of the cache also counts ticks and failures.
TypeOK ==
    /\ occasion \in Occasions
    /\ DOMAIN cache = Sources
    /\ \A s \in Sources : DOMAIN cache[s] = DOMAIN NoEntry /\ cache[s].body \in BOOLEAN
    /\ runs \in [Threads -> RunIn(ReadStates \cup {"idle", "fetched", "lock", "write"})]
    /\ \A r \in Threads : runs[r].pc \in ReadStates => runs[r].left # {}
    /\ \A r \in Threads : runs[r].conditional => runs[r].pc \in ReadStates
    /\ takedowns \in [Operators -> Takedown]
    /\ \A o \in Operators : takedowns[o].pc # "idle" => takedowns[o].key \in Sources
    /\ taken \subseteq Sources
    /\ stored \in [signals: SUBSET Sources, findings: Findings]

\* connectors/takedown.py, "Runs in flight": once a takedown has committed, no tenant
\* holds a signal of the source, whatever the runs were doing, and no finding cites it,
\* except when another takedown had read a finding that cites both sources before, and
\* wrote it back after: _purge locks no finding.
SuppressedForGood ==
    /\ taken \cap stored.signals = {}
    /\ \A s \in taken : ~trail[s].overlapped =>
          \A f \in occasion.citable : s \notin stored.findings[f]

\* Within one interval a source receives the requests of at most one fetch of each thread,
\* and of a second one of every thread but one: a run whose cool-down another run's store
\* ends, between its two lookups, fetches again though the body is new (live.py, _feed).
\* However the runs of the process overlap, unless a stop between two attempts, a takedown
\* or a restart made the process lose track of what it sent.
PoliteFloor ==
    \A s \in Sources :
        trail[s].untracked = 0
        => Cardinality(trail[s].sent) <= (2 * Cardinality(Threads) - 1) * MaxAttempts

\* feedcache.py: validators are sent only while their body is held, so a 304 can be
\* answered; only a takedown takes the body away under a request.
NotModifiedIsAnswered ==
    \A r \in Threads :
        runs[r].conditional => cache[Reading(r)].body \/ Reading(r) \in taken

\* live.py, _feed: while the pause a publisher asked for lasts, no fetch of the source
\* begins, as long as no fetch that was already under way recorded its own end after it.
RetryAfterHolds ==
    [][\A r \in Threads : BeginsFetch(r) => trail[Reading(r)].asked = 0]_vars

\* connectors/takedown.py, lock_sources: a takedown waits for the runs that write the
\* source and is then done; sorted keys keep runs and takedowns from blocking each other.
TakedownEnds == \A o \in Operators : []<>(takedowns[o].pc = "idle")

=============================================================================
