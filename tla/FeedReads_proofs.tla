--------------------------- MODULE FeedReads_proofs ---------------------------
(***************************************************************************)
(* Proofs about source reads and takedowns, for any sources, threads,      *)
(* operators and deployments: the types, that what was taken down stays    *)
(* away from the tenants' data, that a 304 finds its body, how many        *)
(* requests a source receives, and that a pause it asked for is kept.      *)
(***************************************************************************)
EXTENDS FeedReads, TLAPS, FiniteSetTheorems, WellFoundedInduction

-----------------------------------------------------------------------------
\* A set of source keys that is not empty has a least one.
Less == {pair \in Nat \X Nat : pair[1] < pair[2]}

LEMMA MinOfKeys == ASSUME NEW S, S \subseteq Nat, S # {} PROVE Min(S) \in S
<1>1. OpToRel(<, Nat) = Less
  BY Zenon DEF OpToRel, Less
<1>2. IsWellFoundedOn(Less, Nat)
  BY <1>1, NatLessThanWellFounded
<1>3. PICK x \in S : \A y \in S : <<y, x>> \notin Less
  BY <1>2, WFMin
<1>4. ASSUME NEW y \in S PROVE x <= y
  <2>1. y \in Nat /\ x \in Nat /\ <<y, x>> \in Nat \X Nat
    OBVIOUS
  <2>2. ~(<<y, x>>[1] < <<y, x>>[2])
    BY <1>3, <2>1 DEF Less
  <2>3. ~(y < x)
    BY <2>2
  <2>4. QED
    BY <2>1, <2>3
<1>5. QED
  BY <1>4 DEF Min

-----------------------------------------------------------------------------
\* A purge holds its source alone, and a run that is about to write holds every source it
\* writes, none of which was down when it had them all.
PurgeIsAlone ==
    \A o \in Operators : Holds(o) =>
        \A r \in Threads : takedowns[o].key \notin runs[r].locked

WritesAreUp ==
    \A r \in Threads : runs[r].pc = "write" =>
        runs[r].got \subseteq runs[r].locked /\ runs[r].got \cap taken = {}

\* A finding cites only what it was built from.
CitesOnly(findings) == \A f \in occasion.citable : findings[f] \subseteq f

FindingsCite ==
    CitesOnly(stored.findings) /\ \A o \in Operators : CitesOnly(takedowns[o].saw)

\* What a purge read of a finding it will write back is still what the finding cites, and a
\* finding it leaves alone still does not cite its source, sources apart whose takedown
\* another one overlapped.
Agrees(o, s, f) == s \in takedowns[o].saw[f] <=> s \in stored.findings[f]

ReadsAgree ==
    \A o \in Operators : takedowns[o].pc = "writing" =>
        \A s \in Sources, f \in occasion.citable :
            /\ ~trail[s].overlapped
            /\ takedowns[o].key \in takedowns[o].saw[f] \/ s = takedowns[o].key
            => Agrees(o, s, f)

NotesKept ==
    /\ DOMAIN trail = Sources
    /\ \A s \in Sources : DOMAIN trail[s] = DOMAIN NoTrail

PurgeInv == FindingsCite /\ ReadsAgree /\ SuppressedForGood

Inv == TypeOK /\ PurgeIsAlone /\ WritesAreUp /\ NotesKept /\ PurgeInv /\ NotModifiedIsAnswered

\* A step that leaves the takedowns and the stored rows alone, and what the observer knows
\* of overlaps.
NotesStay ==
    /\ NotesKept'
    /\ \A s \in Sources : trail'[s].overlapped = trail[s].overlapped

LEMMA PurgesStay ==
    ASSUME Inv, NotesStay, UNCHANGED <<occasion, takedowns, taken, stored>>
    PROVE  NotesKept' /\ PurgeInv'
<1>1. /\ FindingsCite /\ ReadsAgree /\ SuppressedForGood /\ taken \subseteq Sources
  BY DEF Inv, PurgeInv, TypeOK
<1>2. FindingsCite'
  BY <1>1 DEF FindingsCite, CitesOnly
<1>3. ReadsAgree'
  BY <1>1 DEF ReadsAgree, Agrees, NotesStay
<1>4. SuppressedForGood'
  BY <1>1 DEF SuppressedForGood, NotesStay
<1>5. QED
  BY <1>2, <1>3, <1>4 DEF PurgeInv, NotesStay

\* What the steps do to the notes.
LEMMA NotesOfSteps ==
    ASSUME Inv
    PROVE  /\ trail' = trail => NotesStay
           /\ \A s, sent : trail' = [trail EXCEPT ![s].sent = sent] => NotesStay
           /\ \A s, asked : trail' = [trail EXCEPT ![s].asked = asked] => NotesStay
           /\ \A s : trail' = [trail EXCEPT ![s] = Lost(@)] => NotesStay
           /\ \A keys : Forget(keys) => NotesStay
           /\ Tick => NotesStay
<1>1. NotesKept
  BY DEF Inv
<1>2. trail' = trail => NotesStay
  BY <1>1 DEF NotesStay, NotesKept
<1>3. \A s, sent : trail' = [trail EXCEPT ![s].sent = sent] => NotesStay
  BY <1>1 DEF NotesStay, NotesKept, NoTrail
<1>4. \A s, asked : trail' = [trail EXCEPT ![s].asked = asked] => NotesStay
  BY <1>1 DEF NotesStay, NotesKept, NoTrail
<1>5. \A s : trail' = [trail EXCEPT ![s] = Lost(@)] => NotesStay
  BY <1>1 DEF NotesStay, NotesKept, NoTrail, Lost
<1>6. \A keys : Forget(keys) => NotesStay
  BY <1>1 DEF Forget, NotesStay, NotesKept, NoTrail, Lost
<1>7. Tick => NotesStay
  BY <1>1 DEF Tick, NotesStay, NotesKept, NoTrail
<1>8. QED
  BY <1>2, <1>3, <1>4, <1>5, <1>6, <1>7

\* A run that does not write.
QuietRun == RunIn(ReadStates \cup {"idle", "fetched", "lock"})
AnyRun == RunIn(ReadStates \cup {"idle", "fetched", "lock", "write"})

\* Entries keep their shape, and a body goes only when its source was taken down.
EntryOK(e) == DOMAIN e = DOMAIN NoEntry /\ e.body \in BOOLEAN

EntriesStay ==
    /\ DOMAIN cache' = Sources
    /\ \A s \in Sources : EntryOK(cache'[s]) /\ (cache[s].body => cache'[s].body \/ s \in taken)

\* The 304 that a run may get finds its body.
Answered304(run, entries, down) ==
    run.conditional => entries[Min(run.left)].body \/ Min(run.left) \in down

LEMMA NoRunTyped == NoRun \in QuietRun /\ NoRun \in AnyRun
  BY FeedAssumption DEF NoRun, QuietRun, AnyRun, RunIn

LEMMA RunTyped ==
    ASSUME Inv, NEW r \in Threads
    PROVE  /\ runs[r] \in AnyRun
           /\ runs[r].pc \in ReadStates => Reading(r) \in runs[r].left /\ Reading(r) \in Sources
           /\ runs[r].conditional => runs[r].pc \in ReadStates
           /\ Answered304(runs[r], cache, taken)
<1>1. runs[r] \in AnyRun /\ (runs[r].conditional => runs[r].pc \in ReadStates)
  BY DEF Inv, TypeOK, AnyRun
<1>2. runs[r].pc \in ReadStates => runs[r].left # {} /\ runs[r].left \subseteq Nat
  BY <1>1, FeedAssumption DEF Inv, TypeOK, AnyRun, RunIn
<1>3. runs[r].pc \in ReadStates => Reading(r) \in runs[r].left /\ Reading(r) \in Sources
  BY <1>1, <1>2, MinOfKeys DEF Reading, AnyRun, RunIn
<1>4. Answered304(runs[r], cache, taken)
  BY DEF Inv, NotModifiedIsAnswered, Answered304, Reading
<1>5. QED
  BY <1>1, <1>3, <1>4

\* What a run was promised about its body still holds when entries stay.
LEMMA PromiseStays ==
    ASSUME Inv, EntriesStay, NEW r \in Threads, taken \subseteq taken'
    PROVE  Answered304(runs[r], cache', taken')
<1>1. CASE ~runs[r].conditional
  BY <1>1 DEF Answered304
<1>2. CASE runs[r].conditional
  <2>1. Min(runs[r].left) \in Sources
    BY <1>2, RunTyped DEF Reading
  <2>2. cache[Min(runs[r].left)].body \/ Min(runs[r].left) \in taken
    BY <1>2, RunTyped DEF Answered304
  <2>3. QED
    BY <2>1, <2>2 DEF EntriesStay, Answered304
<1>3. QED
  BY <1>1, <1>2, RunTyped DEF AnyRun, RunIn

\* A run's next read, which keeps the locks it has: none of these steps begins to write.
LEMMA RunStepKeeps ==
    ASSUME Inv, EntriesStay, NEW r \in Threads, NEW run \in QuietRun,
           runs' = [runs EXCEPT ![r] = run],
           run.pc \in ReadStates => run.left # {},
           run.conditional => run.pc \in ReadStates,
           Answered304(run, cache', taken'),
           run.locked \subseteq runs[r].locked, NotesStay,
           UNCHANGED <<occasion, takedowns, taken, stored>>
    PROVE  Inv'
<1>1. \A q \in Threads : runs'[q] = IF q = r THEN run ELSE runs[q]
  BY DEF Inv, TypeOK
<1>2. run \in AnyRun /\ run.pc # "write"
  BY DEF QuietRun, AnyRun, RunIn, ReadStates
<1>3. TypeOK'
  BY <1>1, <1>2 DEF Inv, TypeOK, AnyRun, EntriesStay, EntryOK, Takedown, Findings
<1>4. PurgeIsAlone'
  BY <1>1 DEF Inv, PurgeIsAlone, Holds
<1>5. WritesAreUp'
  BY <1>1, <1>2 DEF Inv, WritesAreUp
<1>6. NotesKept' /\ PurgeInv'
  BY PurgesStay
<1>7. \A q \in Threads : Answered304(runs'[q], cache', taken')
  BY <1>1, PromiseStays
<1>8. NotModifiedIsAnswered'
  BY <1>7 DEF NotModifiedIsAnswered, Answered304, Reading
<1>9. QED
  BY <1>3, <1>4, <1>5, <1>6, <1>8 DEF Inv

LEMMA PassesKeeps ==
    ASSUME Inv, EntriesStay, NEW r \in Threads, NEW kept \in SUBSET Sources, Passes(r, kept),
           NotesStay, UNCHANGED <<occasion, takedowns, taken, stored>>
    PROVE  Inv'
<1> DEFINE rest == runs[r].left \ {Reading(r)}
           run == [runs[r] EXCEPT !.left = rest, !.got = @ \cup kept, !.hit = FALSE,
                                  !.conditional = FALSE, !.attempt = 0,
                                  !.pc = IF rest = {} THEN "fetched" ELSE "fresh?"]
<1>1. runs' = [runs EXCEPT ![r] = run]
  BY Zenon DEF Passes
<1>2. runs[r] \in AnyRun
  BY RunTyped
<1>3. rest \in SUBSET Sources /\ 0 \in 0 .. MaxAttempts
  BY <1>2, FeedAssumption DEF AnyRun, RunIn
<1> HIDE DEF rest
<1>4. /\ run \in QuietRun /\ (run.pc \in ReadStates => run.left # {}) /\ run.locked = runs[r].locked
      /\ run.conditional = FALSE
  BY <1>2, <1>3 DEF AnyRun, QuietRun, RunIn, ReadStates
<1>5. Answered304(run, cache', taken')
  BY <1>4 DEF Answered304
<1> HIDE DEF run
<1>6. QED
  BY <1>1, <1>4, <1>5, RunStepKeeps

-----------------------------------------------------------------------------
\* What the steps do to the entries.
LEMMA SameEntries == ASSUME Inv, cache' = cache PROVE EntriesStay
  BY DEF Inv, TypeOK, EntriesStay, EntryOK

LEMMA OneEntry ==
    ASSUME Inv, NEW s \in Sources, NEW e, EntryOK(e), cache[s].body => e.body,
           cache' = [cache EXCEPT ![s] = e]
    PROVE  EntriesStay
<1>1. DOMAIN cache = Sources /\ \A q \in Sources : EntryOK(cache[q])
  BY DEF Inv, TypeOK, EntryOK
<1>2. DOMAIN cache' = Sources /\ \A q \in Sources : cache'[q] = IF q = s THEN e ELSE cache[q]
  BY <1>1
<1>3. QED
  BY <1>1, <1>2 DEF EntriesStay

LEMMA CooledEntry ==
    ASSUME Inv, NEW s \in Sources, NEW pause
    PROVE  EntryOK(FailedEntry(cache[s], pause)) /\ FailedEntry(cache[s], pause).body = cache[s].body
<1>1. DOMAIN cache[s] = DOMAIN NoEntry /\ cache[s].body \in BOOLEAN
  BY DEF Inv, TypeOK
<1>2. \A failures, cool :
         LET e == [cache[s] EXCEPT !.failures = failures, !.cool = cool]
         IN  EntryOK(e) /\ e.body = cache[s].body
  BY <1>1 DEF EntryOK, NoEntry
<1>3. QED
  BY <1>2, Zenon DEF FailedEntry, Cooled

\* The reads: lookups, requests and answers.
LEMMA ReadsKeep ==
    ASSUME Inv, NEW r \in Threads, Reads(r)
    PROVE  Inv'
<1> DEFINE Same == UNCHANGED <<occasion, takedowns, taken, stored>>
<1>1. runs[r] \in AnyRun
  BY RunTyped
<1>2. occasion.matching \subseteq Sources
  BY FeedAssumption DEF Inv, TypeOK
<1>3. ASSUME EntriesStay, NotesStay, Delivers(r), Same PROVE Inv'
  BY <1>2, <1>3, PassesKeeps DEF Delivers
<1>4. runs[r].pc \in ReadStates
  BY DEF Reads, LooksForFresh, Serves, BeginsFetch, SendsRequest, Stores, Revalidates, IsRefused,
     AskedToWait, TransientFailure, Answered, ReadStates
<1>5. Reading(r) \in Sources /\ runs[r].left # {}
  BY <1>4, RunTyped
<1>6. ASSUME NEW pause, Fails(r, pause), Same PROVE Inv'
  <2>1. EntriesStay /\ NotesStay
    BY <1>5, <1>6, CooledEntry, OneEntry, NotesOfSteps DEF Fails
  <2>2. QED
    BY <1>6, <2>1, PassesKeeps DEF Fails
<1>7. CASE LooksForFresh(r)
  <2> DEFINE hit == cache[Reading(r)].fresh > 0
             run == [runs[r] EXCEPT !.pc = "cooling?", !.hit = hit]
  <2>0. hit \in BOOLEAN
    OBVIOUS
  <2>1. runs' = [runs EXCEPT ![r] = run] /\ Same /\ EntriesStay /\ NotesStay
    BY <1>7, SameEntries, NotesOfSteps DEF LooksForFresh, Inv, TypeOK
  <2> HIDE DEF hit
  <2>2. /\ run \in QuietRun /\ run.left = runs[r].left /\ run.locked = runs[r].locked
        /\ run.conditional = runs[r].conditional /\ run.pc \in ReadStates
    BY <1>1, <2>0 DEF AnyRun, QuietRun, RunIn, ReadStates
  <2>3. Answered304(run, cache', taken')
    BY <2>1, <2>2, PromiseStays DEF Answered304
  <2> HIDE DEF run
  <2>4. QED
    BY <1>5, <2>1, <2>2, <2>3, RunStepKeeps
<1>8. CASE Serves(r)
  BY <1>3, <1>8, SameEntries, NotesOfSteps, PassesKeeps DEF Serves
<1>9. CASE BeginsFetch(r)
  <2>1. PICK conditional \in {FALSE, cache[Reading(r)].body} :
          runs' = [runs EXCEPT ![r].pc = "admit", ![r].attempt = 1, ![r].conditional = conditional]
    BY <1>9 DEF BeginsFetch
  <2> DEFINE run == [runs[r] EXCEPT !.pc = "admit", !.attempt = 1, !.conditional = conditional]
  <2>2. runs' = [runs EXCEPT ![r] = run] /\ Same /\ EntriesStay /\ NotesStay
    <3>1. runs' = [runs EXCEPT ![r] = run]
      BY <2>1 DEF Inv, TypeOK
    <3>2. Same /\ EntriesStay /\ NotesStay
      BY <1>9, SameEntries, NotesOfSteps DEF BeginsFetch
    <3>3. QED
      BY <3>1, <3>2
  <2>3. conditional \in BOOLEAN /\ 1 \in 0 .. MaxAttempts
    <3>1. cache[Reading(r)].body \in BOOLEAN
      BY <1>5 DEF Inv, TypeOK
    <3>2. 1 \in 0 .. MaxAttempts
      BY FeedAssumption
    <3>3. QED
      BY <3>1, <3>2
  <2>4. /\ run \in QuietRun /\ run.left = runs[r].left /\ run.locked = runs[r].locked
        /\ run.conditional = conditional /\ run.pc \in ReadStates
    BY <1>1, <2>3 DEF AnyRun, QuietRun, RunIn, ReadStates
  <2>5. cache'[Reading(r)] = cache[Reading(r)]
    BY <1>9 DEF BeginsFetch
  <2>6. Answered304(run, cache', taken')
    BY <2>4, <2>5 DEF Answered304, Reading
  <2> HIDE DEF run
  <2>7. QED
    BY <1>5, <2>2, <2>4, <2>6, RunStepKeeps
<1>10. CASE SendsRequest(r)
  <2> DEFINE run == [runs[r] EXCEPT !.pc = "wire"]
  <2>1. runs' = [runs EXCEPT ![r] = run] /\ Same /\ EntriesStay /\ NotesStay
    BY <1>10, SameEntries, NotesOfSteps DEF SendsRequest
  <2>2. /\ run \in QuietRun /\ run.left = runs[r].left /\ run.locked = runs[r].locked
        /\ run.conditional = runs[r].conditional /\ run.pc \in ReadStates
    BY <1>1 DEF AnyRun, QuietRun, RunIn, ReadStates
  <2>3. Answered304(run, cache', taken')
    BY <2>1, <2>2, PromiseStays DEF Answered304
  <2> HIDE DEF run
  <2>4. QED
    BY <1>5, <2>1, <2>2, <2>3, RunStepKeeps
<1>11. CASE Stores(r)
  <2> DEFINE e == [body |-> TRUE, fresh |-> Interval, cool |-> 0, failures |-> 0]
  <2>1. EntryOK(e) /\ e.body
    BY DEF EntryOK, NoEntry
  <2>2. EntriesStay /\ NotesStay
    BY <1>5, <1>11, <2>1, OneEntry, NotesOfSteps DEF Stores, GoodRead
  <2>3. QED
    BY <1>3, <1>11, <2>2 DEF Stores, Answered
<1>12. CASE Revalidates(r)
  <2> DEFINE e == [cache[Reading(r)] EXCEPT !.fresh = Interval, !.failures = 0]
  <2>1. EntryOK(e) /\ e.body = cache[Reading(r)].body
    BY <1>5 DEF Inv, TypeOK, EntryOK, NoEntry
  <2>2. CASE GoodRead(Reading(r), e) /\ Delivers(r)
    <3>1. EntriesStay /\ NotesStay
      BY <1>5, <2>1, <2>2, OneEntry, NotesOfSteps DEF GoodRead
    <3>2. QED
      BY <1>3, <1>12, <2>2, <3>1 DEF Revalidates, Answered
  <2>3. CASE Fails(r, 0)
    BY <1>6, <1>12, <2>3 DEF Revalidates, Answered
  <2>4. QED
    BY <1>12, <2>2, <2>3 DEF Revalidates
<1>13. CASE IsRefused(r) \/ AskedToWait(r)
  BY <1>6, <1>13 DEF IsRefused, AskedToWait, Answered
<1>14. CASE TransientFailure(r)
  <2>1. CASE Fails(r, 0)
    BY <1>6, <1>14, <2>1 DEF TransientFailure, Answered
  <2>2. CASE /\ MayRetry(r) /\ UNCHANGED <<cache, trail>>
             /\ runs' = [runs EXCEPT ![r].pc = "admit", ![r].attempt = @ + 1]
    <3> DEFINE run == [runs[r] EXCEPT !.pc = "admit", !.attempt = @ + 1]
    <3>1. runs' = [runs EXCEPT ![r] = run] /\ Same /\ EntriesStay /\ NotesStay
      BY <1>1, <1>14, <2>2, SameEntries, NotesOfSteps DEF TransientFailure, Answered, Inv, TypeOK
    <3>2. runs[r].attempt + 1 \in 0 .. MaxAttempts
      BY <1>1, <2>2, FeedAssumption DEF MayRetry, AnyRun, RunIn
    <3>3. /\ run \in QuietRun /\ run.left = runs[r].left /\ run.locked = runs[r].locked
          /\ run.conditional = runs[r].conditional /\ run.pc \in ReadStates
      BY <1>1, <3>2 DEF AnyRun, QuietRun, RunIn, ReadStates
    <3>4. Answered304(run, cache', taken')
      BY <3>1, <3>3, PromiseStays DEF Answered304
    <3> HIDE DEF run
    <3>5. QED
      BY <1>5, <3>1, <3>3, <3>4, RunStepKeeps
  <2>3. QED
    BY <1>14, <2>1, <2>2 DEF TransientFailure
<1>15. QED
  BY <1>7, <1>8, <1>9, <1>10, <1>11, <1>12, <1>13, <1>14 DEF Reads

-----------------------------------------------------------------------------
\* The start of a run, its end without a commit, and the steps up to the commit.
LEMMA ForgottenEntries ==
    ASSUME Inv, NEW keys, keys \subseteq taken, Forget(keys)
    PROVE  EntriesStay
<1>1. EntryOK(NoEntry) /\ \A s \in Sources : EntryOK(cache[s])
  BY DEF Inv, TypeOK, EntryOK, NoEntry
<1>2. cache' = [s \in Sources |-> IF s \in keys THEN NoEntry ELSE cache[s]]
  BY DEF Forget
<1> HIDE DEF NoEntry
<1>3. QED
  BY <1>1, <1>2 DEF EntriesStay

LEMMA StartsAndStopsKeep ==
    ASSUME Inv, NEW r \in Threads, RunStarts(r) \/ RunStops(r) \/ ReadyToWrite(r)
    PROVE  Inv'
<1>1. runs[r] \in AnyRun /\ NoRun \in QuietRun
  BY RunTyped, NoRunTyped
<1>2. CASE RunStarts(r)
  <2> DEFINE targets == occasion.registry \ taken
             run == [NoRun EXCEPT !.pc = "fresh?", !.left = targets]
  <2>1. targets \in SUBSET Sources /\ targets # {} /\ 0 \in 0 .. MaxAttempts
    BY <1>2, FeedAssumption DEF RunStarts, Inv, TypeOK
  <2> HIDE DEF targets
  <2>2. /\ run \in QuietRun /\ run.left # {} /\ run.locked = {} /\ run.conditional = FALSE
    BY <2>1 DEF NoRun, QuietRun, RunIn, ReadStates
  <2>3. Answered304(run, cache', taken')
    BY <2>2 DEF Answered304
  <2>4. EntriesStay /\ NotesStay /\ runs' = [runs EXCEPT ![r] = run]
    BY <1>2, ForgottenEntries, NotesOfSteps DEF RunStarts, targets
  <2> HIDE DEF run
  <2>5. QED
    BY <1>2, <2>2, <2>3, <2>4, RunStepKeeps DEF RunStarts
<1>3. CASE RunStops(r)
  <2>1. NoRun.pc \notin ReadStates /\ NoRun.conditional = FALSE /\ NoRun.locked = {}
    BY DEF NoRun, ReadStates
  <2>2. Answered304(NoRun, cache', taken')
    BY <2>1 DEF Answered304
  <2>3. EntriesStay /\ NotesStay
    BY <1>3, SameEntries, NotesOfSteps DEF RunStops
  <2>4. QED
    BY <1>1, <1>3, <2>1, <2>2, <2>3, RunStepKeeps DEF RunStops
<1>4. CASE ReadyToWrite(r)
  <2> DEFINE run == [runs[r] EXCEPT !.pc = "lock"]
  <2>1. runs[r].conditional = FALSE
    BY <1>1, <1>4, RunTyped DEF ReadyToWrite, ReadStates, AnyRun, RunIn
  <2>2. /\ run \in QuietRun /\ run.locked = runs[r].locked /\ run.conditional = FALSE
        /\ run.pc \notin ReadStates
    BY <1>1, <2>1 DEF AnyRun, QuietRun, RunIn, ReadStates
  <2>3. Answered304(run, cache', taken')
    BY <2>2 DEF Answered304
  <2>4. EntriesStay /\ NotesStay /\ runs' = [runs EXCEPT ![r] = run]
    BY <1>4, SameEntries, NotesOfSteps DEF ReadyToWrite
  <2> HIDE DEF run
  <2>5. QED
    BY <1>4, <2>2, <2>3, <2>4, RunStepKeeps DEF ReadyToWrite
<1>5. QED
  BY <1>2, <1>3, <1>4

\* A lock is granted only when no purge has, or waits for, its source.
LEMMA LocksSourceKeeps ==
    ASSUME Inv, NEW r \in Threads, LocksSource(r)
    PROVE  Inv'
<1>1. runs[r] \in AnyRun /\ runs[r].got \subseteq Nat
  BY RunTyped, FeedAssumption DEF AnyRun, RunIn
<1>2. PICK s \in NextKeys(runs[r].got \ runs[r].locked) :
         ~Claimed(s) /\ runs' = [runs EXCEPT ![r].locked = @ \cup {s}]
  BY DEF LocksSource
<1>3. UNCHANGED <<occasion, cache, takedowns, taken, stored>> /\ NotesStay /\ runs[r].pc = "lock"
  BY NotesOfSteps DEF LocksSource
<1>4. s \in Sources
  <2>1. runs[r].got \ runs[r].locked # {}
    BY DEF LocksSource
  <2>2. QED
    BY <1>1, <1>2, <2>1, MinOfKeys DEF NextKeys, AnyRun, RunIn
<1>5. \A q \in Threads : runs'[q] = IF q = r THEN [runs[r] EXCEPT !.locked = @ \cup {s}] ELSE runs[q]
  BY <1>2 DEF Inv, TypeOK
<1> DEFINE run == [runs[r] EXCEPT !.locked = @ \cup {s}]
<1>6. run \in AnyRun /\ run.pc = "lock" /\ run.left = runs[r].left
      /\ run.conditional = runs[r].conditional /\ run.locked = runs[r].locked \cup {s}
  BY <1>1, <1>3, <1>4 DEF AnyRun, RunIn
<1> HIDE DEF run
<1>7. TypeOK'
  BY <1>2, <1>3, <1>5, <1>6 DEF Inv, TypeOK, AnyRun, run, Takedown, Findings
<1>8. PurgeIsAlone'
  <2>1. ASSUME NEW o \in Operators, Holds(o) PROVE takedowns[o].key \notin run.locked
    BY <1>2, <1>6, <2>1 DEF Claimed, Holds, Inv, PurgeIsAlone
  <2>2. QED
    BY <1>3, <1>5, <2>1 DEF Inv, PurgeIsAlone, Holds, run
<1>9. WritesAreUp'
  BY <1>3, <1>5, <1>6 DEF Inv, WritesAreUp, run
<1>10. NotesKept' /\ PurgeInv'
  BY <1>3, PurgesStay
<1>11. NotModifiedIsAnswered'
  BY <1>3, <1>5, <1>6 DEF Inv, NotModifiedIsAnswered, Reading, run
<1>12. QED
  BY <1>7, <1>8, <1>9, <1>10, <1>11 DEF Inv

LEMMA RechecksKeeps ==
    ASSUME Inv, NEW r \in Threads, Rechecks(r)
    PROVE  Inv'
<1> DEFINE run == [runs[r] EXCEPT !.pc = "write", !.got = @ \ taken]
<1>1. runs[r] \in AnyRun /\ runs[r].pc = "lock" /\ runs[r].got \subseteq runs[r].locked
      /\ (runs[r].conditional => runs[r].pc \in ReadStates)
  BY RunTyped DEF Rechecks
<1>2. UNCHANGED <<occasion, cache, takedowns, taken, stored>> /\ NotesStay
  BY NotesOfSteps DEF Rechecks
<1>3. \A q \in Threads : runs'[q] = IF q = r THEN run ELSE runs[q]
  BY DEF Rechecks, StillUp, Inv, TypeOK
<1>4. runs[r].got \ taken \in SUBSET Sources
  BY <1>1 DEF AnyRun, RunIn
<1>5. /\ run \in AnyRun /\ run.pc = "write" /\ run.got = runs[r].got \ taken
      /\ run.locked = runs[r].locked /\ run.conditional = FALSE
  BY <1>1, <1>4 DEF AnyRun, RunIn, ReadStates
<1>6. runs' \in [Threads -> AnyRun]
  BY <1>3, <1>5 DEF Rechecks, StillUp, Inv, TypeOK, AnyRun
<1> HIDE DEF run
<1>7. TypeOK'
  BY <1>2, <1>3, <1>5, <1>6 DEF Inv, TypeOK, AnyRun, ReadStates, Takedown, Findings
<1>8. PurgeIsAlone'
  BY <1>2, <1>3, <1>5 DEF Inv, PurgeIsAlone, Holds
<1>9. WritesAreUp'
  BY <1>1, <1>2, <1>3, <1>5 DEF Inv, WritesAreUp
<1>10. NotesKept' /\ PurgeInv'
  BY <1>2, PurgesStay
<1>11. NotModifiedIsAnswered'
  BY <1>2, <1>3, <1>5 DEF Inv, NotModifiedIsAnswered, Reading
<1>12. QED
  BY <1>7, <1>8, <1>9, <1>10, <1>11 DEF Inv

\* A commit adds signals and findings of sources that are up, and of none that is purged.
LEMMA CommitsKeeps ==
    ASSUME Inv, NEW r \in Threads, Commits(r)
    PROVE  Inv'
<1>1. /\ runs[r] \in AnyRun /\ runs[r].got \subseteq Sources /\ runs[r].got \cap taken = {}
      /\ runs[r].got \subseteq runs[r].locked
  BY RunTyped DEF Commits, AnyRun, RunIn, Inv, WritesAreUp
<1>2. PICK new \in SUBSET {f \in occasion.citable : f \subseteq runs[r].got} :
         stored' = [signals |-> stored.signals \cup runs[r].got,
                    findings |-> [f \in occasion.citable |->
                                    IF f \in new THEN f ELSE stored.findings[f]]]
  BY DEF Commits
<1>3. /\ runs' = [runs EXCEPT ![r] = NoRun] /\ UNCHANGED <<occasion, cache, takedowns, taken, trail>>
      /\ NotesStay
  BY NotesOfSteps DEF Commits
<1>4. \A q \in Threads : runs'[q] = IF q = r THEN NoRun ELSE runs[q]
  BY <1>3 DEF Inv, TypeOK
<1>5. /\ NoRun \in AnyRun /\ NoRun.pc \notin ReadStates /\ NoRun.conditional = FALSE
      /\ NoRun.pc # "write" /\ NoRun.locked = {}
  BY NoRunTyped DEF NoRun, ReadStates
<1>6. /\ stored.signals \subseteq Sources /\ stored.findings \in Findings
      /\ \A f \in occasion.citable : stored.findings[f] \subseteq f
  BY DEF Inv, TypeOK, PurgeInv, FindingsCite, CitesOnly
<1>7. /\ stored'.signals = stored.signals \cup runs[r].got
      /\ \A f \in occasion.citable :
           \/ stored'.findings[f] = stored.findings[f]
           \/ f \subseteq runs[r].got /\ stored'.findings[f] = f
  BY <1>2
<1>8. stored' \in [signals: SUBSET Sources, findings: Findings]
  <2>1. \A f \in occasion.citable : (IF f \in new THEN f ELSE stored.findings[f]) \in SUBSET Sources
    BY <1>1, <1>6 DEF Findings
  <2>2. QED
    BY <1>1, <1>2, <1>6, <2>1 DEF Findings
<1>9. TypeOK'
  BY <1>3, <1>4, <1>5, <1>8 DEF Inv, TypeOK, AnyRun, Findings, Takedown
<1>10. PurgeIsAlone' /\ WritesAreUp'
  BY <1>3, <1>4, <1>5 DEF Inv, PurgeIsAlone, WritesAreUp, Holds
<1>11. FindingsCite'
  BY <1>3, <1>6, <1>7 DEF Inv, PurgeInv, FindingsCite, CitesOnly
<1>12. ReadsAgree'
  <2> SUFFICES ASSUME NEW o \in Operators, takedowns[o].pc = "writing",
                      NEW s \in Sources, NEW f \in occasion.citable, ~trail[s].overlapped,
                      takedowns[o].key \in takedowns[o].saw[f] \/ s = takedowns[o].key
               PROVE  s \in takedowns[o].saw[f] <=> s \in stored'.findings[f]
    BY <1>3 DEF ReadsAgree, Agrees
  <2>1. takedowns[o].saw[f] \subseteq f /\ Agrees(o, s, f)
    BY DEF Inv, PurgeInv, FindingsCite, CitesOnly, ReadsAgree
  <2>2. takedowns[o].key \notin runs[r].got
    BY <1>1 DEF Inv, PurgeIsAlone, Holds
  <2>3. CASE stored'.findings[f] = stored.findings[f]
    BY <2>1, <2>3 DEF Agrees
  <2>4. CASE f \subseteq runs[r].got /\ stored'.findings[f] = f
    BY <2>1, <2>2, <2>4
  <2>5. QED
    BY <1>7, <2>3, <2>4
<1>13. SuppressedForGood'
  BY <1>1, <1>3, <1>7 DEF Inv, PurgeInv, SuppressedForGood
<1>14. NotModifiedIsAnswered'
  BY <1>3, <1>4, <1>5 DEF Inv, NotModifiedIsAnswered, Reading
<1>15. QED
  BY <1>3, <1>9, <1>10, <1>11, <1>12, <1>13, <1>14 DEF Inv, PurgeInv, NotesStay

\* A request for a takedown, its lock and its reading leave the stored rows alone.
LEMMA TakedownWaits ==
    ASSUME Inv, NEW o \in Operators, NEW asked \in Takedown, asked.key \in Sources,
           takedowns' = [takedowns EXCEPT ![o] = asked], CitesOnly(asked.saw),
           asked.pc \in {"purging", "writing"} =>
              \A r \in Threads : asked.key \notin runs[r].locked,
           asked.pc = "writing" => asked.saw = stored.findings,
           UNCHANGED <<occasion, cache, runs, taken, stored, trail>>
    PROVE  Inv'
<1>1. \A p \in Operators : takedowns'[p] = IF p = o THEN asked ELSE takedowns[p]
  BY DEF Inv, TypeOK
<1>2. takedowns' \in [Operators -> Takedown]
  BY DEF Inv, TypeOK
<1>3. TypeOK'
  BY <1>1, <1>2 DEF Inv, TypeOK, Takedown, Findings
<1>4. PurgeIsAlone'
  BY <1>1 DEF Inv, PurgeIsAlone, Holds
<1>5. (WritesAreUp /\ NotesKept /\ SuppressedForGood /\ NotModifiedIsAnswered)'
  BY DEF Inv, PurgeInv, WritesAreUp, NotesKept, SuppressedForGood, NotModifiedIsAnswered, Reading
<1>6. FindingsCite'
  BY <1>1 DEF Inv, PurgeInv, FindingsCite, CitesOnly
<1>7. ReadsAgree'
  BY <1>1 DEF Inv, PurgeInv, ReadsAgree, Agrees
<1>8. QED
  BY <1>3, <1>4, <1>5, <1>6, <1>7 DEF Inv, PurgeInv

LEMMA TakedownWaitsKeeps ==
    ASSUME Inv, NEW o \in Operators,
           TakedownLocks(o) \/ TakedownReads(o) \/ \E s \in Sources : TakedownAsks(o, s)
    PROVE  Inv'
<1>1. /\ takedowns[o] \in Takedown /\ CitesOnly(takedowns[o].saw)
      /\ takedowns[o].pc # "idle" => takedowns[o].key \in Sources
  BY DEF Inv, TypeOK, PurgeInv, FindingsCite
<1>2. ASSUME NEW s \in Sources, TakedownAsks(o, s) PROVE Inv'
  <2> DEFINE asked == [takedowns[o] EXCEPT !.pc = "waiting", !.key = s, !.requests = @ + 1]
  <2>1. takedowns[o].requests + 1 \in 0 .. MaxRequests
    <3>1. takedowns[o].requests \in 0 .. MaxRequests
      BY <1>1 DEF Takedown
    <3>2. takedowns[o].requests < MaxRequests
      BY <1>2 DEF TakedownAsks
    <3>3. QED
      BY <3>1, <3>2, FeedAssumption
  <2>2. asked \in Takedown /\ asked.key = s /\ asked.pc = "waiting" /\ asked.saw = takedowns[o].saw
    BY <1>1, <2>1 DEF Takedown
  <2>3. /\ takedowns' = [takedowns EXCEPT ![o] = asked]
        /\ UNCHANGED <<occasion, cache, runs, taken, stored, trail>>
    BY <1>2 DEF TakedownAsks
  <2> HIDE DEF asked
  <2>4. QED
    BY <1>1, <2>2, <2>3, TakedownWaits
<1>3. CASE TakedownLocks(o)
  <2> DEFINE asked == [takedowns[o] EXCEPT !.pc = "purging"]
  <2>1. /\ asked \in Takedown /\ asked.key = takedowns[o].key /\ asked.pc = "purging"
        /\ asked.saw = takedowns[o].saw
    BY <1>1 DEF Takedown
  <2>2. /\ takedowns' = [takedowns EXCEPT ![o] = asked] /\ takedowns[o].pc = "waiting"
        /\ UNCHANGED <<occasion, cache, runs, taken, stored, trail>>
        /\ \A r \in Threads : takedowns[o].key \notin runs[r].locked
    BY <1>3 DEF TakedownLocks, Exclusive
  <2> HIDE DEF asked
  <2>3. QED
    BY <1>1, <2>1, <2>2, TakedownWaits
<1>4. CASE TakedownReads(o)
  <2> DEFINE asked == [takedowns[o] EXCEPT !.pc = "writing", !.saw = stored.findings]
  <2>1. stored.findings \in Findings /\ CitesOnly(stored.findings)
    BY DEF Inv, TypeOK, PurgeInv, FindingsCite
  <2>2. /\ asked \in Takedown /\ asked.key = takedowns[o].key /\ asked.pc = "writing"
        /\ asked.saw = stored.findings
    BY <1>1, <2>1 DEF Takedown
  <2>3. /\ takedowns' = [takedowns EXCEPT ![o] = asked] /\ takedowns[o].pc = "purging"
        /\ UNCHANGED <<occasion, cache, runs, taken, stored, trail>>
    BY <1>4 DEF TakedownReads
  <2>4. \A r \in Threads : takedowns[o].key \notin runs[r].locked
    BY <2>3 DEF Inv, PurgeIsAlone, Holds
  <2> HIDE DEF asked
  <2>5. QED
    BY <1>1, <2>1, <2>2, <2>3, <2>4, TakedownWaits
<1>5. QED
  BY <1>2, <1>3, <1>4

\* A purge leaves nothing of its source, and no run that is about to write has it.  What it
\* writes back cites no source that was taken down since it read, unless they overlapped.
LEMMA TakedownCommitsKeeps ==
    ASSUME Inv, NEW o \in Operators, TakedownCommits(o)
    PROVE  Inv'
<1> DEFINE s == takedowns[o].key
           saw == takedowns[o].saw
           done == [takedowns[o] EXCEPT !.pc = "idle", !.key = 0, !.saw = NoFindings]
<1>1. /\ takedowns[o].pc = "writing" /\ taken' = taken \cup {s}
      /\ stored' = [signals |-> stored.signals \ {s}, findings |-> Purged(o)]
      /\ trail' = [trail EXCEPT ![s].overlapped = @ \/ Overlapped(o)]
      /\ UNCHANGED <<occasion, cache, runs>>
  BY Zenon DEF TakedownCommits
<1>2. /\ takedowns[o] \in Takedown /\ s \in Sources /\ saw \in Findings
      /\ stored.signals \subseteq Sources /\ stored.findings \in Findings
  BY <1>1 DEF Inv, TypeOK, Takedown
<1>3. /\ takedowns' = [takedowns EXCEPT ![o] = done]
      /\ done \in Takedown /\ done.pc = "idle" /\ done.saw = NoFindings
  <2>1. NoFindings \in Findings
    BY DEF NoFindings, Findings
  <2>2. QED
    BY <1>2, <2>1 DEF TakedownCommits, Takedown, Inv, TypeOK
<1> HIDE DEF done
<1>4. /\ takedowns' \in [Operators -> Takedown]
      /\ \A p \in Operators : takedowns'[p] = IF p = o THEN done ELSE takedowns[p]
  BY <1>3 DEF Inv, TypeOK
<1>5. \A f \in occasion.citable :
         Purged(o)[f] = IF s \in saw[f] THEN saw[f] \ {s} ELSE stored.findings[f]
  BY DEF Purged
<1>6. Purged(o) \in Findings
  <2>1. \A f \in occasion.citable :
           (IF s \in saw[f] THEN saw[f] \ {s} ELSE stored.findings[f]) \in SUBSET Sources
    BY <1>2 DEF Findings
  <2>2. QED
    BY <2>1 DEF Purged, Findings
<1>7. TypeOK'
  <2>1. stored' \in [signals: SUBSET Sources, findings: Findings]
    BY <1>1, <1>2, <1>6
  <2>2. \A p \in Operators : takedowns'[p].pc # "idle" => takedowns'[p].key \in Sources
    BY <1>3, <1>4 DEF Inv, TypeOK
  <2>3. taken' \subseteq Sources
    BY <1>1, <1>2 DEF Inv, TypeOK
  <2>4. QED
    BY <1>1, <1>4, <2>1, <2>2, <2>3 DEF Inv, TypeOK, Takedown, Findings
<1>8. \A r \in Threads : s \notin runs[r].locked
  BY <1>1 DEF Inv, PurgeIsAlone, Holds
<1>9. PurgeIsAlone' /\ WritesAreUp' /\ NotModifiedIsAnswered'
  BY <1>1, <1>3, <1>4, <1>8 DEF Inv, PurgeIsAlone, WritesAreUp, Holds, NotModifiedIsAnswered, Reading
<1>10. /\ NotesKept'
       /\ \A k \in Sources : ~trail'[k].overlapped =>
             ~trail[k].overlapped /\ (k = s => ~Overlapped(o))
  BY <1>1, <1>2 DEF Inv, NotesKept, NoTrail
<1>11. FindingsCite'
  <2>1. CitesOnly(stored.findings) /\ \A p \in Operators : CitesOnly(takedowns[p].saw)
    BY DEF Inv, PurgeInv, FindingsCite
  <2>2. CitesOnly(Purged(o)) /\ CitesOnly(NoFindings)
    BY <1>5, <2>1 DEF CitesOnly, NoFindings
  <2>3. QED
    BY <1>1, <1>3, <1>4, <2>1, <2>2 DEF FindingsCite, CitesOnly
<1>12. ASSUME NEW k \in Sources, NEW f \in occasion.citable, ~trail'[k].overlapped
       PROVE  k \in Purged(o)[f] <=> k # s /\ k \in stored.findings[f]
  <2>1. /\ s \in saw[f] => Agrees(o, k, f)
        /\ k = s => Agrees(o, k, f)
    BY <1>1, <1>2, <1>10, <1>12 DEF Inv, PurgeInv, ReadsAgree
  <2>2. QED
    BY <1>5, <2>1 DEF Agrees
<1>13. ReadsAgree'
  <2> SUFFICES ASSUME NEW p \in Operators, takedowns'[p].pc = "writing",
                      NEW k \in Sources, NEW f \in occasion.citable, ~trail'[k].overlapped,
                      takedowns'[p].key \in takedowns'[p].saw[f] \/ k = takedowns'[p].key
               PROVE  k \in takedowns'[p].saw[f] <=> k \in Purged(o)[f]
    BY <1>1 DEF ReadsAgree, Agrees
  <2>1. p # o /\ takedowns'[p] = takedowns[p]
    BY <1>3, <1>4
  <2>2. k \in takedowns[p].saw[f] <=> k \in stored.findings[f]
    BY <1>10, <2>1 DEF Inv, PurgeInv, ReadsAgree, Agrees
  <2>3. k = s => k \notin takedowns[p].saw[f]
    BY <1>10, <2>1 DEF Overlapped
  <2>4. QED
    BY <1>12, <2>1, <2>2, <2>3
<1>14. SuppressedForGood'
  <2>1. taken' \cap stored'.signals = {}
    BY <1>1 DEF Inv, PurgeInv, SuppressedForGood
  <2>2. ASSUME NEW k \in taken', ~trail'[k].overlapped, NEW f \in occasion.citable
        PROVE  k \notin Purged(o)[f]
    <3>1. k \in Sources /\ (k \in taken \/ k = s)
      BY <1>1, <1>2 DEF Inv, TypeOK
    <3>2. k \in taken => k \notin stored.findings[f]
      BY <1>10, <2>2, <3>1 DEF Inv, PurgeInv, SuppressedForGood
    <3>3. QED
      BY <1>12, <2>2, <3>1, <3>2
  <2>3. QED
    BY <1>1, <2>1, <2>2 DEF SuppressedForGood
<1>15. QED
  BY <1>7, <1>9, <1>10, <1>11, <1>13, <1>14 DEF Inv, PurgeInv

-----------------------------------------------------------------------------
\* The steps that leave every run where it is: the passage of time, and stuttering.
LEMMA TimeKeeps ==
    ASSUME Inv, EntriesStay, NotesStay, UNCHANGED <<occasion, runs, takedowns, taken, stored>>
    PROVE  Inv'
<1>1. TypeOK'
  BY DEF Inv, TypeOK, EntriesStay, EntryOK, Takedown, Findings
<1>2. (PurgeIsAlone /\ WritesAreUp /\ NotesKept /\ PurgeInv)'
  BY PurgesStay DEF Inv, PurgeIsAlone, WritesAreUp, Holds
<1>3. \A r \in Threads : Answered304(runs[r], cache', taken')
  BY PromiseStays
<1>4. NotModifiedIsAnswered'
  BY <1>3 DEF NotModifiedIsAnswered, Answered304, Reading
<1>5. QED
  BY <1>1, <1>2, <1>4 DEF Inv

LEMMA TickKeeps == ASSUME Inv, Tick PROVE Inv'
<1> DEFINE e(s) == [cache[s] EXCEPT !.fresh = Countdown(@), !.cool = Countdown(@)]
<1>1. \A s \in Sources : EntryOK(e(s)) /\ e(s).body = cache[s].body
  BY DEF Inv, TypeOK, EntryOK, NoEntry
<1>2. cache' = [s \in Sources |-> e(s)]
  BY DEF Tick
<1> HIDE DEF e
<1>3. EntriesStay
  BY <1>1, <1>2 DEF EntriesStay
<1>4. QED
  BY <1>3, NotesOfSteps, TimeKeeps DEF Tick

\* A new process has no run that could be answered with a 304.
LEMMA RestartKeeps == ASSUME Inv, Restart PROVE Inv'
<1>1. /\ NoRun \in AnyRun /\ NoRun.pc \notin ReadStates /\ NoRun.conditional = FALSE
      /\ NoRun.pc # "write" /\ NoRun.locked = {}
  BY NoRunTyped DEF NoRun, ReadStates
<1>2. runs' = [r \in Threads |-> NoRun] /\ UNCHANGED <<occasion, takedowns, taken, stored>>
  BY DEF Restart
<1>3. cache' = [s \in Sources |-> NoEntry]
  BY DEF Restart, Forget
<1>4. EntryOK(NoEntry)
  BY DEF EntryOK, NoEntry
<1> HIDE DEF NoRun, NoEntry
<1>5. DOMAIN cache' = Sources /\ \A s \in Sources : EntryOK(cache'[s])
  BY <1>3, <1>4
<1>6. TypeOK'
  BY <1>1, <1>2, <1>5 DEF Inv, TypeOK, AnyRun, EntryOK, Takedown, Findings
<1>7. PurgeIsAlone' /\ WritesAreUp'
  BY <1>1, <1>2 DEF PurgeIsAlone, WritesAreUp, Holds
<1>8. NotesKept' /\ PurgeInv'
  BY <1>2, NotesOfSteps, PurgesStay DEF Restart
<1>9. NotModifiedIsAnswered'
  BY <1>1, <1>2 DEF NotModifiedIsAnswered
<1>10. QED
  BY <1>6, <1>7, <1>8, <1>9 DEF Inv

-----------------------------------------------------------------------------
LEMMA InitInv == Init => Inv
<1> SUFFICES ASSUME Init PROVE Inv
  OBVIOUS
<1>1. /\ NoRun \in AnyRun /\ NoRun.pc \notin ReadStates /\ NoRun.conditional = FALSE
      /\ NoRun.pc # "write" /\ NoRun.locked = {}
  BY NoRunTyped DEF NoRun, ReadStates
<1>2. NoEntry.body = FALSE
  BY DEF NoEntry
<1>3. /\ NoFindings \in Findings /\ CitesOnly(NoFindings)
      /\ NoTakedown \in Takedown /\ NoTakedown.pc = "idle" /\ NoTakedown.saw = NoFindings
  <2>1. NoFindings \in Findings /\ CitesOnly(NoFindings)
    BY DEF NoFindings, Findings, CitesOnly
  <2>2. QED
    BY <2>1, FeedAssumption DEF NoTakedown, Takedown
<1>4. TypeOK
  <2>1. occasion \in Occasions /\ runs \in [Threads -> AnyRun] /\ taken = {}
        /\ stored = [signals |-> {}, findings |-> NoFindings]
    BY <1>1 DEF Init
  <2>2. DOMAIN cache = Sources /\ \A s \in Sources : cache[s] = NoEntry
    BY DEF Init
  <2>3. \A r \in Threads : runs[r] = NoRun
    BY DEF Init
  <2>4. \A o \in Operators : takedowns[o] = NoTakedown
    BY DEF Init
  <2>5. takedowns \in [Operators -> Takedown]
    BY <1>3 DEF Init
  <2>6. stored \in [signals: SUBSET Sources, findings: Findings]
    BY <1>3, <2>1
  <2>7. QED
    BY <1>1, <1>2, <1>3, <2>1, <2>2, <2>3, <2>4, <2>5, <2>6 DEF TypeOK, AnyRun
<1>5. PurgeIsAlone
  BY <1>3 DEF Init, PurgeIsAlone, Holds
<1>6. WritesAreUp /\ NotModifiedIsAnswered
  BY <1>1 DEF Init, WritesAreUp, NotModifiedIsAnswered
<1>7. NotesKept /\ PurgeInv
  <2>1. NotesKept /\ SuppressedForGood
    BY DEF Init, NotesKept, SuppressedForGood
  <2>2. FindingsCite /\ ReadsAgree
    BY <1>3 DEF Init, FindingsCite, ReadsAgree
  <2>3. QED
    BY <2>1, <2>2 DEF PurgeInv
<1>8. QED
  BY <1>4, <1>5, <1>6, <1>7 DEF Inv

LEMMA NextInv == Inv /\ [Next]_vars => Inv'
<1> SUFFICES ASSUME Inv, [Next]_vars PROVE Inv'
  OBVIOUS
<1>1. CASE Tick
  BY <1>1, TickKeeps
<1>2. CASE Restart
  BY <1>2, RestartKeeps
<1>3. ASSUME NEW r \in Threads, RunStarts(r) \/ Reads(r) \/ Writes(r) \/ RunStops(r) PROVE Inv'
  BY <1>3, StartsAndStopsKeep, ReadsKeep, LocksSourceKeeps, RechecksKeeps, CommitsKeeps DEF Writes
<1>4. ASSUME NEW o \in Operators, Purges(o) \/ \E s \in Sources : TakedownAsks(o, s) PROVE Inv'
  BY <1>4, TakedownWaitsKeeps, TakedownCommitsKeeps DEF Purges
<1>5. CASE UNCHANGED vars
  BY <1>5, SameEntries, NotesOfSteps, TimeKeeps DEF vars
<1>6. QED
  BY <1>1, <1>2, <1>3, <1>4, <1>5 DEF Next

LEMMA Invariance == Spec => []Inv
  BY InitInv, NextInv, PTL DEF Spec

-----------------------------------------------------------------------------
\* Every run, takedown, held body and stored row has its type, and a run that reads has a
\* source to read.
THEOREM TypeCorrect == Spec => []TypeOK
<1>1. Inv => TypeOK
  BY DEF Inv
<1>2. QED
  BY <1>1, Invariance, PTL

\* connectors/takedown.py: however runs, purges and repeated takedowns interleave, what a
\* committed takedown removed is in no signal; nor does a finding cite it, unless another
\* takedown had read that finding before and wrote it back after.
THEOREM TakenDownIsGone == Spec => []SuppressedForGood
<1>1. Inv => SuppressedForGood
  BY DEF Inv, PurgeInv
<1>2. QED
  BY <1>1, Invariance, PTL

\* feedcache.py: a conditional request finds its body when its 304 arrives, for any number
\* of runs that share the cache, unless a takedown made the cache forget it.
THEOREM BodiesOutliveRequests == Spec => []NotModifiedIsAnswered
<1>1. Inv => NotModifiedIsAnswered
  BY DEF Inv
<1>2. QED
  BY <1>1, Invariance, PTL

-----------------------------------------------------------------------------
\* The wire.  A request is one of a fetch that lasts, or it is no younger than the hold-off
\* or the held body its fetch left behind; one of a fetch before that is no younger than the
\* held body, which came between the two lookups of the fetch that followed it.
FetchPcs == {"admit", "wire"}
Fetches(run, s) == run.pc \in FetchPcs /\ Min(run.left) = s
Asks(run, s) == run.pc = "cooling?" /\ ~run.hit /\ Min(run.left) = s
Made(run) == IF run.pc = "wire" THEN run.attempt ELSE run.attempt - 1
AttemptOK(run) == IF run.pc \in FetchPcs THEN run.attempt \in 1 .. MaxAttempts ELSE run.attempt = 0

Entry == [body : BOOLEAN, fresh : Nat, cool : Nat, failures : Nat]
Sent == [by : Threads, attempt : 1 .. MaxAttempts, age : 0 .. Interval - 1, nth : Nat, old : BOOLEAN]
Note == [sent : SUBSET Sent, untracked : Nat, asked : Nat, overlapped : BOOLEAN]

Held(entry, age) == entry.fresh + age >= Interval \/ entry.cool + age >= Interval

Window(s) ==
    \A e \in trail[s].sent :
        IF e.old THEN cache[s].fresh + e.age >= Interval
        ELSE IF Fetches(runs[e.by], s) THEN e.attempt <= Made(runs[e.by])
        ELSE Held(cache[s], e.age)

Distinct(s) ==
    \A e, f \in trail[s].sent : e.by = f.by /\ e.attempt = f.attempt /\ e.old = f.old => e = f

\* The requests of a thread's last fetch, and of the one before.
NoneBy(r, s) == \A e \in trail[s].sent : e.by = r => e.old
NoOldBy(r, s) == \A e \in trail[s].sent : e.by = r => ~e.old

\* Only a body that came since can make a run fetch again, and no tick came since either.
Asking(s) ==
    \A r \in Threads : Asks(runs[r], s) => cache[s].fresh \in {0, Interval} /\ NoOldBy(r, s)

\* While a body is young, the thread that brought the first of them has fetched once only.
Spared(s) ==
    cache[s].fresh > 0 =>
        \E r \in Threads : ~Fetches(runs[r], s) /\ ~Asks(runs[r], s) /\ NoOldBy(r, s)

SourceOK(s) ==
    /\ cache[s] \in Entry /\ trail[s] \in Note
    /\ Window(s) /\ Distinct(s) /\ Asking(s) /\ Spared(s)
    /\ trail[s].asked <= cache[s].cool

PoliteInv ==
    /\ DOMAIN trail = Sources
    /\ \A r \in Threads : AttemptOK(runs[r])
    /\ \A s \in Sources : SourceOK(s)

\* The numbers the hold-off is made of.
LEMMA MaxOfTwo ==
    ASSUME NEW a \in Int, NEW b \in Int
    PROVE  Max({a, b}) \in {a, b} /\ Max({a, b}) >= a /\ Max({a, b}) >= b
<1>1. \E x \in {a, b} : \A y \in {a, b} : x >= y
  <2>1. CASE a >= b
    BY <2>1
  <2>2. CASE ~(a >= b)
    BY <2>2
  <2>3. QED
    BY <2>1, <2>2
<1>2. Max({a, b}) \in {a, b} /\ \A y \in {a, b} : Max({a, b}) >= y
  BY <1>1 DEF Max
<1>3. QED
  BY <1>2

LEMMA MinOfTwo ==
    ASSUME NEW a \in Int, NEW b \in Int
    PROVE  Min({a, b}) \in {a, b} /\ Min({a, b}) <= a /\ Min({a, b}) <= b
<1>1. \E x \in {a, b} : \A y \in {a, b} : x <= y
  <2>1. CASE a <= b
    BY <2>1
  <2>2. CASE ~(a <= b)
    BY <2>2
  <2>3. QED
    BY <2>1, <2>2
<1>2. Min({a, b}) \in {a, b} /\ \A y \in {a, b} : Min({a, b}) <= y
  BY <1>1 DEF Min
<1>3. QED
  BY <1>2

LEMMA CountdownIs ==
    ASSUME NEW n \in Nat
    PROVE  Countdown(n) = IF n = 0 THEN 0 ELSE n - 1
<1>1. Max({n - 1, 0}) \in {n - 1, 0} /\ Max({n - 1, 0}) >= n - 1 /\ Max({n - 1, 0}) >= 0
  BY MaxOfTwo
<1>2. QED
  BY <1>1 DEF Countdown

LEMMA HoldOffLasts ==
    ASSUME NEW failures \in Nat \ {0}
    PROVE  HoldOff(failures) \in Nat /\ HoldOff(failures) >= Interval
<1> DEFINE n == Min({failures - 1, MaxDoublings})
           long == Min({Interval * 2 ^ n, Day})
<1>1. Interval \in Nat \ {0} /\ MaxDoublings \in Nat /\ Day \in Nat
  BY FeedAssumption
<1>2. n \in Nat
  BY <1>1, MinOfTwo
<1> HIDE DEF n
<1>3. 2 ^ n \in Int
  BY <1>2, Z3
<1>4. Interval * 2 ^ n \in Int
  BY <1>1, <1>3
<1>5. long \in Int
  BY <1>1, <1>4, MinOfTwo
<1>6. HoldOff(failures) = Max({Interval, long})
  BY DEF HoldOff, n
<1> HIDE DEF long
<1>7. Max({Interval, long}) \in Int /\ Max({Interval, long}) >= Interval
  BY <1>1, <1>5, MaxOfTwo
<1>8. QED
  BY <1>1, <1>6, <1>7

\* A failed fetch leaves the body as it was, and cools for an interval and for the pause.
LEMMA FailedHolds ==
    ASSUME NEW entry \in Entry, NEW pause \in Nat
    PROVE  /\ FailedEntry(entry, pause) \in Entry
           /\ FailedEntry(entry, pause).cool >= Interval
           /\ FailedEntry(entry, pause).fresh = entry.fresh
           /\ Min({pause, Day}) \in Nat /\ Min({pause, Day}) <= FailedEntry(entry, pause).cool
<1> DEFINE failures == Min({entry.failures + 1, MaxDoublings + 1})
           asked == Min({pause, Day})
           cool == Lengthened(HoldOff(failures), pause)
<1>1. entry.failures \in Nat /\ MaxDoublings \in Nat /\ Day \in Nat /\ Interval \in Nat
  BY FeedAssumption DEF Entry
<1>2. failures \in Nat \ {0}
  <2>1. entry.failures + 1 \in Int /\ MaxDoublings + 1 \in Int
    BY <1>1
  <2>2. failures \in {entry.failures + 1, MaxDoublings + 1}
    BY <2>1, MinOfTwo
  <2> HIDE DEF failures
  <2>3. QED
    BY <1>1, <2>2
<1>3. asked \in Nat
  <2>1. pause \in Int /\ Day \in Int
    BY <1>1
  <2>2. asked \in {pause, Day}
    BY <2>1, MinOfTwo
  <2> HIDE DEF asked
  <2>3. QED
    BY <1>1, <2>2
<1> HIDE DEF failures, asked
<1>4. HoldOff(failures) \in Nat /\ HoldOff(failures) >= Interval
  BY <1>2, HoldOffLasts
<1>5. cool = Max({HoldOff(failures), asked})
  BY DEF Lengthened, asked
<1> HIDE DEF cool
<1>6. cool \in Nat /\ cool >= Interval /\ cool >= asked
  <2> DEFINE h == HoldOff(failures)
  <2> HIDE DEF h
  <2>1. h \in Nat /\ h >= Interval /\ cool = Max({h, asked})
    BY <1>4, <1>5 DEF h
  <2>2. cool \in {h, asked} /\ cool >= h /\ cool >= asked
    BY <1>3, <2>1, MaxOfTwo
  <2>3. QED
    BY <1>1, <1>3, <2>1, <2>2
<1>7. FailedEntry(entry, pause) = [entry EXCEPT !.failures = failures, !.cool = cool]
  BY Zenon DEF FailedEntry, Cooled, failures, cool
<1>8. /\ [entry EXCEPT !.failures = failures, !.cool = cool] \in Entry
      /\ [entry EXCEPT !.failures = failures, !.cool = cool].cool = cool
      /\ [entry EXCEPT !.failures = failures, !.cool = cool].fresh = entry.fresh
  BY <1>2, <1>6 DEF Entry
<1>9. /\ FailedEntry(entry, pause) \in Entry /\ FailedEntry(entry, pause).cool = cool
      /\ FailedEntry(entry, pause).fresh = entry.fresh
  BY <1>7, <1>8
<1>10. QED
  BY <1>3, <1>6, <1>9 DEF asked

-----------------------------------------------------------------------------
\* What a step does to one source.
\* No fetch of the source begins, and a run asks for it only when there is no young body.
Follows(r, s) ==
    /\ Fetches(runs'[r], s) => Fetches(runs[r], s) /\ Made(runs'[r]) >= Made(runs[r])
    /\ Asks(runs'[r], s) => Asks(runs[r], s) \/ cache[s].fresh = 0

\* A fetch ends without a trace only before it sent anything.
Leaves(r, s) == Fetches(runs[r], s) => Fetches(runs'[r], s) \/ NoneBy(r, s)

\* Without a young body no thread has fetched twice.
LEMMA NoOldRequests ==
    ASSUME NEW s \in Sources, SourceOK(s), cache[s].fresh = 0
    PROVE  \A r : NoOldBy(r, s)
<1>1. Window(s) /\ trail[s].sent \subseteq Sent /\ Interval \in Nat
  BY FeedAssumption DEF SourceOK, Note
<1>2. ASSUME NEW e \in trail[s].sent PROVE ~e.old
  BY <1>1 DEF Window, Sent
<1>3. QED
  BY <1>2 DEF NoOldBy

\* Some thread has always fetched once only.
LEMMA OneIsSpared ==
    ASSUME NEW s \in Sources, SourceOK(s)
    PROVE  \E r \in Threads : NoOldBy(r, s)
<1>1. CASE cache[s].fresh = 0
  BY <1>1, NoOldRequests, FeedAssumption
<1>2. CASE cache[s].fresh > 0
  BY <1>2 DEF SourceOK, Spared
<1>3. QED
  BY <1>1, <1>2 DEF SourceOK, Entry

LEMMA LostSource ==
    ASSUME PoliteInv, NEW s \in Sources, cache'[s] \in Entry, trail'[s] \in Note,
           trail'[s].sent = {}, trail'[s].asked <= cache'[s].cool,
           \/ cache'[s].fresh = 0
           \/ cache'[s] = cache[s] /\ \A r \in Threads : Follows(r, s)
    PROVE  SourceOK(s)'
<1>1. Window(s)' /\ Distinct(s)' /\ \A r : NoOldBy(r, s)'
  BY DEF Window, Distinct, NoOldBy
<1>2. Asking(s) /\ Spared(s)
  BY DEF PoliteInv, SourceOK
<1>3. Asking(s)'
  BY <1>1, <1>2 DEF Asking, Follows
<1>4. Spared(s)'
  <2>1. CASE cache'[s].fresh = 0
    BY <2>1 DEF Spared
  <2>2. CASE cache'[s] = cache[s] /\ cache[s].fresh > 0 /\ \A r \in Threads : Follows(r, s)
    <3>1. PICK r \in Threads : ~Fetches(runs[r], s) /\ ~Asks(runs[r], s)
      BY <1>2, <2>2 DEF Spared
    <3>2. ~Fetches(runs'[r], s) /\ ~Asks(runs'[r], s)
      BY <2>2, <3>1 DEF Follows
    <3>3. QED
      BY <1>1, <3>2 DEF Spared
  <2>3. QED
    BY <2>1, <2>2 DEF Entry
<1>5. QED
  BY <1>1, <1>3, <1>4 DEF SourceOK

\* Nothing was sent; a fetch ends with a hold-off, with a body, or before it sent anything.
LEMMA KeptSource ==
    ASSUME PoliteInv, NEW s \in Sources, cache'[s] \in Entry, trail'[s] \in Note,
           trail'[s].sent = trail[s].sent, trail'[s].asked <= cache'[s].cool,
           \A r \in Threads : AttemptOK(runs'[r]),
           \A r \in Threads : Follows(r, s),
           \/ /\ cache'[s].fresh = cache[s].fresh
              /\ \/ cache'[s].cool >= Interval
                 \/ cache'[s].cool = cache[s].cool /\ \A r \in Threads : Leaves(r, s)
           \/ /\ cache'[s].fresh = Interval
              /\ \E r \in Threads : ~Fetches(runs'[r], s) /\ ~Asks(runs'[r], s)
    PROVE  SourceOK(s)'
<1>1. /\ Window(s) /\ Distinct(s) /\ trail[s].sent \subseteq Sent
      /\ Asking(s) /\ Spared(s) /\ SourceOK(s)
  BY DEF PoliteInv, SourceOK, Note
<1>2. /\ cache'[s].fresh \in Nat /\ cache'[s].cool \in Nat /\ Interval \in Nat \ {0}
      /\ cache[s].fresh \in Nat
  BY <1>1, FeedAssumption DEF Entry, SourceOK
<1>3. cache'[s].fresh \in {cache[s].fresh, Interval} /\ \A r : NoOldBy(r, s)' = NoOldBy(r, s)
  BY DEF NoOldBy
<1>4. ASSUME NEW e \in trail[s].sent
      PROVE  IF e.old THEN cache'[s].fresh + e.age >= Interval
             ELSE IF Fetches(runs'[e.by], s) THEN e.attempt <= Made(runs'[e.by])
             ELSE Held(cache'[s], e.age)
  <2>1. e.by \in Threads /\ e.attempt \in Nat /\ e.age \in Nat
    BY <1>1, FeedAssumption DEF Sent
  <2>2. CASE e.old
    <3>1. cache[s].fresh + e.age >= Interval
      BY <1>1, <2>2 DEF Window
    <3>2. QED
      BY <1>2, <1>3, <2>1, <2>2, <3>1
  <2>3. CASE ~e.old /\ Fetches(runs'[e.by], s)
    <3>1. Fetches(runs[e.by], s) /\ Made(runs'[e.by]) >= Made(runs[e.by])
      BY <2>1, <2>3 DEF Follows
    <3>2. e.attempt <= Made(runs[e.by])
      BY <1>1, <2>3, <3>1 DEF Window
    <3>3. Made(runs[e.by]) \in Int /\ Made(runs'[e.by]) \in Int
      <4>1. runs[e.by].attempt \in Int /\ runs'[e.by].attempt \in Int
        BY <2>1 DEF PoliteInv, AttemptOK
      <4>2. QED
        BY <4>1 DEF Made
    <3>4. QED
      BY <2>1, <2>3, <3>1, <3>2, <3>3
  <2>4. CASE ~e.old /\ ~Fetches(runs'[e.by], s)
    <3>1. CASE cache'[s].fresh = Interval \/ cache'[s].cool >= Interval
      BY <1>2, <2>1, <2>4, <3>1 DEF Held
    <3>2. CASE ~(cache'[s].fresh = Interval \/ cache'[s].cool >= Interval)
      <4>1. /\ cache'[s].fresh = cache[s].fresh /\ cache'[s].cool = cache[s].cool
            /\ ~Fetches(runs[e.by], s)
        BY <2>1, <2>4, <3>2 DEF Leaves, NoneBy
      <4>2. Held(cache[s], e.age)
        BY <1>1, <2>4, <4>1 DEF Window
      <4>3. QED
        BY <2>4, <4>1, <4>2 DEF Held
    <3>3. QED
      BY <3>1, <3>2
  <2>5. QED
    BY <2>2, <2>3, <2>4
<1>5. Window(s)' /\ Distinct(s)'
  BY <1>1, <1>4 DEF Window, Distinct
<1>6. Asking(s)'
  <2>1. ASSUME NEW r \in Threads, Asks(runs'[r], s)
        PROVE  cache'[s].fresh \in {0, Interval} /\ NoOldBy(r, s)
    <3>1. CASE Asks(runs[r], s)
      BY <1>1, <1>3, <3>1 DEF Asking
    <3>2. CASE cache[s].fresh = 0
      BY <1>1, <1>3, <3>2, NoOldRequests
    <3>3. QED
      BY <2>1, <3>1, <3>2 DEF Follows
  <2>2. QED
    BY <1>3, <2>1 DEF Asking
<1>7. Spared(s)'
  <2>1. CASE cache[s].fresh > 0
    <3>1. PICK r \in Threads : ~Fetches(runs[r], s) /\ ~Asks(runs[r], s) /\ NoOldBy(r, s)
      BY <1>1, <2>1 DEF Spared
    <3>2. ~Fetches(runs'[r], s) /\ ~Asks(runs'[r], s)
      BY <1>2, <2>1, <3>1 DEF Follows
    <3>3. QED
      BY <1>3, <3>1, <3>2 DEF Spared
  <2>2. CASE cache[s].fresh = 0 /\ cache'[s].fresh > 0
    <3>1. PICK r \in Threads : ~Fetches(runs'[r], s) /\ ~Asks(runs'[r], s)
      BY <1>2, <2>2
    <3>2. NoOldBy(r, s)
      BY <1>1, <2>2, NoOldRequests
    <3>3. QED
      BY <1>3, <3>1, <3>2 DEF Spared
  <2>3. QED
    BY <1>2, <2>1, <2>2 DEF Spared
<1>8. QED
  BY <1>5, <1>6, <1>7 DEF SourceOK

\* What the observer learns of overlapping takedowns is nothing about the wire.
LEMMA SameSource ==
    ASSUME PoliteInv, NEW s \in Sources, cache'[s] = cache[s], runs' = runs,
           trail'[s] \in Note, trail'[s].sent = trail[s].sent, trail'[s].asked = trail[s].asked
    PROVE  SourceOK(s)'
<1>1. SourceOK(s)
  BY DEF PoliteInv
<1>2. Window(s)' /\ Distinct(s)' /\ Asking(s)' /\ Spared(s)'
  BY <1>1 DEF SourceOK, Window, Distinct, Asking, Spared, NoOldBy
<1>3. QED
  BY <1>1, <1>2 DEF SourceOK

-----------------------------------------------------------------------------
\* The steps, by what they do to the fetches, the cache and the wire.
LEMMA RunsAfter ==
    ASSUME Inv, PoliteInv, NEW r \in Threads, NEW run, runs' = [runs EXCEPT ![r] = run], AttemptOK(run)
    PROVE  /\ \A q \in Threads : AttemptOK(runs'[q])
           /\ runs'[r] = run /\ \A q \in Threads : q # r => runs'[q] = runs[q]
           /\ \A q \in Threads : Made(runs[q]) \in Int
<1>1. \A q \in Threads : runs'[q] = IF q = r THEN run ELSE runs[q]
  BY DEF Inv, TypeOK
<1>2. \A q \in Threads : runs[q].attempt \in Int
  BY DEF PoliteInv, AttemptOK
<1>3. QED
  BY <1>1, <1>2 DEF PoliteInv, Made

LEMMA QuietRunStep ==
    ASSUME Inv, PoliteInv, NEW r \in Threads, NEW run, runs' = [runs EXCEPT ![r] = run], AttemptOK(run),
           cache' = cache, trail' = trail,
           \A s \in Sources : Fetches(run, s) = Fetches(runs[r], s),
           \A s \in Sources : Asks(run, s) => cache[s].fresh = 0,
           Made(run) = Made(runs[r]) \/ run.pc \notin FetchPcs
    PROVE  PoliteInv'
<1>0. /\ runs'[r] = run /\ \A q \in Threads : q # r => runs'[q] = runs[q]
      /\ \A q \in Threads : Made(runs[q]) \in Int
  BY RunsAfter
<1>1. ASSUME NEW s \in Sources PROVE SourceOK(s)'
  <2>1. /\ cache'[s] \in Entry /\ trail'[s] \in Note /\ trail'[s].asked <= cache'[s].cool
    BY DEF PoliteInv, SourceOK
  <2>2. ASSUME NEW q \in Threads PROVE Follows(q, s) /\ Leaves(q, s)
    <3>1. CASE q # r
      <4>1. runs'[q] = runs[q] /\ Made(runs[q]) \in Int
        BY <1>0, <3>1
      <4>2. QED
        BY <4>1 DEF Follows, Leaves
    <3>2. CASE q = r
      <4>1. runs'[q] = run /\ Made(runs[r]) \in Int
        BY <1>0, <3>2
      <4>2. Fetches(run, s) => Made(run) = Made(runs[r])
        BY DEF Fetches
      <4>3. QED
        BY <3>2, <4>1, <4>2 DEF Follows, Leaves
    <3>3. QED
      BY <3>1, <3>2
  <2>3. QED
    BY <2>1, <2>2, RunsAfter, KeptSource
<1>2. QED
  BY <1>1, RunsAfter DEF PoliteInv

\* A run between its fetches.
LEMMA IdleRunStep ==
    ASSUME Inv, PoliteInv, NEW r \in Threads, NEW run, runs' = [runs EXCEPT ![r] = run],
           cache' = cache, trail' = trail,
           \A s \in Sources : Asks(run, s) => cache[s].fresh = 0,
           runs[r].pc \notin FetchPcs, run.pc \notin FetchPcs, run.attempt = 0
    PROVE  PoliteInv'
BY QuietRunStep DEF AttemptOK, Fetches

\* What Passes makes of a run.
LEMMA PassesEnds ==
    ASSUME Inv, NEW r \in Threads, NEW kept, Passes(r, kept)
    PROVE  \E run : /\ runs' = [runs EXCEPT ![r] = run] /\ AttemptOK(run)
                    /\ run.pc \notin FetchPcs /\ run.attempt = 0
                    /\ \A s : ~Fetches(run, s) /\ ~Asks(run, s)
<1> DEFINE rest == runs[r].left \ {Reading(r)}
           run == [runs[r] EXCEPT !.left = rest, !.got = @ \cup kept, !.hit = FALSE,
                                  !.conditional = FALSE, !.attempt = 0,
                                  !.pc = IF rest = {} THEN "fetched" ELSE "fresh?"]
<1>1. runs' = [runs EXCEPT ![r] = run]
  BY Zenon DEF Passes
<1> HIDE DEF rest
<1>2. runs[r] \in AnyRun
  BY RunTyped
<1>3. run.pc \in {"fetched", "fresh?"} /\ run.attempt = 0
  BY <1>2 DEF AnyRun, RunIn
<1> HIDE DEF run
<1>4. run.pc \notin FetchPcs /\ run.pc # "cooling?"
  BY <1>3 DEF FetchPcs
<1>5. AttemptOK(run) /\ \A s : ~Fetches(run, s) /\ ~Asks(run, s)
  BY <1>3, <1>4 DEF AttemptOK, Fetches, Asks
<1>6. QED
  BY <1>1, <1>3, <1>4, <1>5

\* A fetch ends and leaves a hold-off or a young body.
LEMMA FetchEnds ==
    ASSUME Inv, PoliteInv, NEW r \in Threads, NEW kept, Passes(r, kept), runs[r].pc = "wire",
           NEW e \in Entry,
           \/ e.fresh = cache[Reading(r)].fresh /\ e.cool >= Interval
           \/ e.fresh = Interval,
           NEW a \in Nat, a <= e.cool,
           cache' = [cache EXCEPT ![Reading(r)] = e],
           trail' = [trail EXCEPT ![Reading(r)].asked = a]
    PROVE  PoliteInv'
<1>1. PICK run : /\ runs' = [runs EXCEPT ![r] = run] /\ AttemptOK(run)
                 /\ run.pc \notin FetchPcs /\ run.attempt = 0
                 /\ \A s : ~Fetches(run, s) /\ ~Asks(run, s)
  BY PassesEnds
<1>2. /\ \A q \in Threads : AttemptOK(runs'[q])
      /\ runs'[r] = run /\ \A q \in Threads : q # r => runs'[q] = runs[q]
      /\ \A q \in Threads : Made(runs[q]) \in Int
  BY <1>1, RunsAfter
<1>3. DOMAIN cache = Sources /\ DOMAIN trail = Sources
  BY DEF PoliteInv, Inv, TypeOK
<1>4. ASSUME NEW s \in Sources PROVE SourceOK(s)'
  <2>1. /\ cache[s] \in Entry /\ trail[s] \in Note /\ trail[s].asked <= cache[s].cool
    BY DEF PoliteInv, SourceOK
  <2>2. \A q \in Threads : Follows(q, s)
    <3>1. \A q \in Threads : Made(runs[q]) >= Made(runs[q])
      BY <1>2
    <3>2. QED
      BY <1>1, <1>2, <3>1 DEF Follows
  <2>3. CASE s = Reading(r)
    <3>1. cache'[s] = e /\ trail'[s] = [trail[s] EXCEPT !.asked = a]
      BY <1>3, <2>3
    <3>2. trail'[s] \in Note /\ trail'[s].sent = trail[s].sent /\ trail'[s].asked = a
      BY <2>1, <3>1 DEF Note
    <3>3. ~Fetches(runs'[r], s) /\ ~Asks(runs'[r], s)
      BY <1>1, <1>2
    <3>4. QED
      BY <1>2, <2>2, <2>3, <3>1, <3>2, <3>3, KeptSource
  <2>4. CASE s # Reading(r)
    <3>1. cache'[s] = cache[s] /\ trail'[s] = trail[s]
      BY <1>3, <2>4
    <3>2. ASSUME NEW q \in Threads PROVE Leaves(q, s)
      <4>1. CASE q = r
        BY <2>4, <4>1 DEF Leaves, Fetches, Reading
      <4>2. CASE q # r
        BY <1>2, <4>2 DEF Leaves
      <4>3. QED
        BY <4>1, <4>2
    <3>3. QED
      BY <1>2, <2>1, <2>2, <3>1, <3>2, KeptSource
  <2>5. QED
    BY <2>3, <2>4
<1>5. DOMAIN trail' = Sources
  BY <1>3
<1>6. QED
  BY <1>2, <1>4, <1>5 DEF PoliteInv

\* A request as it is noted when its thread begins its next fetch.
Marked(e, f, r) ==
    /\ e = IF f.by = r THEN [f EXCEPT !.old = TRUE] ELSE f
    /\ e.by = f.by /\ e.attempt = f.attempt /\ e.age = f.age
    /\ e.old = (f.old \/ f.by = r)

LEMMA OutdatedRequests ==
    ASSUME NEW sent, sent \subseteq Sent, NEW r
    PROVE  /\ Outdated(sent, r) \subseteq Sent
           /\ \A e \in Outdated(sent, r) : \E f \in sent : Marked(e, f, r)
<1>1. ASSUME NEW f \in Sent
      PROVE  LET e == IF f.by = r THEN [f EXCEPT !.old = TRUE] ELSE f IN
             /\ e \in Sent /\ e.by = f.by /\ e.attempt = f.attempt /\ e.age = f.age
             /\ e.old = (f.old \/ f.by = r)
  BY DEF Sent
<1>2. QED
  BY <1>1 DEF Outdated, Marked

\* The steps of a fetch.
LEMMA BeginsFetchPolite ==
    ASSUME Inv, PoliteInv, NEW r \in Threads, BeginsFetch(r)
    PROVE  PoliteInv'
<1>0. PICK own : own = Reading(r)
  OBVIOUS
<1>1. /\ runs[r].pc = "cooling?" /\ ~runs[r].hit /\ cache' = cache /\ cache[own].cool = 0
      /\ trail' = [trail EXCEPT ![own].sent = Outdated(@, r)]
  BY <1>0 DEF BeginsFetch
<1>2. PICK conditional \in {FALSE, cache[own].body} :
         runs' = [runs EXCEPT ![r].pc = "admit", ![r].attempt = 1, ![r].conditional = conditional]
  BY <1>0 DEF BeginsFetch
<1>3. runs[r] \in AnyRun /\ own \in Sources /\ MaxAttempts \in Nat \ {0}
  BY <1>0, <1>1, RunTyped, FeedAssumption DEF ReadStates
<1> DEFINE run == [runs[r] EXCEPT !.pc = "admit", !.attempt = 1, !.conditional = conditional]
<1>4. runs' = [runs EXCEPT ![r] = run]
  BY <1>2 DEF Inv, TypeOK
<1>5. run.pc = "admit" /\ run.attempt = 1 /\ run.left = runs[r].left
  BY <1>3 DEF AnyRun, RunIn
<1> HIDE DEF run
<1>6. /\ AttemptOK(run) /\ (\A s : ~Asks(run, s)) /\ \A s : Fetches(run, s) <=> s = own
      /\ Asks(runs[r], own)
  BY <1>0, <1>1, <1>3, <1>5 DEF AttemptOK, FetchPcs, Fetches, Asks, Reading
<1>7. ~\E s : Fetches(runs[r], s)
  BY <1>1 DEF Fetches, FetchPcs
<1>8. /\ \A q \in Threads : AttemptOK(runs'[q])
      /\ runs'[r] = run /\ \A q \in Threads : q # r => runs'[q] = runs[q]
      /\ \A q \in Threads : Made(runs[q]) \in Int
  BY <1>4, <1>6, RunsAfter
<1>9. DOMAIN trail = Sources /\ DOMAIN trail' = Sources
  BY <1>1 DEF PoliteInv
<1>10. ASSUME NEW s \in Sources, s # own PROVE SourceOK(s)'
  <2>1. /\ cache[s] \in Entry /\ trail[s] \in Note /\ trail[s].asked <= cache[s].cool
        /\ trail'[s] = trail[s] /\ cache'[s] = cache[s]
    BY <1>1, <1>9, <1>10 DEF PoliteInv, SourceOK
  <2>2. ASSUME NEW q \in Threads PROVE Follows(q, s) /\ Leaves(q, s)
    <3>1. CASE q = r
      BY <1>6, <1>7, <1>8, <1>10, <3>1 DEF Follows, Leaves
    <3>2. CASE q # r
      <4>1. runs'[q] = runs[q] /\ Made(runs[q]) \in Int
        BY <1>8, <3>2
      <4>2. QED
        BY <4>1 DEF Follows, Leaves
    <3>3. QED
      BY <3>1, <3>2
  <2>3. QED
    BY <1>8, <2>1, <2>2, KeptSource
<1>11. SourceOK(own)'
  <2>1. /\ cache[own] \in Entry /\ trail[own] \in Note /\ trail[own].asked <= cache[own].cool
        /\ Window(own) /\ Distinct(own) /\ Asking(own) /\ Spared(own)
        /\ cache'[own] = cache[own] /\ trail[own].sent \subseteq Sent
    BY <1>1, <1>3 DEF PoliteInv, SourceOK, Note
  <2>2. trail'[own] = [trail[own] EXCEPT !.sent = Outdated(@, r)]
    BY <1>1, <1>3, <1>9
  <2>3. /\ trail'[own] \in Note /\ trail'[own].sent = Outdated(trail[own].sent, r)
        /\ trail'[own].asked = trail[own].asked
    BY <2>1, <2>2, OutdatedRequests DEF Note
  <2>4. \A e \in trail'[own].sent : \E f \in trail[own].sent : Marked(e, f, r)
    BY <2>1, <2>3, OutdatedRequests
  <2>5. cache[own].fresh \in {0, Interval} /\ NoOldBy(r, own)
    BY <1>6, <2>1 DEF Asking
  <2>6. Window(own)'
    <3>1. ASSUME NEW e \in trail'[own].sent
          PROVE  IF e.old THEN cache'[own].fresh + e.age >= Interval
                 ELSE IF Fetches(runs'[e.by], own) THEN e.attempt <= Made(runs'[e.by])
                 ELSE Held(cache'[own], e.age)
      <4>1. PICK f \in trail[own].sent :
               e.by = f.by /\ e.attempt = f.attempt /\ e.age = f.age /\ e.old = (f.old \/ f.by = r)
        BY <2>4 DEF Marked
      <4>2. f \in Sent /\ Interval \in Nat /\ f.age \in Nat /\ f.by \in Threads
        BY <2>1, FeedAssumption DEF Sent
      <4>3. CASE f.by = r
        <5>1. ~f.old /\ Held(cache[own], f.age)
          BY <1>7, <2>1, <2>5, <4>3 DEF Window, NoOldBy
        <5>2. cache[own].fresh + f.age >= Interval
          <6>1. f.age < Interval
            BY <4>2 DEF Sent
          <6>2. QED
            BY <1>1, <2>5, <4>2, <5>1, <6>1 DEF Held
        <5>3. QED
          BY <2>1, <4>1, <4>3, <5>2
      <4>4. CASE f.by # r
        <5>1. runs'[f.by] = runs[f.by]
          BY <1>8, <4>2, <4>4
        <5>2. QED
          BY <2>1, <4>1, <4>4, <5>1 DEF Window
      <4>5. QED
        BY <4>3, <4>4
    <3>2. QED
      BY <3>1 DEF Window
  <2>7. Distinct(own)'
    <3>1. ASSUME NEW e \in trail'[own].sent, NEW g \in trail'[own].sent,
                 e.by = g.by, e.attempt = g.attempt, e.old = g.old
          PROVE  e = g
      <4>1. PICK f \in trail[own].sent :
               /\ e = IF f.by = r THEN [f EXCEPT !.old = TRUE] ELSE f
               /\ e.by = f.by /\ e.attempt = f.attempt /\ e.old = (f.old \/ f.by = r)
        BY <2>4 DEF Marked
      <4>2. PICK h \in trail[own].sent :
               /\ g = IF h.by = r THEN [h EXCEPT !.old = TRUE] ELSE h
               /\ g.by = h.by /\ g.attempt = h.attempt /\ g.old = (h.old \/ h.by = r)
        BY <2>4 DEF Marked
      <4>3. f.old = h.old
        <5>1. f.old \in BOOLEAN /\ h.old \in BOOLEAN /\ f.by = h.by
          BY <2>1, <3>1, <4>1, <4>2 DEF Sent
        <5>2. f.by = r => ~f.old /\ ~h.old
          BY <2>5, <5>1 DEF NoOldBy
        <5>3. f.by # r => e.old = f.old /\ g.old = h.old
          BY <4>1, <4>2, <5>1
        <5>4. QED
          BY <3>1, <5>1, <5>2, <5>3
      <4>4. f = h
        BY <2>1, <3>1, <4>1, <4>2, <4>3 DEF Distinct
      <4>5. QED
        BY <4>1, <4>2, <4>4
    <3>2. QED
      BY <3>1 DEF Distinct
  <2>8. \A q : q # r /\ NoOldBy(q, own) => NoOldBy(q, own)'
    BY <2>4 DEF NoOldBy, Marked
  <2>9. Asking(own)'
    <3>1. ASSUME NEW q \in Threads, Asks(runs'[q], own)
          PROVE  cache'[own].fresh \in {0, Interval} /\ NoOldBy(q, own)'
      <4>1. q # r /\ Asks(runs[q], own)
        BY <1>6, <1>8, <3>1
      <4>2. QED
        BY <2>1, <2>8, <4>1 DEF Asking
    <3>2. QED
      BY <3>1 DEF Asking
  <2>10. Spared(own)'
    <3>1. ASSUME cache[own].fresh > 0
          PROVE  \E q \in Threads : ~Fetches(runs'[q], own) /\ ~Asks(runs'[q], own) /\ NoOldBy(q, own)'
      <4>1. PICK q \in Threads : ~Fetches(runs[q], own) /\ ~Asks(runs[q], own) /\ NoOldBy(q, own)
        BY <2>1, <3>1 DEF Spared
      <4>2. q # r
        BY <1>6, <4>1
      <4>3. QED
        BY <1>8, <2>8, <4>1, <4>2
    <3>2. QED
      BY <2>1, <3>1 DEF Spared
  <2>11. QED
    BY <2>1, <2>3, <2>6, <2>7, <2>9, <2>10 DEF SourceOK
<1>12. QED
  BY <1>8, <1>9, <1>10, <1>11 DEF PoliteInv

\* Every thread has at most one request of each number of its last fetch and of the one
\* before, and some thread has none of one before.
LEMMA FewRequests ==
    ASSUME NEW s \in Sources, SourceOK(s)
    PROVE  /\ IsFiniteSet(trail[s].sent)
           /\ Cardinality(trail[s].sent) <= (2 * Cardinality(Threads) - 1) * MaxAttempts
<1>1. PICK v \in Threads : NoOldBy(v, s)
  BY OneIsSpared
<1> DEFINE last == Threads \X {FALSE}
           before == (Threads \ {v}) \X {TRUE}
           kinds == (last \cup before) \X (1 .. MaxAttempts)
           kind == [e \in trail[s].sent |-> <<<<e.by, e.old>>, e.attempt>>]
<1>2. trail[s].sent \subseteq Sent /\ Distinct(s)
  BY DEF SourceOK, Note
<1>3. kind \in Injection(trail[s].sent, kinds)
  <2>1. \A e \in trail[s].sent : <<<<e.by, e.old>>, e.attempt>> \in kinds
    <3>1. ASSUME NEW e \in trail[s].sent PROVE <<e.by, e.old>> \in last \cup before
      <4>1. e.by \in Threads /\ e.old \in BOOLEAN /\ (e.old => e.by # v)
        BY <1>1, <1>2 DEF Sent, NoOldBy
      <4>2. QED
        BY <4>1
    <3>2. QED
      BY <1>2, <3>1 DEF Sent
  <2>2. kind \in [trail[s].sent -> kinds]
    BY <2>1
  <2>3. ASSUME NEW e \in trail[s].sent, NEW f \in trail[s].sent, kind[e] = kind[f] PROVE e = f
    BY <1>2, <2>3 DEF Distinct
  <2> HIDE DEF kind, kinds
  <2>4. QED
    BY <2>2, <2>3, Zenon DEF Injection, IsInjective
<1>4. ASSUME NEW T, IsFiniteSet(T), NEW b
      PROVE  IsFiniteSet(T \X {b}) /\ Cardinality(T \X {b}) = Cardinality(T)
  <2>1. IsFiniteSet({b}) /\ Cardinality({b}) = 1 /\ Cardinality(T) \in Nat
    BY <1>4, FS_Singleton, FS_CardinalityType
  <2>2. IsFiniteSet(T \X {b}) /\ Cardinality(T \X {b}) = Cardinality(T) * Cardinality({b})
    BY <1>4, <2>1, FS_Product
  <2>3. QED
    BY <2>1, <2>2
<1>5. IsFiniteSet(last) /\ Cardinality(last) = Cardinality(Threads)
  BY <1>4, FeedAssumption
<1>6. IsFiniteSet(before) /\ Cardinality(before) = Cardinality(Threads) - 1
  <2>1. IsFiniteSet(Threads \ {v}) /\ Cardinality(Threads \ {v}) = Cardinality(Threads) - 1
    BY FS_RemoveElement, FeedAssumption
  <2>2. QED
    BY <1>4, <2>1
<1>7. /\ IsFiniteSet(last \cup before)
      /\ Cardinality(last \cup before) = 2 * Cardinality(Threads) - 1
  <2>1. last \cap before = {}
    OBVIOUS
  <2> HIDE DEF last, before
  <2>2. /\ IsFiniteSet(last \cup before)
        /\ Cardinality(last \cup before) = Cardinality(last) + Cardinality(before) - Cardinality({})
    BY <1>5, <1>6, <2>1, FS_Union
  <2>3. Cardinality(Threads) \in Nat /\ Cardinality({}) = 0
    BY FS_CardinalityType, FS_EmptySet, FeedAssumption
  <2>4. QED
    BY <1>5, <1>6, <2>2, <2>3
<1>8. IsFiniteSet(1 .. MaxAttempts) /\ Cardinality(1 .. MaxAttempts) = MaxAttempts
  BY FS_Interval, FeedAssumption
<1> HIDE DEF last, before, kind
<1>9. IsFiniteSet(kinds) /\ Cardinality(kinds) = (2 * Cardinality(Threads) - 1) * MaxAttempts
  <2> DEFINE whose == last \cup before
             numbers == 1 .. MaxAttempts
  <2>1. IsFiniteSet(whose) /\ IsFiniteSet(numbers) /\ kinds = whose \X numbers
    BY <1>7, <1>8
  <2> HIDE DEF whose, numbers, kinds
  <2>2. IsFiniteSet(kinds) /\ Cardinality(kinds) = Cardinality(whose) * Cardinality(numbers)
    BY <2>1, FS_Product
  <2>3. QED
    BY <1>7, <1>8, <2>2 DEF whose, numbers
<1> HIDE DEF kinds
<1>10. IsFiniteSet(trail[s].sent) /\ Cardinality(trail[s].sent) <= Cardinality(kinds)
  BY <1>3, <1>9, FS_Injection
<1>11. QED
  BY <1>9, <1>10

\* A request is the only one of its fetch and number.
LEMMA SendsRequestPolite ==
    ASSUME Inv, PoliteInv, NEW r \in Threads, SendsRequest(r)
    PROVE  PoliteInv'
<1> DEFINE own == Reading(r)
           run == [runs[r] EXCEPT !.pc = "wire"]
           request == Request(r, trail[own].sent)
<1>1. /\ runs[r].pc = "admit" /\ runs' = [runs EXCEPT ![r] = run] /\ cache' = cache
      /\ trail' = IF trail[own].untracked = 0
                  THEN [trail EXCEPT ![own].sent = @ \cup {request}] ELSE trail
  BY DEF SendsRequest
<1>2. runs[r] \in AnyRun /\ own \in Sources
  BY <1>1, RunTyped DEF ReadStates
<1>3. run.pc = "wire" /\ run.attempt = runs[r].attempt /\ run.left = runs[r].left
  BY <1>2 DEF AnyRun, RunIn
<1>4. runs[r].attempt \in 1 .. MaxAttempts
  BY <1>1 DEF PoliteInv, AttemptOK, FetchPcs
<1> HIDE DEF run
<1>5. AttemptOK(run) /\ Made(run) = runs[r].attempt /\ Made(runs[r]) = runs[r].attempt - 1
  BY <1>1, <1>3, <1>4 DEF AttemptOK, FetchPcs, Made
<1>6. /\ \A s : Fetches(run, s) = Fetches(runs[r], s)
      /\ Fetches(run, own) /\ Fetches(runs[r], own)
      /\ \A s : ~Asks(run, s)
  BY <1>1, <1>3 DEF Fetches, FetchPcs, Reading, Asks
<1>7. /\ \A q \in Threads : AttemptOK(runs'[q])
      /\ runs'[r] = run /\ \A q \in Threads : q # r => runs'[q] = runs[q]
      /\ \A q \in Threads : Made(runs[q]) \in Int
  BY <1>1, <1>5, RunsAfter
<1>8. ASSUME NEW s \in Sources, NEW q \in Threads
      PROVE  /\ Fetches(runs'[q], s) = Fetches(runs[q], s)
             /\ Made(runs'[q]) \in Int /\ Made(runs'[q]) >= Made(runs[q])
             /\ Asks(runs'[q], s) => Asks(runs[q], s)
  <2>1. CASE q = r
    BY <1>4, <1>5, <1>6, <1>7, <2>1
  <2>2. CASE q # r
    <3>1. runs'[q] = runs[q] /\ Made(runs[q]) \in Int
      BY <1>7, <2>2
    <3>2. QED
      BY <3>1
  <2>3. QED
    BY <2>1, <2>2
<1>9. DOMAIN trail = Sources /\ DOMAIN trail' = Sources
  BY <1>1 DEF PoliteInv
<1> HIDE DEF own, request
<1>10. ASSUME NEW s \in Sources PROVE SourceOK(s)'
  <2>1. /\ cache[s] \in Entry /\ trail[s] \in Note /\ trail[s].asked <= cache[s].cool
        /\ Window(s) /\ Distinct(s) /\ Asking(s) /\ Spared(s) /\ cache'[s] = cache[s]
    BY <1>1 DEF PoliteInv, SourceOK
  <2>2. CASE trail'[s] = trail[s]
    <3>1. \A q \in Threads : Follows(q, s) /\ Leaves(q, s)
      BY <1>8 DEF Follows, Leaves
    <3>2. QED
      BY <1>7, <2>1, <2>2, <3>1, KeptSource
  <2>3. CASE trail'[s] # trail[s]
    <3>1. s = own /\ trail'[s] = [trail[s] EXCEPT !.sent = @ \cup {request}]
      BY <1>1, <1>9, <2>3
    <3>2. trail[s].sent \subseteq Sent
      BY <2>1 DEF Note
    <3>3. \A e \in trail[s].sent : e.by = r /\ ~e.old => e.attempt < runs[r].attempt
      <4>1. ASSUME NEW e \in trail[s].sent, e.by = r, ~e.old PROVE e.attempt < runs[r].attempt
        <5>1. e.attempt <= runs[r].attempt - 1
          BY <1>5, <1>6, <2>1, <3>1, <4>1 DEF Window
        <5>2. e.attempt \in Int /\ runs[r].attempt \in Int
          BY <1>4, <3>2 DEF Sent
        <5>3. QED
          BY <5>1, <5>2
      <4>2. QED
        BY <4>1
    <3>4. /\ request.by = r /\ request.attempt = runs[r].attempt /\ request.old = FALSE
          /\ request.age = 0 /\ request \in Sent
      <4> DEFINE same == {e \in trail[s].sent : e.by = r /\ e.attempt = runs[r].attempt /\ e.age = 0}
      <4>1. Cardinality(same) \in Nat
        <5>1. IsFiniteSet(trail[s].sent)
          BY FewRequests DEF PoliteInv
        <5>2. QED
          BY <5>1, FS_Subset, FS_CardinalityType
      <4>2. request = [by |-> r, attempt |-> runs[r].attempt, age |-> 0,
                       nth |-> Cardinality(same), old |-> FALSE]
        BY <3>1 DEF request, Request
      <4> HIDE DEF same
      <4>3. QED
        BY <1>4, <4>1, <4>2, FeedAssumption DEF Sent
    <3>5. /\ trail'[s].sent = trail[s].sent \cup {request}
          /\ trail'[s].asked = trail[s].asked /\ trail'[s] \in Note
      BY <2>1, <3>1, <3>2, <3>4 DEF Note
    <3>6. Window(s)'
      <4>1. ASSUME NEW e \in trail[s].sent
            PROVE  IF e.old THEN cache'[s].fresh + e.age >= Interval
                   ELSE IF Fetches(runs'[e.by], s) THEN e.attempt <= Made(runs'[e.by])
                   ELSE Held(cache'[s], e.age)
        <5>1. e.by \in Threads /\ e.attempt \in Int
          BY <3>2 DEF Sent
        <5>2. CASE ~e.old /\ Fetches(runs'[e.by], s)
          <6>1. e.attempt <= Made(runs[e.by])
            BY <1>8, <2>1, <5>1, <5>2 DEF Window
          <6>2. QED
            BY <1>7, <1>8, <5>1, <5>2, <6>1
        <5>3. CASE e.old \/ ~Fetches(runs'[e.by], s)
          BY <1>8, <2>1, <5>1, <5>3 DEF Window
        <5>4. QED
          BY <5>2, <5>3
      <4>2. /\ Fetches(runs'[request.by], s) /\ request.attempt <= Made(runs'[request.by])
            /\ ~request.old
        BY <1>4, <1>5, <1>6, <1>7, <3>1, <3>4
      <4>3. QED
        BY <3>5, <4>1, <4>2 DEF Window
    <3>7. Distinct(s)'
      <4>1. \A e \in trail[s].sent : e.by = request.by /\ ~e.old => e.attempt # request.attempt
        <5>1. \A e \in trail[s].sent : e.attempt \in Int
          BY <3>2 DEF Sent
        <5>2. QED
          BY <1>4, <3>3, <3>4, <5>1
      <4>2. \A e \in trail[s].sent : e.old \in BOOLEAN
        BY <3>2 DEF Sent
      <4>3. QED
        BY <2>1, <3>4, <3>5, <4>1, <4>2 DEF Distinct
    <3>8. \A q : NoOldBy(q, s)' = NoOldBy(q, s)
      BY <3>4, <3>5 DEF NoOldBy
    <3>9. Asking(s)' /\ Spared(s)'
      <4>1. \A q \in Threads : Asks(runs'[q], s) => Asks(runs[q], s)
        BY <1>8
      <4>2. \A q \in Threads : Fetches(runs'[q], s) = Fetches(runs[q], s)
        BY <1>8
      <4>3. QED
        BY <2>1, <3>8, <4>1, <4>2 DEF Asking, Spared
    <3>10. QED
      BY <2>1, <3>5, <3>6, <3>7, <3>9 DEF SourceOK
  <2>4. QED
    BY <2>2, <2>3
<1>11. QED
  BY <1>7, <1>9, <1>10 DEF PoliteInv

LEMMA FailsPolite ==
    ASSUME Inv, PoliteInv, NEW r \in Threads, runs[r].pc = "wire", NEW pause \in Nat, Fails(r, pause)
    PROVE  PoliteInv'
<1> DEFINE own == Reading(r)
           e == FailedEntry(cache[own], pause)
           a == Min({pause, Day})
<1>1. own \in Sources
  BY RunTyped DEF ReadStates
<1>2. cache[own] \in Entry
  BY <1>1 DEF PoliteInv, SourceOK
<1>3. cache' = [cache EXCEPT ![own] = e] /\ trail' = [trail EXCEPT ![own].asked = a] /\ Passes(r, {})
  BY DEF Fails
<1>4. /\ e \in Entry /\ e.cool >= Interval /\ e.fresh = cache[own].fresh
      /\ a \in Nat /\ a <= e.cool
  BY <1>2, FailedHolds
<1> HIDE DEF e, a
<1>5. QED
  BY <1>3, <1>4, FetchEnds

LEMMA GoodReadPolite ==
    ASSUME Inv, PoliteInv, NEW r \in Threads, runs[r].pc = "wire",
           NEW e \in Entry, e.fresh = Interval, GoodRead(Reading(r), e), Delivers(r)
    PROVE  PoliteInv'
<1>1. Passes(r, {Reading(r)} \cap occasion.matching)
  BY DEF Delivers
<1>2. e.cool \in Nat /\ 0 <= e.cool /\ 0 \in Nat
  BY DEF Entry
<1>3. cache' = [cache EXCEPT ![Reading(r)] = e] /\ trail' = [trail EXCEPT ![Reading(r)].asked = 0]
  BY DEF GoodRead
<1>4. QED
  BY <1>1, <1>2, <1>3, FetchEnds

LEMMA AnswersPolite ==
    ASSUME Inv, PoliteInv, NEW r \in Threads,
           Stores(r) \/ Revalidates(r) \/ IsRefused(r) \/ AskedToWait(r) \/ TransientFailure(r)
    PROVE  PoliteInv'
<1>1. runs[r].pc = "wire"
  BY DEF Stores, Revalidates, IsRefused, AskedToWait, TransientFailure, Answered
<1>2. Reading(r) \in Sources /\ runs[r] \in AnyRun /\ Interval \in Nat
  BY <1>1, RunTyped, FeedAssumption DEF ReadStates
<1>3. cache[Reading(r)] \in Entry
  BY <1>2 DEF PoliteInv, SourceOK
<1>4. ASSUME Fails(r, 0) PROVE PoliteInv'
  BY <1>1, <1>4, FailsPolite
<1>5. CASE Stores(r)
  <2> DEFINE e == [body |-> TRUE, fresh |-> Interval, cool |-> 0, failures |-> 0]
  <2>1. e \in Entry /\ e.fresh = Interval
    BY <1>2 DEF Entry
  <2>2. GoodRead(Reading(r), e) /\ Delivers(r)
    BY <1>5 DEF Stores
  <2> HIDE DEF e
  <2>3. QED
    BY <1>1, <2>1, <2>2, GoodReadPolite
<1>6. CASE Revalidates(r)
  <2> DEFINE e == [cache[Reading(r)] EXCEPT !.fresh = Interval, !.failures = 0]
  <2>1. e \in Entry /\ e.fresh = Interval
    BY <1>2, <1>3 DEF Entry
  <2>2. (GoodRead(Reading(r), e) /\ Delivers(r)) \/ Fails(r, 0)
    BY <1>6 DEF Revalidates
  <2> HIDE DEF e
  <2>3. QED
    BY <1>1, <1>4, <2>1, <2>2, GoodReadPolite
<1>7. CASE IsRefused(r)
  BY <1>4, <1>7 DEF IsRefused
<1>8. CASE AskedToWait(r)
  <2>1. PICK pause \in Pauses : Fails(r, pause)
    BY <1>8 DEF AskedToWait
  <2>2. pause \in Nat
    BY FeedAssumption
  <2>3. QED
    BY <1>1, <2>1, <2>2, FailsPolite
<1>9. CASE TransientFailure(r)
  <2>1. CASE Fails(r, 0)
    BY <1>4, <2>1
  <2>2. CASE /\ MayRetry(r) /\ UNCHANGED <<cache, trail>>
             /\ runs' = [runs EXCEPT ![r].pc = "admit", ![r].attempt = @ + 1]
    <3> DEFINE run == [runs[r] EXCEPT !.pc = "admit", !.attempt = @ + 1]
    <3>1. runs' = [runs EXCEPT ![r] = run]
      BY <2>2 DEF Inv, TypeOK
    <3>2. run.pc = "admit" /\ run.attempt = runs[r].attempt + 1 /\ run.left = runs[r].left
      BY <1>2 DEF AnyRun, RunIn
    <3>3. runs[r].attempt \in 1 .. MaxAttempts /\ runs[r].attempt < MaxAttempts /\ MaxAttempts \in Nat
      BY <1>1, <2>2, FeedAssumption DEF MayRetry, PoliteInv, AttemptOK, FetchPcs
    <3> HIDE DEF run
    <3>4. AttemptOK(run) /\ Made(run) = Made(runs[r])
      BY <1>1, <3>2, <3>3 DEF AttemptOK, Made, FetchPcs
    <3>5. \A s \in Sources : Fetches(run, s) = Fetches(runs[r], s) /\ ~Asks(run, s)
      BY <1>1, <3>2 DEF Fetches, FetchPcs, Asks
    <3>6. QED
      BY <2>2, <3>1, <3>4, <3>5, QuietRunStep
  <2>3. QED
    BY <1>9, <2>1, <2>2 DEF TransientFailure
<1>10. QED
  BY <1>5, <1>6, <1>7, <1>8, <1>9

\* The lookups, the writes of a run, and its end.
LEMMA QuietStepsPolite ==
    ASSUME Inv, PoliteInv, NEW r \in Threads,
           LooksForFresh(r) \/ Serves(r) \/ Writes(r)
    PROVE  PoliteInv'
<1>1. runs[r] \in AnyRun
  BY RunTyped
<1>2. runs[r].pc \in {"fresh?", "cooling?", "fetched", "lock", "write"} /\ cache' = cache /\ trail' = trail
  BY DEF LooksForFresh, Serves, Writes, ReadyToWrite, LocksSource, Rechecks, Commits
<1>3. runs[r].pc \notin FetchPcs /\ runs[r].attempt = 0
  BY <1>2 DEF FetchPcs, PoliteInv, AttemptOK
<1>4. CASE Serves(r)
  <2>1. PICK kept : Passes(r, kept)
    BY <1>4 DEF Serves, Delivers
  <2>2. PICK run : /\ runs' = [runs EXCEPT ![r] = run] /\ run.pc \notin FetchPcs
                   /\ run.attempt = 0 /\ \A s : ~Asks(run, s)
    BY <2>1, PassesEnds
  <2>3. QED
    BY <1>2, <1>3, <2>2, IdleRunStep
<1>5. CASE Commits(r)
  <2>1. /\ runs' = [runs EXCEPT ![r] = NoRun] /\ NoRun.attempt = 0 /\ NoRun.pc \notin FetchPcs
        /\ \A s : ~Asks(NoRun, s)
    BY <1>5 DEF Commits, NoRun, FetchPcs, Asks
  <2>2. QED
    BY <1>2, <1>3, <2>1, IdleRunStep
<1>6. CASE LooksForFresh(r) \/ ReadyToWrite(r) \/ LocksSource(r) \/ Rechecks(r)
  <2>1. PICK run : /\ runs' = [runs EXCEPT ![r] = run]
                   /\ run.pc \in {"cooling?", "lock", "write"} /\ run.attempt = runs[r].attempt
                   /\ \A s \in Sources : Asks(run, s) => cache[s].fresh = 0
    <3>1. CASE LooksForFresh(r)
      <4> DEFINE hit == cache[Reading(r)].fresh > 0
                 run == [runs[r] EXCEPT !.pc = "cooling?", !.hit = hit]
      <4>1. runs' = [runs EXCEPT ![r] = run]
        BY <3>1 DEF LooksForFresh, Inv, TypeOK
      <4> HIDE DEF hit
      <4>2. /\ run.pc = "cooling?" /\ run.attempt = runs[r].attempt
            /\ run.hit = hit /\ run.left = runs[r].left
        BY <1>1 DEF AnyRun, RunIn
      <4> HIDE DEF run
      <4>3. ASSUME NEW s \in Sources, Asks(run, s) PROVE cache[s].fresh = 0
        <5>1. ~(cache[s].fresh > 0)
          BY <4>2, <4>3 DEF Asks, hit, Reading
        <5>2. cache[s].fresh \in Nat
          BY DEF PoliteInv, SourceOK, Entry
        <5>3. QED
          BY <5>1, <5>2
      <4>4. QED
        BY <4>1, <4>2, <4>3
    <3>2. CASE ReadyToWrite(r)
      <4> DEFINE run == [runs[r] EXCEPT !.pc = "lock"]
      <4>1. runs' = [runs EXCEPT ![r] = run]
        BY <3>2 DEF ReadyToWrite
      <4>2. run.pc = "lock" /\ run.attempt = runs[r].attempt
        BY <1>1 DEF AnyRun, RunIn
      <4> HIDE DEF run
      <4>3. QED
        BY <4>1, <4>2 DEF Asks
    <3>3. CASE LocksSource(r)
      <4>1. PICK s : runs' = [runs EXCEPT ![r].locked = @ \cup {s}]
        BY <3>3 DEF LocksSource
      <4> DEFINE run == [runs[r] EXCEPT !.locked = @ \cup {s}]
      <4>2. runs' = [runs EXCEPT ![r] = run]
        BY <4>1
      <4>3. run.pc = "lock" /\ run.attempt = runs[r].attempt
        BY <1>1, <3>3 DEF LocksSource, AnyRun, RunIn
      <4> HIDE DEF run
      <4>4. QED
        BY <4>2, <4>3 DEF Asks
    <3>4. CASE Rechecks(r)
      <4> DEFINE run == [runs[r] EXCEPT !.pc = "write", !.got = @ \ taken]
      <4>1. runs' = [runs EXCEPT ![r] = run]
        BY <3>4 DEF Rechecks, StillUp, Inv, TypeOK
      <4>2. run.pc = "write" /\ run.attempt = runs[r].attempt
        BY <1>1 DEF AnyRun, RunIn
      <4> HIDE DEF run
      <4>3. QED
        BY <4>1, <4>2 DEF Asks
    <3>5. QED
      BY <1>6, <3>1, <3>2, <3>3, <3>4
  <2>2. run.pc \notin FetchPcs /\ run.attempt = 0
    BY <1>3, <2>1 DEF FetchPcs
  <2>3. QED
    BY <1>2, <1>3, <2>1, <2>2, IdleRunStep
<1>7. QED
  BY <1>4, <1>5, <1>6 DEF Writes

\* A note the observer resets.
LEMMA LostNote ==
    ASSUME NEW note \in Note
    PROVE  /\ Lost(note) \in Note /\ Lost(note).sent = {} /\ Lost(note).asked = note.asked
           /\ [Lost(note) EXCEPT !.asked = 0] \in Note
           /\ [Lost(note) EXCEPT !.asked = 0].sent = {} /\ [Lost(note) EXCEPT !.asked = 0].asked = 0
BY FeedAssumption DEF Lost, Note

LEMMA ForgottenSource ==
    ASSUME PoliteInv, NEW keys, Forget(keys), NEW s \in Sources, s \in keys
    PROVE  SourceOK(s)'
<1>1. trail[s] \in Note
  BY DEF PoliteInv, SourceOK
<1>2. cache'[s] = NoEntry /\ trail'[s] = [Lost(trail[s]) EXCEPT !.asked = 0]
  BY DEF Forget
<1>3. NoEntry \in Entry /\ NoEntry.cool = 0 /\ NoEntry.fresh = 0
  BY DEF NoEntry, Entry
<1>4. /\ trail'[s] \in Note /\ trail'[s].sent = {} /\ trail'[s].asked = 0
  BY <1>1, <1>2, LostNote
<1>5. trail'[s].asked <= cache'[s].cool
  BY <1>2, <1>3, <1>4
<1>6. QED
  BY <1>2, <1>3, <1>4, <1>5, LostSource

LEMMA RunStartsPolite ==
    ASSUME Inv, PoliteInv, NEW r \in Threads, RunStarts(r)
    PROVE  PoliteInv'
<1> DEFINE targets == occasion.registry \ taken
           run == [NoRun EXCEPT !.pc = "fresh?", !.left = targets]
<1>1. runs[r].pc = "idle" /\ Forget(taken) /\ runs' = [runs EXCEPT ![r] = run]
  BY DEF RunStarts
<1> HIDE DEF targets
<1>2. run.pc = "fresh?" /\ run.attempt = 0
  BY DEF NoRun
<1> HIDE DEF run
<1>3. AttemptOK(run) /\ (\A s : ~Fetches(run, s) /\ ~Asks(run, s)) /\ \A s : ~Fetches(runs[r], s)
  BY <1>1, <1>2 DEF AttemptOK, FetchPcs, Fetches, Asks
<1>4. /\ \A q \in Threads : AttemptOK(runs'[q])
      /\ runs'[r] = run /\ \A q \in Threads : q # r => runs'[q] = runs[q]
      /\ \A q \in Threads : Made(runs[q]) \in Int
  BY <1>1, <1>3, RunsAfter
<1>5. ASSUME NEW s \in Sources PROVE SourceOK(s)'
  <2>1. CASE s \in taken
    BY <1>1, <2>1, ForgottenSource
  <2>2. CASE s \notin taken
    <3>1. cache'[s] = cache[s] /\ trail'[s] = trail[s]
      BY <1>1, <2>2 DEF Forget
    <3>2. /\ cache[s] \in Entry /\ trail[s] \in Note /\ trail[s].asked <= cache[s].cool
      BY DEF PoliteInv, SourceOK
    <3>3. ASSUME NEW q \in Threads PROVE Follows(q, s) /\ Leaves(q, s)
      <4>1. CASE q = r
        <5>1. runs'[q] = run
          BY <1>4, <4>1
        <5>2. QED
          BY <1>3, <4>1, <5>1 DEF Follows, Leaves
      <4>2. CASE q # r
        <5>1. runs'[q] = runs[q] /\ Made(runs[q]) \in Int
          BY <1>4, <4>2
        <5>2. QED
          BY <5>1 DEF Follows, Leaves
      <4>3. QED
        BY <4>1, <4>2
    <3>4. QED
      BY <1>4, <3>1, <3>2, <3>3, KeptSource
  <2>3. QED
    BY <2>1, <2>2
<1>6. DOMAIN trail' = Sources
  BY <1>1 DEF Forget
<1>7. QED
  BY <1>4, <1>5, <1>6 DEF PoliteInv

\* A run that stops between two attempts leaves requests the observer no longer counts.
LEMMA RunStopsPolite ==
    ASSUME Inv, PoliteInv, NEW r \in Threads, RunStops(r)
    PROVE  PoliteInv'
<1> DEFINE own == Reading(r)
<1>1. /\ runs[r].pc \in {"admit", "fetched", "write"} /\ cache' = cache
      /\ runs' = [runs EXCEPT ![r] = NoRun]
      /\ trail' = IF runs[r].attempt > 1 THEN [trail EXCEPT ![own] = Lost(@)] ELSE trail
  BY DEF RunStops
<1>2. AttemptOK(NoRun) /\ \A s : ~Fetches(NoRun, s) /\ ~Asks(NoRun, s)
  BY DEF NoRun, AttemptOK, FetchPcs, Fetches, Asks
<1>3. /\ \A q \in Threads : AttemptOK(runs'[q])
      /\ runs'[r] = NoRun /\ \A q \in Threads : q # r => runs'[q] = runs[q]
      /\ \A q \in Threads : Made(runs[q]) \in Int
  BY <1>1, <1>2, RunsAfter
<1>4. /\ runs[r].attempt \in Nat
      /\ runs[r].pc \in FetchPcs => runs[r].pc = "admit" /\ runs[r].attempt >= 1
      /\ runs[r].pc \notin FetchPcs => runs[r].attempt = 0
  BY <1>1, FeedAssumption DEF PoliteInv, AttemptOK, FetchPcs
<1>5. DOMAIN trail = Sources /\ DOMAIN trail' = Sources
  BY <1>1 DEF PoliteInv
<1> HIDE DEF own
<1>6. ASSUME NEW s \in Sources PROVE SourceOK(s)'
  <2>1. /\ cache[s] \in Entry /\ trail[s] \in Note /\ trail[s].asked <= cache[s].cool
        /\ Window(s) /\ cache'[s] = cache[s]
    BY <1>1 DEF PoliteInv, SourceOK
  <2>2. ASSUME NEW q \in Threads PROVE Follows(q, s) /\ (q # r => Leaves(q, s))
    <3>1. CASE q = r
      BY <1>2, <1>3, <3>1 DEF Follows
    <3>2. CASE q # r
      <4>1. runs'[q] = runs[q] /\ Made(runs[q]) \in Int
        BY <1>3, <3>2
      <4>2. QED
        BY <4>1 DEF Follows, Leaves
    <3>3. QED
      BY <3>1, <3>2
  <2>3. CASE s = own /\ runs[r].attempt > 1
    <3>1. trail'[s] = Lost(trail[s])
      BY <1>1, <1>5, <2>3
    <3>2. QED
      BY <2>1, <2>2, <3>1, LostNote, LostSource
  <2>4. CASE ~(s = own /\ runs[r].attempt > 1)
    <3>1. trail'[s] = trail[s]
      BY <1>1, <1>5, <2>4
    <3>2. Fetches(runs[r], s) => NoneBy(r, s)
      <4>1. ASSUME Fetches(runs[r], s), NEW e \in trail[s].sent, e.by = r, ~e.old PROVE FALSE
        <5>1. s = own /\ runs[r].pc = "admit" /\ runs[r].attempt >= 1
          BY <1>4, <4>1 DEF Fetches, own, Reading
        <5>2. Made(runs[r]) = 0
          BY <1>4, <2>4, <5>1 DEF Made
        <5>3. e.attempt <= 0
          BY <2>1, <4>1, <5>2 DEF Window
        <5>4. e.attempt \in 1 .. MaxAttempts
          BY <2>1 DEF Note, Sent
        <5>5. QED
          BY <5>3, <5>4, FeedAssumption
      <4>2. QED
        BY <4>1 DEF NoneBy
    <3>3. \A q \in Threads : Leaves(q, s)
      BY <2>2, <3>2 DEF Leaves
    <3>4. QED
      BY <1>3, <2>1, <2>2, <3>1, <3>3, KeptSource
  <2>5. QED
    BY <2>3, <2>4
<1>7. QED
  BY <1>3, <1>5, <1>6 DEF PoliteInv

LEMMA RestartPolite ==
    ASSUME Inv, PoliteInv, Restart
    PROVE  PoliteInv'
<1>1. Forget(Sources) /\ runs' = [r \in Threads |-> NoRun]
  BY DEF Restart
<1>2. AttemptOK(NoRun)
  BY DEF NoRun, AttemptOK, FetchPcs
<1>3. \A s \in Sources : SourceOK(s)'
  BY <1>1, ForgottenSource
<1>4. DOMAIN trail' = Sources
  BY <1>1 DEF Forget
<1>5. QED
  BY <1>1, <1>2, <1>3, <1>4 DEF PoliteInv

\* A tick takes one from the counters and gives one to the ages.
LEMMA TickPolite ==
    ASSUME Inv, PoliteInv, Tick
    PROVE  PoliteInv'
<1>1. /\ runs' = runs /\ DOMAIN trail' = Sources
      /\ \A s \in Sources :
            /\ cache'[s] = [cache[s] EXCEPT !.fresh = Countdown(@), !.cool = Countdown(@)]
            /\ trail'[s] = [trail[s] EXCEPT !.sent = Older(@), !.untracked = Countdown(@),
                                            !.asked = Countdown(@)]
  BY DEF Tick
<1>2. \A n \in Nat : Countdown(n) = IF n = 0 THEN 0 ELSE n - 1
  BY CountdownIs
<1>3. Interval \in Nat \ {0} /\ \A r \in Threads, s \in Sources : ~Asks(runs[r], s)
  BY FeedAssumption DEF Tick, Asks
<1>4. ASSUME NEW s \in Sources PROVE SourceOK(s)'
  <2>1. /\ cache[s] \in Entry /\ trail[s] \in Note /\ trail[s].asked <= cache[s].cool
        /\ Window(s) /\ Distinct(s) /\ Spared(s) /\ trail[s].sent \subseteq Sent
    BY DEF PoliteInv, SourceOK, Note
  <2>2. /\ cache[s].fresh \in Nat /\ cache[s].cool \in Nat
        /\ trail[s].untracked \in Nat /\ trail[s].asked \in Nat
    BY <2>1 DEF Entry, Note
  <2>3. \A n \in Nat : Countdown(n) \in Nat
    BY <1>2
  <2>4. /\ cache'[s] \in Entry /\ cache'[s].fresh = Countdown(cache[s].fresh)
        /\ cache'[s].cool = Countdown(cache[s].cool)
    BY <1>1, <2>1, <2>2, <2>3 DEF Entry
  <2>5. \A f \in Sent : f.age + 1 < Interval =>
           /\ [f EXCEPT !.age = @ + 1] \in Sent /\ [f EXCEPT !.age = @ + 1].by = f.by
           /\ [f EXCEPT !.age = @ + 1].attempt = f.attempt
           /\ [f EXCEPT !.age = @ + 1].age = f.age + 1
           /\ [f EXCEPT !.age = @ + 1].old = f.old
    BY <1>3 DEF Sent
  <2>6. Older(trail[s].sent) \subseteq Sent
    BY <2>1, <2>5 DEF Older
  <2>7. /\ trail'[s] \in Note /\ trail'[s].sent = Older(trail[s].sent)
        /\ trail'[s].asked = Countdown(trail[s].asked)
    BY <1>1, <2>1, <2>2, <2>3, <2>6 DEF Note
  <2>8. \A e \in trail'[s].sent : \E f \in trail[s].sent :
           /\ e = [f EXCEPT !.age = @ + 1]
           /\ e.by = f.by /\ e.attempt = f.attempt /\ e.age = f.age + 1 /\ e.old = f.old
    BY <2>1, <2>5, <2>7 DEF Older
  <2>9. ASSUME NEW e \in trail'[s].sent
        PROVE  IF e.old THEN cache'[s].fresh + e.age >= Interval
               ELSE IF Fetches(runs[e.by], s) THEN e.attempt <= Made(runs[e.by])
               ELSE Held(cache'[s], e.age)
    <3>1. PICK f \in trail[s].sent :
             e.by = f.by /\ e.attempt = f.attempt /\ e.age = f.age + 1 /\ e.old = f.old
      BY <2>8
    <3>2. f.age \in Nat /\ f.age < Interval
      BY <1>3, <2>1 DEF Sent
    <3>3. CASE e.old
      <4>1. cache[s].fresh + f.age >= Interval
        BY <2>1, <3>1, <3>3 DEF Window
      <4>2. QED
        BY <1>2, <1>3, <2>2, <2>4, <3>1, <3>2, <3>3, <4>1
    <3>4. CASE ~e.old /\ Fetches(runs[e.by], s)
      BY <2>1, <3>1, <3>4 DEF Window
    <3>5. CASE ~e.old /\ ~Fetches(runs[e.by], s)
      <4>1. Held(cache[s], f.age)
        BY <2>1, <3>1, <3>5 DEF Window
      <4>2. CASE cache[s].fresh + f.age >= Interval
        BY <1>2, <1>3, <2>2, <2>4, <3>1, <3>2, <3>5, <4>2 DEF Held
      <4>3. CASE cache[s].cool + f.age >= Interval
        BY <1>2, <1>3, <2>2, <2>4, <3>1, <3>2, <3>5, <4>3 DEF Held
      <4>4. QED
        BY <4>1, <4>2, <4>3 DEF Held
    <3>6. QED
      BY <3>3, <3>4, <3>5
  <2>10. Window(s)'
    BY <1>1, <2>9 DEF Window
  <2>11. Distinct(s)'
    <3>1. ASSUME NEW e \in trail'[s].sent, NEW g \in trail'[s].sent,
                 e.by = g.by, e.attempt = g.attempt, e.old = g.old
          PROVE  e = g
      <4>1. PICK f \in trail[s].sent : e = [f EXCEPT !.age = @ + 1]
                                       /\ e.by = f.by /\ e.attempt = f.attempt /\ e.old = f.old
        BY <2>8
      <4>2. PICK h \in trail[s].sent : g = [h EXCEPT !.age = @ + 1]
                                       /\ g.by = h.by /\ g.attempt = h.attempt /\ g.old = h.old
        BY <2>8
      <4>3. f = h
        BY <2>1, <3>1, <4>1, <4>2 DEF Distinct
      <4>4. QED
        BY <4>1, <4>2, <4>3
    <3>2. QED
      BY <3>1 DEF Distinct
  <2>12. trail'[s].asked <= cache'[s].cool
    BY <1>2, <2>1, <2>2, <2>4, <2>7
  <2>13. Asking(s)' /\ Spared(s)'
    <3>1. \A r : NoOldBy(r, s) => NoOldBy(r, s)'
      BY <2>8 DEF NoOldBy
    <3>2. cache'[s].fresh > 0 => cache[s].fresh > 0
      BY <1>2, <2>2, <2>4
    <3>3. \A r \in Threads : ~Asks(runs'[r], s)
      BY <1>1, <1>3
    <3>4. QED
      BY <1>1, <2>1, <3>1, <3>2, <3>3 DEF Asking, Spared
  <2>14. QED
    BY <2>4, <2>7, <2>10, <2>11, <2>12, <2>13 DEF SourceOK
<1>5. QED
  BY <1>1, <1>4 DEF PoliteInv

LEMMA SameWire ==
    ASSUME PoliteInv, UNCHANGED <<cache, runs, trail>>
    PROVE  PoliteInv'
<1>1. \A s \in Sources : trail'[s] \in Note
  BY DEF PoliteInv, SourceOK
<1>2. \A s \in Sources : SourceOK(s)'
  BY <1>1, SameSource
<1>3. QED
  BY <1>2 DEF PoliteInv

LEMMA TakedownCommitsPolite ==
    ASSUME PoliteInv, NEW o \in Operators, TakedownCommits(o)
    PROVE  PoliteInv'
<1>1. PICK k : k = takedowns[o].key
  OBVIOUS
<1>2. /\ trail' = [trail EXCEPT ![k].overlapped = @ \/ Overlapped(o)]
      /\ UNCHANGED <<cache, runs>>
  BY <1>1 DEF TakedownCommits
<1>3. ASSUME NEW s \in Sources PROVE SourceOK(s)'
  <2>1. trail[s] \in Note /\ DOMAIN trail = Sources
    BY DEF PoliteInv, SourceOK
  <2> DEFINE b == trail[s].overlapped \/ Overlapped(o)
  <2>2. b \in BOOLEAN
    OBVIOUS
  <2>3. trail'[s] = IF s = k THEN [trail[s] EXCEPT !.overlapped = b] ELSE trail[s]
    BY <1>2, <2>1
  <2> HIDE DEF b
  <2>4. /\ trail'[s] \in Note /\ trail'[s].sent = trail[s].sent
        /\ trail'[s].asked = trail[s].asked
    BY <2>1, <2>2, <2>3 DEF Note
  <2>5. QED
    BY <1>2, <2>4, SameSource
<1>4. DOMAIN trail' = Sources
  BY <1>2 DEF PoliteInv
<1>5. QED
  BY <1>2, <1>3, <1>4 DEF PoliteInv

LEMMA PoliteStep == Inv /\ PoliteInv /\ [Next]_vars => PoliteInv'
<1> SUFFICES ASSUME Inv, PoliteInv, [Next]_vars PROVE PoliteInv'
  OBVIOUS
<1>1. CASE Tick \/ Restart
  BY <1>1, TickPolite, RestartPolite
<1>2. ASSUME NEW r \in Threads, RunStarts(r) \/ Writes(r) \/ RunStops(r) PROVE PoliteInv'
  BY <1>2, RunStartsPolite, QuietStepsPolite, RunStopsPolite
<1>3. ASSUME NEW r \in Threads, Reads(r) PROVE PoliteInv'
  BY <1>3, QuietStepsPolite, BeginsFetchPolite, SendsRequestPolite, AnswersPolite DEF Reads
<1>4. ASSUME NEW o \in Operators, Purges(o) \/ \E s \in Sources : TakedownAsks(o, s) PROVE PoliteInv'
  <2>1. CASE TakedownCommits(o)
    BY <2>1, TakedownCommitsPolite
  <2>2. CASE TakedownLocks(o) \/ TakedownReads(o) \/ \E s \in Sources : TakedownAsks(o, s)
    BY <2>2, SameWire DEF TakedownLocks, TakedownReads, TakedownAsks
  <2>3. QED
    BY <1>4, <2>1, <2>2 DEF Purges
<1>5. CASE UNCHANGED vars
  BY <1>5, SameWire DEF vars
<1>6. QED
  BY <1>1, <1>2, <1>3, <1>4, <1>5 DEF Next

LEMMA PoliteInit == Init => PoliteInv
<1> SUFFICES ASSUME Init PROVE PoliteInv
  OBVIOUS
<1>1. AttemptOK(NoRun) /\ \A s : ~Asks(NoRun, s)
  BY DEF NoRun, AttemptOK, FetchPcs, Asks
<1>2. /\ NoEntry \in Entry /\ NoEntry.cool = 0 /\ NoEntry.fresh = 0
      /\ NoTrail \in Note /\ NoTrail.sent = {} /\ NoTrail.asked = 0
  BY DEF NoEntry, Entry, NoTrail, Note
<1>3. /\ DOMAIN trail = Sources
      /\ \A s \in Sources : cache[s] = NoEntry /\ trail[s] = NoTrail
      /\ \A r \in Threads : runs[r] = NoRun
  BY DEF Init
<1> HIDE DEF NoRun, NoEntry, NoTrail
<1>4. ASSUME NEW s \in Sources PROVE SourceOK(s)
  <2>1. Window(s) /\ Distinct(s) /\ Asking(s) /\ Spared(s)
    BY <1>1, <1>2, <1>3 DEF Window, Distinct, Asking, Spared
  <2>2. QED
    BY <1>2, <1>3, <2>1 DEF SourceOK
<1>5. QED
  BY <1>1, <1>3, <1>4 DEF PoliteInv

LEMMA PoliteInvariance == Spec => []PoliteInv
  BY Invariance, PoliteInit, PoliteStep, PTL DEF Spec

\* feedcache.py, live.py: however the runs overlap, within one interval a source receives the
\* requests of at most one fetch of each thread, and of a second one of every thread but one,
\* times the attempts of a fetch, counted since the process last lost track of the source.
THEOREM SourcesAreSpared == Spec => []PoliteFloor
<1>1. PoliteInv => PoliteFloor
  BY FewRequests DEF PoliteFloor, PoliteInv
<1>2. QED
  BY <1>1, PoliteInvariance, PTL

\* live.py, _feed: no fetch of a source begins while the pause it asked for lasts, as long as
\* no fetch that was under way recorded its own end after it.
THEOREM PausesAreKept == Spec => RetryAfterHolds
<1>1. ASSUME Inv, PoliteInv, NEW r \in Threads, BeginsFetch(r) PROVE trail[Reading(r)].asked = 0
  <2>1. Reading(r) \in Sources /\ cache[Reading(r)].cool = 0
    BY <1>1, RunTyped DEF BeginsFetch, ReadStates
  <2>2. trail[Reading(r)].asked \in Nat /\ trail[Reading(r)].asked <= cache[Reading(r)].cool
    BY <1>1, <2>1 DEF PoliteInv, SourceOK, Note
  <2>3. QED
    BY <2>1, <2>2
<1>2. Inv /\ PoliteInv => [\A r \in Threads : BeginsFetch(r) => trail[Reading(r)].asked = 0]_vars
  BY <1>1
<1>3. QED
  BY <1>2, Invariance, PoliteInvariance, PTL DEF Spec, RetryAfterHolds

=============================================================================
