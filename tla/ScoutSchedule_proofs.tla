--------------------------- MODULE ScoutSchedule_proofs ---------------------------
(***************************************************************************)
(* Proofs about the schedules of a workspace and their tick chains, for    *)
(* any number of Scouts, customers, ticks, schedules and faults.           *)
(***************************************************************************)
EXTENDS ScoutSchedule, FiniteSetTheorems, TLAPS

-----------------------------------------------------------------------------
(***************************************************************************)
(* Rows, ticks and calls.                                                  *)
(***************************************************************************)

LEMMA NoTickIs == NoTick \in Tick /\ NoTick.state = "free" /\ NoTick.plan = "unread"
BY ScheduleAssumption DEF NoTick, Tick, TickStates, Plans, NoId

LEMMA NoScheduleIs == NoSchedule.id = NoId /\ NoSchedule.enabled = FALSE /\ NoId \notin Ids
BY DEF NoSchedule, NoId, Ids

LEMMA RowFacts ==
    ASSUME TypeOK, NEW r \in Requests
    PROVE  /\ schedules[r].id \in Ids \cup {NoId} /\ schedules[r].enabled \in BOOLEAN
           /\ schedules[r].id = NoId => schedules[r] = NoSchedule
           /\ schedules[r].id # NoId => schedules[r] \in Schedule
BY NoScheduleIs DEF TypeOK, Schedule

LEMMA TickFacts ==
    ASSUME TypeOK, NEW k \in Slots
    PROVE  /\ ticks[k] \in Tick /\ ticks[k].request \in Requests
           /\ ticks[k].id \in Ids \cup {NoId} /\ ticks[k].attempt \in 0..MaxAttempts
           /\ ticks[k].state \in TickStates /\ ticks[k].plan \in Plans
BY DEF TypeOK, Tick

LEMMA CallFacts ==
    ASSUME TypeOK, NEW c \in Customers
    PROVE  /\ calls[c] # NoCall <=> calls[c].kind \in Kinds
           /\ calls[c] # NoCall <=> calls[c].step \in {"read", "counted"}
           /\ calls[c] # NoCall => /\ calls[c] \in Call /\ calls[c].request \in Requests
                                   /\ calls[c].id \in Ids \cup {NoId}
                                   /\ calls[c].enabled \in BOOLEAN
BY DEF TypeOK, Call, NoCall, Kinds

-----------------------------------------------------------------------------
(***************************************************************************)
(* What every step does to each row, tick and call.                        *)
(***************************************************************************)

\* A row stays under its id, goes, or appears under the next id.
RowStep(r) ==
    \/ schedules'[r].id \in {schedules[r].id, NoId} /\ created' = created
    \/ schedules'[r].id \in {schedules[r].id, NoId} /\ created' = created + 1
    \/ /\ schedules[r].id = NoId /\ schedules'[r].id = created + 1 /\ created' = created + 1
       /\ \A q \in Requests \ {r} : schedules'[q] = schedules[q]

\* A tick keeps its schedule, ends, or is seeded for one that has none.
TickStep(k) ==
    \/ ticks'[k].state = "free"
    \/ Live(k) /\ ticks'[k].request = ticks[k].request /\ ticks'[k].id = ticks[k].id
    \/ /\ ~Live(k) /\ ticks'[k].id \in 1..created'
       /\ schedules'[ticks'[k].request].id = ticks'[k].id
       /\ \A l \in Slots : Live(l) => ticks[l].id # ticks'[k].id
       /\ \A l \in Slots \ {k} : ticks'[l] = ticks[l]

\* A call keeps what it loaded, ends, or loads the row as it is.
CallStep(c) ==
    \/ calls'[c] = NoCall
    \/ /\ calls[c] # NoCall /\ calls'[c].kind = calls[c].kind
       /\ calls'[c].request = calls[c].request /\ calls'[c].id = calls[c].id
    \/ /\ calls'[c].kind \in Kinds /\ calls'[c].id = schedules[calls'[c].request].id
       /\ calls'[c].kind = "create" <=> calls'[c].id = NoId
       /\ schedules' = schedules

Moves == /\ TypeOK' /\ created' \in {created, created + 1}
         /\ \A r \in Requests : RowStep(r)
         /\ \A k \in Slots : TickStep(k)
         /\ \A c \in Customers : CallStep(c)

\* Ids are given once: to one request, its ticks and its calls.
RowIds == /\ \A r \in Requests : schedules[r].id <= created
          /\ \A r, q \in Requests :
                schedules[r].id = schedules[q].id /\ schedules[r].id # NoId => r = q

TickIds == \A k \in Slots : Live(k) =>
    /\ ticks[k].id \in 1..created
    /\ \A r \in Requests : schedules[r].id = ticks[k].id => ticks[k].request = r

CallIds == \A c \in Customers : calls[c] # NoCall =>
    /\ calls[c].id <= created
    /\ calls[c].kind = "create" <=> calls[c].id = NoId
    /\ \A r \in Requests :
          schedules[r].id = calls[c].id /\ calls[c].id # NoId => r = calls[c].request

Base == TypeOK /\ RowIds /\ TickIds /\ CallIds /\ OneChain

LEMMA Counts ==
    ASSUME TypeOK, TypeOK'
    PROVE  /\ created \in Nat /\ created' \in Nat
           /\ \A r \in Requests : schedules[r].id \in Nat /\ schedules'[r].id \in Nat
           /\ \A k \in Slots : ticks[k].id \in Nat /\ ticks'[k].id \in Nat
           /\ \A c \in Customers : calls[c].id \in Nat /\ calls'[c].id \in Nat
<1>1. MaxSchedules \in Nat
  BY ScheduleAssumption
<1>2. \A i \in Ids \cup {NoId} : i \in Nat
  BY DEF Ids, NoId
<1>3. created \in Nat /\ created' \in Nat
  BY <1>1 DEF TypeOK
<1>4. \A r \in Requests : schedules[r].id \in Nat /\ schedules'[r].id \in Nat
  BY <1>2, NoScheduleIs DEF TypeOK, Schedule
<1>5. \A k \in Slots : ticks[k].id \in Nat /\ ticks'[k].id \in Nat
  BY <1>2 DEF TypeOK, Tick
<1>6. \A c \in Customers : calls[c].id \in Nat /\ calls'[c].id \in Nat
  BY <1>2 DEF TypeOK, Call, NoCall
<1>7. QED
  BY <1>3, <1>4, <1>5, <1>6

LEMMA BaseStep ==
    ASSUME Base, Moves
    PROVE  Base'
<1>1. /\ created \in Nat /\ created' \in Nat
      /\ \A r \in Requests : schedules[r].id \in Nat /\ schedules'[r].id \in Nat
      /\ \A k \in Slots : ticks[k].id \in Nat /\ ticks'[k].id \in Nat
      /\ \A c \in Customers : calls[c].id \in Nat /\ calls'[c].id \in Nat
      /\ NoId = 0 /\ created' \in {created, created + 1}
  BY Counts DEF Base, Moves, NoId
<1>2. RowIds'
  <2>1. ASSUME NEW r \in Requests PROVE schedules'[r].id <= created'
    BY <1>1 DEF Base, RowIds, Moves, RowStep
  <2>2. ASSUME NEW r \in Requests, NEW q \in Requests, schedules'[r].id = schedules'[q].id,
               schedules'[r].id # NoId, r # q
        PROVE  FALSE
    <3>1. /\ schedules[r].id <= created /\ schedules[q].id <= created
          /\ schedules[r].id = schedules[q].id /\ schedules[r].id # NoId => r = q
      BY DEF Base, RowIds
    <3>2. CASE schedules'[r].id = schedules[r].id /\ schedules'[q].id = schedules[q].id
      BY <2>2, <3>1, <3>2
    <3>3. ASSUME NEW a \in Requests, NEW b \in Requests, a # b,
                 schedules'[a].id = schedules'[b].id, schedules'[a].id # NoId,
                 schedules[b].id <= created,
                 schedules'[a].id # schedules[a].id
          PROVE  FALSE
      <4>1. /\ schedules'[a].id = created + 1
            /\ \A x \in Requests \ {a} : schedules'[x] = schedules[x]
        BY <3>3 DEF Moves, RowStep
      <4>2. schedules'[b].id = schedules[b].id
        BY <3>3, <4>1
      <4>3. schedules[b].id \in Nat /\ created \in Nat
        BY <1>1
      <4>4. schedules[b].id = created + 1
        BY <3>3, <4>1, <4>2
      <4>5. QED
        BY <3>3, <4>3, <4>4
    <3>4. QED
      BY <2>2, <3>1, <3>2, <3>3
  <2>3. QED
    BY <2>1, <2>2 DEF RowIds
\* An id in use names no row that appears.
<1>3. ASSUME NEW r \in Requests, NEW i \in Nat, i <= created, i # NoId, schedules'[r].id = i
      PROVE  schedules[r].id = i
  BY <1>1, <1>3 DEF Moves, RowStep
<1>4. TickIds'
  <2> SUFFICES ASSUME NEW k \in Slots, ticks'[k].state # "free"
               PROVE  /\ ticks'[k].id \in 1..created'
                      /\ \A r \in Requests :
                            schedules'[r].id = ticks'[k].id => ticks'[k].request = r
    BY DEF TickIds, Live
  <2>1. CASE Live(k) /\ ticks'[k].request = ticks[k].request /\ ticks'[k].id = ticks[k].id
    <3>1. /\ ticks[k].id \in 1..created
          /\ \A r \in Requests : schedules[r].id = ticks[k].id => ticks[k].request = r
      BY <2>1 DEF Base, TickIds
    <3>2. QED
      BY <1>1, <1>3, <2>1, <3>1
  <2>2. CASE /\ ticks'[k].id \in 1..created'
             /\ schedules'[ticks'[k].request].id = ticks'[k].id
    <3>1. ticks'[k].request \in Requests /\ ticks'[k].id # NoId
      BY <1>1, <2>2 DEF Moves, TypeOK, Tick
    <3>2. QED
      BY <1>2, <2>2, <3>1 DEF RowIds
  <2>3. QED
    BY <2>1, <2>2 DEF Moves, TickStep
<1>5. CallIds'
  <2> SUFFICES ASSUME NEW c \in Customers, calls'[c] # NoCall
               PROVE  /\ calls'[c].id <= created'
                      /\ calls'[c].kind = "create" <=> calls'[c].id = NoId
                      /\ \A r \in Requests :
                            schedules'[r].id = calls'[c].id /\ calls'[c].id # NoId
                              => r = calls'[c].request
    BY DEF CallIds
  <2>1. CASE /\ calls[c] # NoCall /\ calls'[c].kind = calls[c].kind
             /\ calls'[c].request = calls[c].request /\ calls'[c].id = calls[c].id
    <3>1. /\ calls[c].id <= created
          /\ calls[c].kind = "create" <=> calls[c].id = NoId
          /\ \A r \in Requests :
                schedules[r].id = calls[c].id /\ calls[c].id # NoId => r = calls[c].request
      BY <2>1 DEF Base, CallIds
    <3>2. QED
      BY <1>1, <1>3, <2>1, <3>1
  <2>2. CASE /\ calls'[c].kind \in Kinds /\ calls'[c].id = schedules[calls'[c].request].id
             /\ calls'[c].kind = "create" <=> calls'[c].id = NoId
             /\ schedules' = schedules
    <3>1. calls'[c].request \in Requests
      BY <2>2 DEF Moves, TypeOK, Call, NoCall, Kinds
    <3>2. QED
      BY <1>1, <1>2, <2>2, <3>1 DEF RowIds
  <2>3. QED
    BY <2>1, <2>2 DEF Moves, CallStep
<1>6. OneChain'
  <2> SUFFICES ASSUME NEW k \in Slots, NEW l \in Slots, ticks'[k].state # "free",
                      ticks'[l].state # "free", ticks'[k].id = ticks'[l].id, k # l
               PROVE  FALSE
    BY DEF OneChain, Live
  <2>1. CASE /\ Live(k) /\ ticks'[k].id = ticks[k].id
             /\ Live(l) /\ ticks'[l].id = ticks[l].id
    BY <2>1 DEF Base, OneChain
  <2>2. ASSUME NEW a \in Slots, NEW b \in Slots, a # b, ~Live(a), ticks'[a].state # "free",
               ticks'[b].state # "free", ticks'[a].id = ticks'[b].id
        PROVE  FALSE
    <3>1. /\ \A x \in Slots : Live(x) => ticks[x].id # ticks'[a].id
          /\ \A x \in Slots \ {a} : ticks'[x] = ticks[x]
      BY <2>2 DEF Moves, TickStep
    <3>2. QED
      BY <2>2, <3>1 DEF Live
  <2>3. QED
    BY <2>1, <2>2 DEF Moves, TickStep
<1>7. QED
  BY <1>2, <1>4, <1>5, <1>6 DEF Base, Moves

-----------------------------------------------------------------------------
(***************************************************************************)
(* The whole invariant.                                                    *)
(***************************************************************************)

USE DEF Failing

FailingPlans == {"gone", "off", "foreign", "dark", "reseed"}

\* A tick: an enqueued one has an attempt left; one that found its schedule gone finds it
\* gone for ever; a hook never finds another tick of the schedule; one that decided to
\* fan out does so while the schedule it read is there and nothing runs.
TickSound(k) ==
    /\ ticks[k].state \in {"scheduled", "due"} => ticks[k].attempt < MaxAttempts
    /\ ticks[k].state \in Failing => ticks[k].plan \in FailingPlans
    /\ Live(k) /\ ticks[k].plan = "gone" => ~RowThere(k)
    /\ Live(k) /\ ticks[k].plan = "run" /\ RowThere(k) => runs[ticks[k].request] = 0
    /\ ~Live(k) => ticks[k].plan = "unread"

\* Outside the counting call's own row, fewer than Cap are enabled, and it holds the lock.
CountedSound(c) == calls[c].step = "counted" =>
    /\ calls[c].kind \in {"create", "resume"} /\ locked = c
    /\ EnabledCount({calls[c].id}) < Cap

Inv == /\ Base
       /\ \A k \in Slots : TickSound(k)
       /\ \A c \in Customers : CountedSound(c)
       /\ CapHolds /\ ScheduledRunsDoNotPileUp /\ ChainLostOnlyBy

\* The enabled schedules outside a set of ids.
Enabled(but) == {r \in Requests : schedules[r].enabled /\ schedules[r].id \notin but}

LEMMA EnabledIsFinite ==
    ASSUME NEW but
    PROVE  /\ IsFiniteSet(Enabled(but)) /\ IsFiniteSet(Enabled(but)')
           /\ Cardinality(Enabled(but)) \in Nat /\ Cardinality(Enabled(but)') \in Nat
           /\ EnabledCount(but) = Cardinality(Enabled(but))
<1>1. IsFiniteSet(Requests)
  BY ScheduleAssumption
<1>2. Enabled(but) \subseteq Requests /\ Enabled(but)' \subseteq Requests
  BY DEF Enabled
<1>3. IsFiniteSet(Enabled(but)) /\ IsFiniteSet(Enabled(but)')
  BY <1>1, <1>2, FS_Subset
<1>4. QED
  BY <1>3, FS_CardinalityType DEF EnabledCount, Enabled

\* A step that enables nothing keeps every count.
Shrinks == \A r \in Requests : schedules'[r].enabled => schedules'[r] = schedules[r]

LEMMA ShrinksCount ==
    ASSUME Inv, Moves, Shrinks,
           \A c \in Customers : \/ calls'[c].step # "counted"
                                \/ /\ calls'[c].kind = calls[c].kind
                                   /\ calls'[c].id = calls[c].id
                                   /\ calls[c].step = "counted" /\ locked' = locked
    PROVE  CapHolds' /\ \A c \in Customers : CountedSound(c)'
<1>1. ASSUME NEW but PROVE EnabledCount(but)' <= EnabledCount(but)
  <2>1. Enabled(but)' \subseteq Enabled(but)
    BY DEF Shrinks, Enabled
  <2>2. Cardinality(Enabled(but)') <= Cardinality(Enabled(but))
    BY <2>1, EnabledIsFinite, FS_Subset
  <2>3. EnabledCount(but)' = Cardinality(Enabled(but)')
    BY DEF EnabledCount, Enabled
  <2>4. QED
    BY <2>2, <2>3, EnabledIsFinite
<1>2. CapHolds'
  <2> DEFINE E == {r \in Requests : schedules[r].enabled}
  <2>1. E' \subseteq E /\ E \subseteq Requests
    BY DEF Shrinks
  <2>2. IsFiniteSet(E)
    BY <2>1, ScheduleAssumption, FS_Subset
  <2>3. Cardinality(E') <= Cardinality(E) /\ IsFiniteSet(E')
    BY <2>1, <2>2, FS_Subset
  <2>4. Cardinality(E') \in Nat /\ Cardinality(E) \in Nat /\ Cap \in Nat
    BY <2>2, <2>3, FS_CardinalityType, ScheduleAssumption
  <2>5. Cardinality(E) <= Cap
    BY DEF Inv, CapHolds
  <2>6. Cardinality(E') <= Cap
    <3> HIDE DEF E
    <3>1. QED
      BY <2>3, <2>4, <2>5
  <2>7. QED
    BY <2>6 DEF CapHolds
<1>3. ASSUME NEW c \in Customers PROVE CountedSound(c)'
  <2> SUFFICES ASSUME calls'[c].step = "counted"
               PROVE  /\ calls'[c].kind \in {"create", "resume"} /\ locked' = c
                      /\ EnabledCount({calls[c].id})' < Cap
    BY DEF CountedSound
  <2>1. /\ calls'[c].kind = calls[c].kind /\ calls'[c].id = calls[c].id
        /\ calls[c].step = "counted" /\ locked' = locked
    OBVIOUS
  <2>2. PICK i : i = calls[c].id
    OBVIOUS
  <2>3. EnabledCount({i}) < Cap /\ calls[c].kind \in {"create", "resume"} /\ locked = c
    BY <2>1, <2>2 DEF Inv, CountedSound
  <2>4. EnabledCount({i})' <= EnabledCount({i})
    BY <1>1
  <2>5. EnabledCount({i}) \in Nat /\ EnabledCount({i})' \in Nat
    <3>1. EnabledCount({i})' = Cardinality(Enabled({i})')
      BY DEF EnabledCount, Enabled
    <3>2. QED
      BY <3>1, EnabledIsFinite
  <2>6. EnabledCount({i})' < Cap
    BY <2>3, <2>4, <2>5, ScheduleAssumption
  <2>7. EnabledCount({calls[c].id})' = EnabledCount({i})'
    BY <2>1, <2>2
  <2>8. QED
    BY <2>1, <2>3, <2>6, <2>7
<1>4. QED
  BY <1>2, <1>3

-----------------------------------------------------------------------------
(***************************************************************************)
(* The steps of a tick.                                                    *)
(***************************************************************************)

Lost == [Ids -> Causes \cup {"none"}]

\* Tick k becomes x; the rows and the calls stay.
Becomes(k, x) ==
    /\ x \in Tick /\ ticks' = [ticks EXCEPT ![k] = x]
    /\ schedules' = schedules /\ calls' = calls /\ locked' = locked /\ created' = created

SoundAs(x, there, n) ==
    /\ x.state \in {"scheduled", "due"} => x.attempt < MaxAttempts
    /\ x.state \in Failing => x.plan \in FailingPlans
    /\ x.state # "free" /\ x.plan = "gone" => ~there
    /\ x.state # "free" /\ x.plan = "run" /\ there => n = 0

LEMMA SameRowsMove ==
    ASSUME Base, schedules' = schedules, created' = created
    PROVE  (\A r \in Requests : RowStep(r)) /\ Shrinks
BY DEF RowStep, Shrinks

LEMMA BecomesMoves ==
    ASSUME Inv, NEW k \in Slots, NEW x, Becomes(k, x),
           \/ x.state = "free"
           \/ Live(k) /\ x.request = ticks[k].request /\ x.id = ticks[k].id,
           runs' \in [Requests -> Nat], capability' \in BOOLEAN, faults' \in 0..MaxFaults,
           lost' \in Lost
    PROVE  /\ Moves /\ CapHolds' /\ (\A c \in Customers : CountedSound(c)')
           /\ ticks'[k] = x /\ \A l \in Slots \ {k} : ticks'[l] = ticks[l]
<1>1. ticks'[k] = x /\ (\A l \in Slots \ {k} : ticks'[l] = ticks[l]) /\ TypeOK'
  BY DEF Inv, Base, TypeOK, Becomes, Lost
<1>2. \A l \in Slots : TickStep(l)
  BY <1>1 DEF TickStep, Live
<1>3. \A c \in Customers : CallStep(c)
  BY CallFacts DEF CallStep, Becomes, Inv, Base
<1>4. Moves /\ Shrinks
  BY <1>1, <1>2, <1>3, SameRowsMove DEF Moves, Becomes, Inv
<1>5. CapHolds' /\ \A c \in Customers : CountedSound(c)'
  BY <1>4, ShrinksCount DEF Becomes
<1>6. QED
  BY <1>1, <1>4, <1>5

\* A tick goes on, or is followed by its successor in its place.
LEMMA GoesOn ==
    ASSUME Inv, NEW k \in Slots, NEW x, Becomes(k, x), Live(k), x.state # "free",
           x.request = ticks[k].request, x.id = ticks[k].id,
           SoundAs(x, RowThere(k), runs[ticks[k].request]),
           runs' = runs, capability' \in BOOLEAN, faults' \in 0..MaxFaults, lost' = lost
    PROVE  Inv'
<1>1. /\ Moves /\ CapHolds' /\ (\A c \in Customers : CountedSound(c)')
      /\ ticks'[k] = x /\ \A l \in Slots \ {k} : ticks'[l] = ticks[l]
  BY BecomesMoves DEF Inv, Base, TypeOK, Lost
<1>2. Base'
  BY <1>1, BaseStep DEF Inv
<1>3. TickSound(k)'
  BY <1>1 DEF TickSound, SoundAs, RowThere, Live, Becomes
<1>4. \A l \in Slots \ {k} : TickSound(l)'
  BY <1>1 DEF Inv, TickSound, RowThere, Live, Becomes
<1>5. ChainLostOnlyBy'
  <2> SUFFICES ASSUME NEW r \in Requests, schedules[r].enabled, OwnTicks(r)' = {}
               PROVE  lost[schedules[r].id] # "none"
    BY DEF ChainLostOnlyBy, Becomes
  <2>1. OwnTicks(r) = {}
    BY <1>1 DEF OwnTicks, LiveTicks, Live, Becomes
  <2>2. QED
    BY <2>1 DEF Inv, ChainLostOnlyBy
<1>6. ScheduledRunsDoNotPileUp'
  BY DEF Inv, ScheduledRunsDoNotPileUp
<1>7. QED
  BY <1>1, <1>2, <1>3, <1>4, <1>5, <1>6 DEF Inv

\* A tick ends without a successor, for a cause its schedule is recorded to have lost.
LEMMA Ends ==
    ASSUME Inv, NEW k \in Slots, Live(k), NEW cause \in Causes \cup {"none"},
           ChainEnds(k, cause), cause = "none" => ~RowThere(k),
           runs' = runs, schedules' = schedules, calls' = calls, locked' = locked,
           created' = created, capability' \in BOOLEAN, faults' \in 0..MaxFaults
    PROVE  Inv'
<1>1. Becomes(k, NoTick)
  BY NoTickIs DEF Becomes, ChainEnds
<1>2. /\ ticks[k].request \in Requests /\ ticks[k].id \in Ids \cup {NoId}
      /\ lost \in Lost
  BY TickFacts DEF Inv, Base, TypeOK, Lost
<1>3. ticks[k].id \in Ids
  BY <1>2, ScheduleAssumption DEF Inv, Base, TypeOK, TickIds, Ids
<1>4. lost' \in Lost
  BY <1>2, <1>3 DEF ChainEnds, LostTo, Lost
<1>5. /\ Moves /\ CapHolds' /\ (\A c \in Customers : CountedSound(c)')
      /\ ticks'[k] = NoTick /\ \A l \in Slots \ {k} : ticks'[l] = ticks[l]
  BY <1>1, <1>4, NoTickIs, BecomesMoves DEF Inv, Base, TypeOK
<1>6. Base'
  BY <1>5, BaseStep DEF Inv
<1>7. TickSound(k)'
  BY <1>5, NoTickIs DEF TickSound, Live
<1>8. \A l \in Slots \ {k} : TickSound(l)'
  BY <1>5 DEF Inv, TickSound, RowThere, Live
<1>9. ChainLostOnlyBy'
  <2> SUFFICES ASSUME NEW r \in Requests, schedules[r].enabled, OwnTicks(r)' = {}
               PROVE  lost'[schedules[r].id] # "none"
    BY DEF ChainLostOnlyBy
  <2>1. schedules[r].id \in Ids
    BY RowFacts, NoScheduleIs DEF Inv, Base
  <2>2. CASE OwnTicks(r) = {}
    <3>1. lost[schedules[r].id] # "none"
      BY <2>2 DEF Inv, ChainLostOnlyBy
    <3>2. CASE lost' = lost
      BY <3>1, <3>2
    <3>3. CASE lost' # lost
      <4>1. lost' = LostTo(ticks[k].id, cause) /\ RowThere(k)
        BY <3>3 DEF ChainEnds, RowThere
      <4>2. cause # "none"
        BY <4>1
      <4>3. QED
        BY <1>2, <2>1, <3>1, <4>1, <4>2 DEF LostTo, Lost
    <3>4. QED
      BY <3>2, <3>3
  <2>3. CASE OwnTicks(r) # {}
    <3>1. PICK l \in Slots : Live(l) /\ ticks[l].request = r /\ ticks[l].id = schedules[r].id
      BY <2>3 DEF OwnTicks, LiveTicks
    <3>2. l = k
      BY <1>5, <3>1 DEF OwnTicks, LiveTicks, Live
    <3>3. RowThere(k) /\ schedules[ticks[k].request].enabled
      BY <3>1, <3>2 DEF RowThere
    <3>4. lost' = LostTo(ticks[k].id, cause) /\ cause # "none"
      BY <3>3 DEF ChainEnds, RowThere
    <3>5. QED
      BY <1>2, <2>1, <3>1, <3>2, <3>4 DEF LostTo, Lost
  <2>4. QED
    BY <2>2, <2>3
<1>10. ScheduledRunsDoNotPileUp'
  BY DEF Inv, ScheduledRunsDoNotPileUp
<1>11. QED
  BY <1>5, <1>6, <1>7, <1>8, <1>9, <1>10 DEF Inv

LEMMA FaultIs ==
    ASSUME TypeOK, Fault
    PROVE  faults' \in 0..MaxFaults
BY ScheduleAssumption DEF TypeOK, Fault

LEMMA BecomeDueInv == ASSUME Inv, NEW k \in Slots, BecomeDue(k) PROVE Inv'
<1> DEFINE x == [ticks[k] EXCEPT !.state = "due", !.plan = "unread"]
<1>1. ticks[k] \in Tick /\ TickSound(k) /\ ticks[k].state = "scheduled"
  BY TickFacts DEF Inv, Base, BecomeDue
<1>2. /\ x \in Tick /\ x.state = "due" /\ x.plan = "unread" /\ x.request = ticks[k].request
      /\ x.id = ticks[k].id /\ x.attempt = ticks[k].attempt
  BY <1>1 DEF Tick, TickStates, Plans
<1>3. ticks' = [ticks EXCEPT ![k] = x]
  BY DEF BecomeDue, Become, Inv, Base, TypeOK
<1> HIDE DEF x
<1>4. Becomes(k, x) /\ Live(k)
  BY <1>1, <1>2, <1>3 DEF Becomes, BecomeDue, RowsUnchanged, Live
<1>5. SoundAs(x, RowThere(k), runs[ticks[k].request])
  BY <1>1, <1>2 DEF SoundAs, TickSound
<1>6. QED
  BY <1>2, <1>4, <1>5, GoesOn DEF BecomeDue, RowsUnchanged, Inv, Base, TypeOK

LEMMA ClaimInv == ASSUME Inv, NEW k \in Slots, Claim(k) PROVE Inv'
<1>1. ticks[k] \in Tick /\ TickSound(k) /\ ticks[k].state = "due"
  BY TickFacts DEF Inv, Base, Claim
<1>2. ticks[k].attempt + 1 \in 0..MaxAttempts
  BY <1>1, ScheduleAssumption DEF TickSound, Tick
<1> DEFINE x == [ticks[k] EXCEPT !.state = "running", !.attempt = ticks[k].attempt + 1]
<1>3. /\ x \in Tick /\ x.state = "running" /\ x.plan = ticks[k].plan
      /\ x.request = ticks[k].request /\ x.id = ticks[k].id
  BY <1>1, <1>2 DEF Tick, TickStates
<1>4. ticks' = [ticks EXCEPT ![k] = x]
  BY DEF Claim, Inv, Base, TypeOK
<1> HIDE DEF x
<1>5. Becomes(k, x) /\ Live(k)
  BY <1>1, <1>3, <1>4 DEF Becomes, Claim, RowsUnchanged, Live
<1>6. SoundAs(x, RowThere(k), runs[ticks[k].request])
  BY <1>1, <1>3, <1>5 DEF SoundAs, TickSound
<1>7. QED
  BY <1>3, <1>5, <1>6, GoesOn DEF Claim, RowsUnchanged, Inv, Base, TypeOK

LEMMA TickReadInv == ASSUME Inv, NEW k \in Slots, TickRead(k) PROVE Inv'
<1>1. ticks[k] \in Tick /\ ticks[k].state \in {"running", "cancelling"}
  BY TickFacts DEF Inv, Base, TickRead
<1>2. PICK plan \in (IF StopReason(ticks[k]) # {} THEN StopReason(ticks[k])
                     ELSE FanOuts(ticks[k].request)) :
        ticks' = [ticks EXCEPT ![k].plan = plan]
  BY DEF TickRead
<1>3. /\ plan \in Plans
      /\ plan = "gone" => ~RowThere(k)
      /\ plan = "run" => runs[ticks[k].request] = 0
  BY <1>2 DEF StopReason, FanOuts, Plans, RowThere
<1> DEFINE x == [ticks[k] EXCEPT !.plan = plan]
<1>4. /\ x \in Tick /\ x.state = ticks[k].state /\ x.plan = plan
      /\ x.request = ticks[k].request /\ x.id = ticks[k].id
  BY <1>1, <1>3 DEF Tick
<1>5. ticks' = [ticks EXCEPT ![k] = x]
  BY <1>2 DEF Inv, Base, TypeOK
<1> HIDE DEF x
<1>6. Becomes(k, x) /\ Live(k)
  BY <1>1, <1>4, <1>5 DEF Becomes, TickRead, RowsUnchanged, Live
<1>7. SoundAs(x, RowThere(k), runs[ticks[k].request])
  BY <1>1, <1>3, <1>4 DEF SoundAs
<1>8. QED
  BY <1>1, <1>4, <1>6, <1>7, GoesOn DEF TickRead, RowsUnchanged, Inv, Base, TypeOK

\* The successor in its predecessor's place.
LEMMA SuccessorIs ==
    ASSUME Inv, NEW k \in Slots, Live(k), Successor(k)
    PROVE  \E x \in Tick : /\ ticks' = [ticks EXCEPT ![k] = x] /\ x.state = "scheduled"
                           /\ x.request = ticks[k].request /\ x.id = ticks[k].id
                           /\ x.attempt = 0 /\ x.plan = "unread"
<1>1. ticks[k].request \in Requests /\ ticks[k].id \in Ids
  BY TickFacts, ScheduleAssumption DEF Inv, Base, TypeOK, TickIds, Ids
<1>2. PICK r \in Requests, id \in Ids : r = ticks[k].request /\ id = ticks[k].id
  BY <1>1
<1>3. PICK x : x = NewTick(r, id)
  OBVIOUS
<1>4. ticks' = [ticks EXCEPT ![k] = x]
  BY <1>2, <1>3 DEF Successor, Inv, Base, TypeOK
<1>5. /\ x \in Tick /\ x.state = "scheduled" /\ x.request = r /\ x.id = id
      /\ x.attempt = 0 /\ x.plan = "unread"
  BY <1>3, ScheduleAssumption DEF NewTick, Tick, TickStates, Plans
<1> x \in Tick
  BY <1>5
<1> WITNESS x \in Tick
<1>6. QED
  BY <1>2, <1>4, <1>5

LEMMA TickChainsInv == ASSUME Inv, NEW k \in Slots, TickChains(k) PROVE Inv'
<1>1. /\ ticks[k].plan \in {"run", "skip"} /\ RowThere(k) /\ Successor(k) /\ lost' = lost
      /\ schedules' = schedules /\ calls' = calls /\ locked' = locked /\ created' = created
      /\ capability' = capability /\ faults' = faults
  BY DEF TickChains, Successor
<1>2. Live(k) /\ TickSound(k)
  BY <1>1 DEF Inv, TickSound
<1>3. PICK r \in Requests : r = ticks[k].request
  BY TickFacts DEF Inv, Base
<1>4. runs[r] \in Nat /\ runs \in [Requests -> Nat] /\ runs[r] <= 1
  BY DEF Inv, Base, TypeOK, ScheduledRunsDoNotPileUp
<1>5. ticks[k].plan = "run" => runs[r] = 0
  BY <1>1, <1>2, <1>3 DEF TickSound
<1>6. /\ runs' \in [Requests -> Nat] /\ runs'[r] <= 1
      /\ \A q \in Requests \ {r} : runs'[q] = runs[q]
  <2>1. runs' = [runs EXCEPT ![r] = runs[r] + (IF ticks[k].plan = "run" THEN 1 ELSE 0)]
    BY <1>3, <1>4 DEF TickChains
  <2>2. CASE ticks[k].plan = "run"
    BY <1>4, <1>5, <2>1, <2>2
  <2>3. CASE ticks[k].plan # "run"
    BY <1>4, <2>1, <2>3
  <2>4. QED
    BY <2>2, <2>3
<1>7. PICK x \in Tick : /\ ticks' = [ticks EXCEPT ![k] = x] /\ x.state = "scheduled"
                        /\ x.request = ticks[k].request /\ x.id = ticks[k].id
                        /\ x.attempt = 0 /\ x.plan = "unread"
  BY <1>1, <1>2, SuccessorIs
<1>8. Becomes(k, x)
  BY <1>1, <1>7 DEF Becomes
<1>9. /\ Moves /\ CapHolds' /\ (\A c \in Customers : CountedSound(c)')
      /\ ticks'[k] = x /\ \A l \in Slots \ {k} : ticks'[l] = ticks[l]
  BY <1>1, <1>2, <1>6, <1>7, <1>8, BecomesMoves DEF Inv, Base, TypeOK, Lost
<1>10. Base'
  BY <1>9, BaseStep DEF Inv
<1>11. TickSound(k)'
  BY <1>7, <1>9, ScheduleAssumption DEF TickSound, Live
<1>12. ASSUME NEW l \in Slots \ {k} PROVE TickSound(l)'
  <2>1. ticks'[l] = ticks[l] /\ TickSound(l) /\ ticks[l].request \in Requests
    BY <1>9, TickFacts DEF Inv, Base
  <2>2. CASE ticks[l].request = r
    <3>1. ~(Live(l) /\ RowThere(l))
      BY <1>1, <1>2, <1>3, <2>2 DEF RowThere, Inv, Base, OneChain
    <3>2. QED
      BY <1>1, <2>1, <3>1 DEF TickSound, RowThere, Live
  <2>3. CASE ticks[l].request # r
    BY <1>1, <1>6, <2>1, <2>3 DEF TickSound, RowThere, Live
  <2>4. QED
    BY <2>2, <2>3
<1>13. ChainLostOnlyBy'
  <2> SUFFICES ASSUME NEW q \in Requests, schedules[q].enabled, OwnTicks(q)' = {}
               PROVE  lost[schedules[q].id] # "none"
    BY <1>1 DEF ChainLostOnlyBy
  <2>1. OwnTicks(q) = {}
    BY <1>1, <1>2, <1>7, <1>9 DEF OwnTicks, LiveTicks, Live
  <2>2. QED
    BY <2>1 DEF Inv, ChainLostOnlyBy
<1>14. ScheduledRunsDoNotPileUp'
  BY <1>6 DEF Inv, ScheduledRunsDoNotPileUp
<1>15. QED
  BY <1>9, <1>10, <1>11, <1>12, <1>13, <1>14 DEF Inv

LEMMA TickStopsInv == ASSUME Inv, NEW k \in Slots, TickStops(k) PROVE Inv'
<1>1. /\ ticks[k].state \in {"running", "cancelling"}
      /\ ticks[k].plan \in {"gone", "dark", "off", "cancelled"}
      /\ ChainEnds(k, CauseOf(ticks[k].plan))
  BY DEF TickStops
<1>2. Live(k) /\ (ticks[k].plan = "gone" => ~RowThere(k))
  BY <1>1 DEF Live, Inv, TickSound
<1>3. /\ CauseOf(ticks[k].plan) \in Causes \cup {"none"}
      /\ CauseOf(ticks[k].plan) = "none" => ticks[k].plan = "gone"
  BY <1>1 DEF CauseOf, Causes
<1>4. QED
  BY <1>1, <1>2, <1>3, Ends DEF TickStops, RowsUnchanged, Inv, Base, TypeOK

\* The hook finds no other tick of the schedule, for there is none.
LEMMA HookPlanIs ==
    ASSUME Inv, NEW k \in Slots, Live(k)
    PROVE  /\ HookPlan(k) \in FailingPlans
           /\ HookPlan(k) = "gone" => ~RowThere(k)
<1> DEFINE r == ticks[k].request
           others == PendingTicks(r) \ {k}
<1>1. CASE ~RowThere(k)
  BY <1>1 DEF HookPlan, FailingPlans
<1>2. CASE RowThere(k)
  <2>1. others \cap OwnTicks(r) = {}
    BY <1>2 DEF RowThere, PendingTicks, LiveTicks, OwnTicks, Inv, Base, OneChain
  <2>2. QED
    BY <1>2, <2>1 DEF HookPlan, FailingPlans
<1>3. QED
  BY <1>1, <1>2

LEMMA AttemptFailsInv ==
    ASSUME Inv, NEW k \in Slots, Live(k), AttemptFails(k), RowsUnchanged,
           capability' = capability, faults' \in 0..MaxFaults, lost' = lost
    PROVE  Inv'
<1>1. ticks[k] \in Tick /\ TickSound(k)
  BY TickFacts DEF Inv, Base
<1>2. CASE AttemptLeft(k)
  <2> DEFINE x == [ticks[k] EXCEPT !.state = "due", !.plan = "unread"]
  <2>1. /\ x \in Tick /\ x.state = "due" /\ x.plan = "unread"
        /\ x.request = ticks[k].request /\ x.id = ticks[k].id /\ x.attempt = ticks[k].attempt
    BY <1>1 DEF Tick, TickStates, Plans
  <2>2. ticks' = [ticks EXCEPT ![k] = x]
    BY <1>2 DEF AttemptFails, Inv, Base, TypeOK
  <2> HIDE DEF x
  <2>3. Becomes(k, x)
    BY <2>1, <2>2 DEF Becomes, RowsUnchanged
  <2>4. SoundAs(x, RowThere(k), runs[ticks[k].request])
    BY <1>2, <2>1 DEF SoundAs, AttemptLeft
  <2>5. QED
    BY <2>1, <2>3, <2>4, GoesOn DEF RowsUnchanged, Inv, Base, TypeOK
<1>3. CASE ~AttemptLeft(k)
  <2>1. PICK plan \in FailingPlans : plan = HookPlan(k) /\ (plan = "gone" => ~RowThere(k))
    BY HookPlanIs
  <2>2. HookPlan(k) \in Plans
    BY <2>1 DEF Plans, FailingPlans
  <2> DEFINE x == [ticks[k] EXCEPT !.state = IF ticks[k].state = "cancelling"
                                         THEN "asked_failing" ELSE "failing",
                                   !.plan = HookPlan(k)]
  <2>3. /\ x \in Tick /\ x.state \in Failing /\ x.plan = plan
        /\ x.request = ticks[k].request /\ x.id = ticks[k].id
    BY <1>1, <2>1, <2>2 DEF Tick, TickStates
  <2>4. ticks' = [ticks EXCEPT ![k] = x]
    BY <1>3 DEF AttemptFails, Inv, Base, TypeOK
  <2> HIDE DEF x
  <2>5. Becomes(k, x)
    BY <2>3, <2>4 DEF Becomes, RowsUnchanged
  <2>6. SoundAs(x, RowThere(k), runs[ticks[k].request])
    BY <2>1, <2>3 DEF SoundAs, FailingPlans
  <2>7. QED
    BY <2>3, <2>5, <2>6, GoesOn DEF RowsUnchanged, Inv, Base, TypeOK
<1>4. QED
  BY <1>2, <1>3

LEMMA TickRaisesInv == ASSUME Inv, NEW k \in Slots, TickRaises(k) PROVE Inv'
<1>1. Live(k) /\ faults' \in 0..MaxFaults
  BY FaultIs DEF TickRaises, Live, Inv, Base, TypeOK
<1>2. QED
  BY <1>1, AttemptFailsInv DEF TickRaises

LEMMA RecoverInv == ASSUME Inv, NEW k \in Slots, Recover(k) PROVE Inv'
<1>1. Live(k) /\ faults' \in 0..MaxFaults
  BY DEF Recover, Recoverable, Live, Inv, Base, TypeOK
<1>2. QED
  BY <1>1, AttemptFailsInv DEF Recover

LEMMA CrashInv == ASSUME Inv, NEW k \in Slots, Crash(k) PROVE Inv'
<1> DEFINE s == IF ticks[k].state \in {"cancelling", "asked_failing"} THEN "stuck" ELSE "abandoned"
           x == [ticks[k] EXCEPT !.state = s, !.plan = "unread"]
<1>1. ticks[k] \in Tick /\ Live(k) /\ faults' \in 0..MaxFaults
  BY TickFacts, FaultIs DEF Inv, Base, Crash, Live
<1>2. /\ x \in Tick /\ x.state \in {"stuck", "abandoned"} /\ x.plan = "unread"
      /\ x.request = ticks[k].request /\ x.id = ticks[k].id
  BY <1>1 DEF Tick, TickStates, Plans
<1>3. ticks' = [ticks EXCEPT ![k] = x]
  BY DEF Crash, Become, Inv, Base, TypeOK
<1> HIDE DEF x
<1>4. Becomes(k, x)
  BY <1>2, <1>3 DEF Becomes, Crash, RowsUnchanged
<1>5. SoundAs(x, RowThere(k), runs[ticks[k].request])
  BY <1>2 DEF SoundAs
<1>6. QED
  BY <1>1, <1>2, <1>4, <1>5, GoesOn DEF Crash, RowsUnchanged, Inv, Base, TypeOK

LEMMA TickFailsInv == ASSUME Inv, NEW k \in Slots, TickFails(k) PROVE Inv'
<1>1. /\ ticks[k].state \in Failing /\ Live(k) /\ ticks[k].plan \in FailingPlans
      /\ ticks[k].plan = "gone" => ~RowThere(k)
  BY DEF TickFails, Inv, TickSound, Live
<1>2. CASE HookReseeds(k)
  <2>1. Successor(k) /\ lost' = lost
    BY <1>2 DEF TickFails, Successor
  <2>2. PICK x \in Tick : /\ ticks' = [ticks EXCEPT ![k] = x] /\ x.state = "scheduled"
                          /\ x.request = ticks[k].request /\ x.id = ticks[k].id
                          /\ x.attempt = 0 /\ x.plan = "unread"
    BY <1>1, <2>1, SuccessorIs
  <2>3. Becomes(k, x)
    BY <2>2 DEF Becomes, TickFails, RowsUnchanged
  <2>4. SoundAs(x, RowThere(k), runs[ticks[k].request])
    BY <2>2, ScheduleAssumption DEF SoundAs
  <2>5. QED
    BY <1>1, <2>1, <2>2, <2>3, <2>4, GoesOn DEF TickFails, RowsUnchanged, Inv, Base, TypeOK
<1>3. CASE ~HookReseeds(k)
  <2>1. ChainEnds(k, CauseOf(ticks[k].plan))
    BY <1>3 DEF TickFails
  <2>2. /\ CauseOf(ticks[k].plan) \in Causes \cup {"none"}
        /\ CauseOf(ticks[k].plan) = "none" => ticks[k].plan \in {"gone", "reseed"}
    BY <1>1 DEF CauseOf, Causes, FailingPlans
  <2>3. CauseOf(ticks[k].plan) = "none" => ~RowThere(k)
    BY <1>1, <1>3, <2>2 DEF HookReseeds
  <2>4. QED
    BY <1>1, <2>1, <2>2, <2>3, Ends DEF TickFails, RowsUnchanged, Inv, Base, TypeOK
<1>4. QED
  BY <1>2, <1>3

LEMMA HookRaisesInv == ASSUME Inv, NEW k \in Slots, HookRaises(k) PROVE Inv'
<1>1. Live(k) /\ "hook" \in Causes \cup {"none"} /\ faults' \in 0..MaxFaults
  BY FaultIs DEF HookRaises, Live, Causes, Inv, Base
<1>2. QED
  BY <1>1, Ends DEF HookRaises, RowsUnchanged, Inv, Base, TypeOK

LEMMA CancelTickInv == ASSUME Inv, NEW k \in Slots, CancelTick(k) PROVE Inv'
<1>1. faults' \in 0..MaxFaults /\ ticks[k] \in Tick /\ TickSound(k)
  BY FaultIs, TickFacts DEF CancelTick, Inv, Base
<1>2. CASE ticks[k].state \in {"scheduled", "due"} /\ ChainEnds(k, "cancelled")
  <2>1. Live(k) /\ "cancelled" \in Causes \cup {"none"}
    BY <1>2 DEF Live, Causes
  <2>2. QED
    BY <1>1, <1>2, <2>1, Ends DEF CancelTick, RowsUnchanged, Inv, Base, TypeOK
<1>3. CASE /\ ticks[k].state \in {"running", "abandoned"}
           /\ ticks' = [ticks EXCEPT ![k].asked = TRUE,
                          ![k].state = IF @ = "running" THEN "cancelling" ELSE "stuck"]
           /\ UNCHANGED lost
  <2> DEFINE s == IF ticks[k].state = "running" THEN "cancelling" ELSE "stuck"
             x == [ticks[k] EXCEPT !.asked = TRUE, !.state = s]
  <2>1. /\ x \in Tick /\ x.state \in {"cancelling", "stuck"} /\ x.plan = ticks[k].plan
        /\ x.request = ticks[k].request /\ x.id = ticks[k].id
    BY <1>1 DEF Tick, TickStates
  <2>2. ticks' = [ticks EXCEPT ![k] = x]
    BY <1>1, <1>3 DEF Inv, Base, TypeOK, Tick
  <2> HIDE DEF x
  <2>3. Becomes(k, x) /\ Live(k)
    BY <1>3, <2>1, <2>2 DEF Becomes, CancelTick, RowsUnchanged, Live
  <2>4. SoundAs(x, RowThere(k), runs[ticks[k].request])
    BY <1>1, <2>1, <2>3 DEF SoundAs, TickSound
  <2>5. QED
    BY <1>1, <1>3, <2>1, <2>3, <2>4, GoesOn DEF CancelTick, RowsUnchanged, Inv, Base, TypeOK
<1>4. QED
  BY <1>2, <1>3 DEF CancelTick

LEMMA RunEndsInv == ASSUME Inv, NEW r \in Requests, RunEnds(r) PROVE Inv'
<1>1. runs \in [Requests -> Nat] /\ runs[r] \in Nat /\ runs[r] > 0
  BY DEF RunEnds, Inv, Base, TypeOK
<1>2. /\ runs' \in [Requests -> Nat] /\ runs'[r] <= runs[r]
      /\ \A q \in Requests \ {r} : runs'[q] = runs[q]
  <2>1. runs' = [runs EXCEPT ![r] = runs[r] - 1]
    BY <1>1 DEF RunEnds
  <2>2. QED
    BY <1>1, <2>1
<1>3. TypeOK'
  BY <1>2 DEF RunEnds, Inv, Base, TypeOK
<1>4. Base'
  BY <1>3 DEF RunEnds, Inv, Base, RowIds, TickIds, CallIds, OneChain, Live
<1>5. ASSUME NEW k \in Slots PROVE TickSound(k)'
  <2>1. TickSound(k) /\ ticks[k].request \in Requests
    BY TickFacts DEF Inv, Base
  <2>2. runs[ticks[k].request] = 0 => runs'[ticks[k].request] = 0
    BY <1>1, <1>2, <2>1
  <2>3. QED
    BY <2>1, <2>2 DEF RunEnds, TickSound, RowThere, Live
<1>6. \A c \in Customers : CountedSound(c)'
  BY DEF RunEnds, Inv, CountedSound, EnabledCount
<1>7. CapHolds' /\ ChainLostOnlyBy'
  BY DEF RunEnds, Inv, CapHolds, ChainLostOnlyBy, OwnTicks, LiveTicks, Live
<1>8. ScheduledRunsDoNotPileUp'
  BY <1>1, <1>2 DEF Inv, ScheduledRunsDoNotPileUp
<1>9. QED
  BY <1>4, <1>5, <1>6, <1>7, <1>8 DEF Inv

LEMMA CapabilityChangesInv == ASSUME Inv, CapabilityChanges PROVE Inv'
<1>1. faults' \in 0..MaxFaults /\ capability' \in BOOLEAN
  BY FaultIs DEF CapabilityChanges, Inv, Base, TypeOK
<1>2. Base'
  BY <1>1 DEF CapabilityChanges, RowsUnchanged, Inv, Base, TypeOK, RowIds, TickIds, CallIds,
              OneChain, Live
<1>3. \A k \in Slots : TickSound(k)'
  BY DEF CapabilityChanges, RowsUnchanged, Inv, TickSound, RowThere, Live
<1>4. \A c \in Customers : CountedSound(c)'
  BY DEF CapabilityChanges, RowsUnchanged, Inv, CountedSound, EnabledCount
<1>5. CapHolds' /\ ChainLostOnlyBy' /\ ScheduledRunsDoNotPileUp'
  BY DEF CapabilityChanges, RowsUnchanged, Inv, CapHolds, ChainLostOnlyBy,
         ScheduledRunsDoNotPileUp, OwnTicks, LiveTicks, Live
<1>6. QED
  BY <1>2, <1>3, <1>4, <1>5 DEF Inv

-----------------------------------------------------------------------------
(***************************************************************************)
(* The steps of a call.                                                    *)
(***************************************************************************)

\* A call ends: nobody else's count is disturbed, for nobody else holds the lock.
LEMMA ClosesMoves ==
    ASSUME Inv, NEW c \in Customers, Closes(c)
    PROVE  /\ calls' \in [Customers -> Call \cup {NoCall}]
           /\ locked' \in Customers \cup {Nobody}
           /\ \A d \in Customers : CallStep(d)
           /\ \A d \in Customers : \/ calls'[d].step # "counted"
                                   \/ /\ calls'[d].kind = calls[d].kind
                                      /\ calls'[d].id = calls[d].id
                                      /\ calls[d].step = "counted" /\ locked' = locked
           /\ \A d \in Customers : locked = c => calls'[d].step # "counted"
<1>1. /\ calls \in [Customers -> Call \cup {NoCall}] /\ locked \in Customers \cup {Nobody}
      /\ calls' = [calls EXCEPT ![c] = NoCall]
      /\ locked' = IF locked = c THEN Nobody ELSE locked
  BY DEF Inv, Base, TypeOK, Closes, Unlocked
<1>2. calls'[c] = NoCall /\ \A d \in Customers \ {c} : calls'[d] = calls[d]
  BY <1>1
<1>3. \A d \in Customers : CallStep(d)
  BY <1>2 DEF CallStep
<1>4. NoCall.step # "counted"
  BY DEF NoCall
<1>5. \A d \in Customers : calls[d].step = "counted" => locked = d
  BY DEF Inv, CountedSound
<1>6. QED
  BY <1>1, <1>2, <1>3, <1>4, <1>5

\* A step of a call that leaves every row, tick and run alone.
LEMMA CallOnly ==
    ASSUME Inv, NEW c \in Customers,
           UNCHANGED <<schedules, ticks, runs, capability, created, faults, lost>>,
           calls' \in [Customers -> Call \cup {NoCall}], locked' \in Customers \cup {Nobody},
           \A d \in Customers : CallStep(d), \A d \in Customers : CountedSound(d)'
    PROVE  Inv'
<1>1. TypeOK'
  BY DEF Inv, Base, TypeOK
<1>2. \A k \in Slots : TickStep(k)
  BY DEF TickStep, Live
<1>3. Moves
  BY <1>1, <1>2, SameRowsMove DEF Inv, Moves
<1>4. Base'
  BY <1>3, BaseStep DEF Inv
<1>5. \A k \in Slots : TickSound(k)'
  BY DEF Inv, TickSound, RowThere, Live
<1>6. CapHolds' /\ ChainLostOnlyBy' /\ ScheduledRunsDoNotPileUp'
  BY DEF Inv, CapHolds, ChainLostOnlyBy, ScheduledRunsDoNotPileUp, OwnTicks, LiveTicks, Live
<1>7. QED
  BY <1>4, <1>5, <1>6 DEF Inv

LEMMA CallReadsInv == ASSUME Inv, NEW c \in Customers, CallReads(c) PROVE Inv'
<1>1. /\ calls[c] = NoCall
      /\ UNCHANGED <<schedules, ticks, runs, locked, capability, created, faults, lost>>
  BY DEF CallReads
<1>2. PICK r \in Requests, kind \in Kinds :
        /\ Opens(c, kind, r)
        /\ kind = "create" <=> schedules[r].id = NoId
  <2>1. \A r \in Requests : schedules[r].enabled => schedules[r].id # NoId
    BY RowFacts, NoScheduleIs DEF Inv, Base
  <2>2. QED
    BY <2>1 DEF CallReads, Kinds
<1>3. PICK x : x = [kind |-> kind, step |-> "read", request |-> r,
                    id |-> schedules[r].id, enabled |-> schedules[r].enabled]
  OBVIOUS
<1>4. /\ x \in Call /\ x.kind = kind /\ x.step = "read" /\ x.request = r
      /\ x.id = schedules[r].id
  BY <1>3, RowFacts DEF Call, Inv, Base
<1>5. calls' = [calls EXCEPT ![c] = x] /\ calls \in [Customers -> Call \cup {NoCall}]
  BY <1>2, <1>3 DEF Opens, Inv, Base, TypeOK
<1>6. calls'[c] = x /\ \A d \in Customers \ {c} : calls'[d] = calls[d]
  BY <1>5
<1>7. \A d \in Customers : CallStep(d)
  BY <1>1, <1>2, <1>4, <1>6 DEF CallStep
<1>8. \A d \in Customers : CountedSound(d)'
  BY <1>1, <1>4, <1>6 DEF Inv, CountedSound, EnabledCount
<1>9. QED
  BY <1>1, <1>4, <1>5, <1>7, <1>8, CallOnly DEF Inv, Base, TypeOK

LEMMA CallCountsInv == ASSUME Inv, NEW c \in Customers, CallCounts(c) PROVE Inv'
<1>1. /\ calls[c].kind \in {"create", "resume"} /\ locked = Nobody /\ locked' = c
      /\ EnabledCount({calls[c].id}) < Cap
      /\ calls' = [calls EXCEPT ![c].step = "counted"]
      /\ UNCHANGED <<schedules, ticks, runs, capability, created, faults, lost>>
  BY DEF CallCounts, Locked
<1>2. calls[c] \in Call /\ calls \in [Customers -> Call \cup {NoCall}]
  BY <1>1, CallFacts DEF Inv, Base, TypeOK, Kinds
<1> DEFINE x == [calls[c] EXCEPT !.step = "counted"]
<1>3. /\ x \in Call /\ x.kind = calls[c].kind /\ x.request = calls[c].request
      /\ x.id = calls[c].id
  BY <1>2 DEF Call
<1>4. calls' = [calls EXCEPT ![c] = x]
  BY <1>1, <1>2
<1> HIDE DEF x
<1>5. calls'[c] = x /\ \A d \in Customers \ {c} : calls'[d] = calls[d]
  BY <1>2, <1>4
<1>6. \A d \in Customers : CallStep(d)
  BY <1>1, <1>2, <1>3, <1>5, CallFacts DEF CallStep, Inv, Base, Kinds
<1>7. \A d \in Customers \ {c} : calls'[d].step # "counted"
  BY <1>1, <1>5, ScheduleAssumption DEF Inv, CountedSound
<1>8. CountedSound(c)'
  <2>1. EnabledCount({calls[c].id})' = EnabledCount({calls[c].id})
    BY <1>1, <1>3, <1>5 DEF EnabledCount
  <2>2. QED
    BY <1>1, <1>3, <1>5, <2>1 DEF CountedSound
<1>9. \A d \in Customers : CountedSound(d)'
  BY <1>7, <1>8 DEF CountedSound
<1>10. QED
  BY <1>1, <1>2, <1>3, <1>4, <1>6, <1>9, CallOnly

LEMMA CallRefusedInv == ASSUME Inv, NEW c \in Customers, CallRefused(c) PROVE Inv'
<1>1. /\ Closes(c)
      /\ UNCHANGED <<schedules, ticks, runs, capability, created, faults, lost>>
  BY DEF CallRefused
<1>2. \A d \in Customers : CountedSound(d)'
  <2> SUFFICES ASSUME NEW d \in Customers, calls'[d].step = "counted"
               PROVE  /\ calls'[d].kind \in {"create", "resume"} /\ locked' = d
                      /\ EnabledCount({calls[d].id})' < Cap
    BY DEF CountedSound
  <2>1. /\ calls'[d].kind = calls[d].kind /\ calls'[d].id = calls[d].id
        /\ calls[d].step = "counted" /\ locked' = locked
    BY <1>1, ClosesMoves
  <2>2. EnabledCount({calls[d].id})' = EnabledCount({calls[d].id})
    BY <1>1, <2>1 DEF EnabledCount
  <2>3. QED
    BY <2>1, <2>2 DEF Inv, CountedSound
<1>3. QED
  BY <1>1, <1>2, ClosesMoves, CallOnly

\* A call commits: one row changes, at most a tick is seeded, and of the causes recorded
\* only the one of the row's id changes.
LEMMA Commits ==
    ASSUME Inv, Moves, NEW r \in Requests, NEW i \in Ids, runs' = runs,
           \A q \in Requests \ {r} : schedules'[q] = schedules[q],
           \A q \in Requests \ {r} : schedules[q].id # i,
           \A j \in Ids \ {i} : lost'[j] = lost[j],
           \A k \in Slots : \/ ticks'[k] = ticks[k]
                            \/ /\ ~Live(k) /\ ticks'[k].plan = "unread"
                               /\ ticks'[k].attempt = 0 /\ ticks'[k].state = "scheduled",
           schedules'[r].enabled /\ OwnTicks(r)' = {} => lost'[schedules'[r].id] # "none",
           CapHolds', \A c \in Customers : CountedSound(c)'
    PROVE  Inv'
<1>1. Base'
  BY BaseStep DEF Inv
<1>2. ASSUME NEW k \in Slots PROVE TickSound(k)'
  <2>1. CASE ticks'[k] = ticks[k] /\ Live(k)
    <3>1. /\ ticks[k].id \in 1..created /\ ticks[k].request \in Requests /\ TickSound(k)
          /\ created \in Nat
      BY <2>1, TickFacts, Counts DEF Inv, Base, TickIds, Moves
    <3>2. RowThere(k)' => RowThere(k)
      BY <2>1, <3>1 DEF Moves, RowStep, RowThere, NoId
    <3>3. QED
      BY <2>1, <3>1, <3>2 DEF TickSound, Live
  <2>2. CASE ticks'[k] = ticks[k] /\ ~Live(k)
    BY <2>2 DEF Inv, TickSound, Live
  <2>3. CASE /\ ticks'[k].plan = "unread" /\ ticks'[k].attempt = 0
             /\ ticks'[k].state = "scheduled"
    BY <2>3, ScheduleAssumption DEF TickSound, Live
  <2>4. QED
    BY <2>1, <2>2, <2>3
<1>3. ChainLostOnlyBy'
  <2> SUFFICES ASSUME NEW q \in Requests, schedules'[q].enabled, OwnTicks(q)' = {}
               PROVE  lost'[schedules'[q].id] # "none"
    BY DEF ChainLostOnlyBy
  <2>1. CASE q = r
    BY <2>1
  <2>2. CASE q # r
    <3>1. schedules'[q] = schedules[q] /\ schedules[q].id # i
      BY <2>2
    <3>2. OwnTicks(q) = {}
      BY <3>1 DEF OwnTicks, LiveTicks, Live
    <3>3. lost[schedules[q].id] # "none" /\ schedules[q].id \in Ids
      BY <3>1, <3>2, RowFacts, NoScheduleIs DEF Inv, Base, ChainLostOnlyBy
    <3>4. QED
      BY <3>1, <3>3
  <2>3. QED
    BY <2>1, <2>2
<1>4. ScheduledRunsDoNotPileUp'
  BY DEF Inv, ScheduledRunsDoNotPileUp
<1>5. QED
  BY <1>1, <1>2, <1>3, <1>4 DEF Inv

\* The row a commit writes is the one its call loaded, and no other has its id.
LEMMA LoadedRow ==
    ASSUME Inv, NEW c \in Customers, calls[c].kind \in Kinds
    PROVE  /\ calls[c].request \in Requests /\ calls[c].id \in Ids \cup {NoId}
           /\ calls[c].kind = "create" <=> calls[c].id = NoId
           /\ \A q \in Requests :
                 schedules[q].id = calls[c].id /\ calls[c].id # NoId => q = calls[c].request
BY CallFacts DEF Inv, Base, CallIds

\* One row of a counting call may become enabled.
LEMMA CountedEnables ==
    ASSUME Inv, NEW c \in Customers, calls[c].step = "counted", RowLoaded(c),
           \A q \in Requests \ {calls[c].request} : schedules'[q] = schedules[q]
    PROVE  CapHolds'
<1>1. /\ calls[c].kind \in {"create", "resume"} /\ EnabledCount({calls[c].id}) < Cap
  BY DEF Inv, CountedSound
<1>2. PICK r \in Requests, i \in Ids \cup {NoId} : r = calls[c].request /\ i = calls[c].id
  BY <1>1, LoadedRow DEF Kinds
<1> DEFINE E == {q \in Requests : schedules'[q].enabled}
<1>3. E \subseteq Enabled({i}) \cup {r}
  <2> SUFFICES ASSUME NEW q \in Requests, schedules'[q].enabled, q # r
               PROVE  schedules[q].enabled /\ schedules[q].id # i
    BY DEF Enabled
  <2>1. schedules[q].enabled /\ schedules[q].id # NoId
    BY <1>2, RowFacts, NoScheduleIs DEF Inv, Base
  <2>2. schedules[q].id = i => i = NoId
    BY <1>1, <1>2, LoadedRow DEF Kinds
  <2>3. QED
    BY <2>1, <2>2
<1>4. Cardinality(Enabled({i})) < Cap /\ IsFiniteSet(Enabled({i}))
  BY <1>1, <1>2, EnabledIsFinite
<1>5. /\ IsFiniteSet(Enabled({i}) \cup {r})
      /\ Cardinality(Enabled({i}) \cup {r}) <= Cardinality(Enabled({i})) + 1
  <2> DEFINE F == Enabled({i})
  <2>1. IsFiniteSet(F) /\ Cardinality(F) \in Nat
    BY <1>4, FS_CardinalityType
  <2> HIDE DEF F
  <2>2. /\ IsFiniteSet(F \cup {r})
        /\ Cardinality(F \cup {r}) = IF r \in F THEN Cardinality(F) ELSE Cardinality(F) + 1
    BY <2>1, FS_AddElement
  <2>3. IsFiniteSet(F \cup {r}) /\ Cardinality(F \cup {r}) <= Cardinality(F) + 1
    BY <2>1, <2>2
  <2>4. QED
    BY <2>3 DEF F
<1>6. Cardinality(E) <= Cardinality(Enabled({i}) \cup {r}) /\ IsFiniteSet(E)
  BY <1>3, <1>5, FS_Subset
<1>7. Cardinality(E) <= Cap
  <2> HIDE DEF E
  <2>1. /\ Cardinality(E) \in Nat /\ Cardinality(Enabled({i}) \cup {r}) \in Nat
        /\ Cardinality(Enabled({i})) \in Nat /\ Cap \in Nat
    BY <1>4, <1>5, <1>6, FS_CardinalityType, ScheduleAssumption
  <2>2. QED
    BY <1>4, <1>5, <1>6, <2>1
<1>8. QED
  BY <1>7 DEF CapHolds

LEMMA CreateCommitsInv == ASSUME Inv, NEW c \in Customers, CreateCommits(c) PROVE Inv'
<1>1. /\ calls[c].kind = "create" /\ calls[c].step = "counted" /\ RowLoaded(c) /\ Closes(c)
      /\ created < MaxSchedules /\ created' = created + 1
      /\ UNCHANGED <<runs, capability, faults>>
  BY DEF CreateCommits
<1>2. PICK r \in Requests : r = calls[c].request
  BY <1>1, LoadedRow DEF Kinds
<1>3. created \in Nat /\ created <= MaxSchedules /\ MaxSchedules \in Nat
  BY ScheduleAssumption DEF Inv, Base, TypeOK
<1>4. PICK i \in Ids : i = created + 1
  BY <1>1, <1>3 DEF Ids
<1>5. /\ schedules[r].id = NoId
      /\ schedules' = [schedules EXCEPT ![r] = [id |-> i, enabled |-> TRUE]]
  BY <1>1, <1>2, <1>4, LoadedRow DEF CreateCommits, RowLoaded, Kinds
<1>6. /\ schedules' \in [Requests -> Schedule \cup {NoSchedule}]
      /\ schedules'[r].id = i /\ schedules'[r].enabled
      /\ \A q \in Requests \ {r} : schedules'[q] = schedules[q]
  <2>1. schedules \in [Requests -> Schedule \cup {NoSchedule}]
    BY DEF Inv, Base, TypeOK
  <2>0. PICK row : row = [id |-> i, enabled |-> TRUE]
    OBVIOUS
  <2>2. row = [id |-> i, enabled |-> TRUE] /\ row \in Schedule /\ row.id = i /\ row.enabled
    BY <2>0 DEF Schedule
  <2>3. QED
    BY <1>5, <2>1, <2>2
<1>7. \A q \in Requests : schedules[q].id # i
  BY <1>3, <1>4, RowFacts DEF Inv, Base, RowIds
<1>8. \A k \in Slots : Live(k) => ticks[k].id # i
  BY <1>3, <1>4 DEF Inv, Base, TickIds
<1>9. /\ ticks' \in [Slots -> Tick] /\ lost' \in Lost
      /\ \A j \in Ids \ {i} : lost'[j] = lost[j]
      /\ \A k \in Slots : TickStep(k)
      /\ \A k \in Slots : \/ ticks'[k] = ticks[k]
                          \/ /\ ~Live(k) /\ ticks'[k].plan = "unread"
                             /\ ticks'[k].attempt = 0 /\ ticks'[k].state = "scheduled"
      /\ OwnTicks(r)' = {} => lost'[i] # "none"
  <2>1. ticks \in [Slots -> Tick] /\ lost \in Lost
    BY DEF Inv, Base, TypeOK, Lost
  <2>2. CASE capability
    <3>1. Seeds(r, i) /\ lost' = lost
      BY <1>2, <1>4, <2>2 DEF CreateCommits
    <3>2. PICK k \in Slots : ~Live(k) /\ ticks' = [ticks EXCEPT ![k] = NewTick(r, i)]
      BY <3>1 DEF Seeds, FreeSlots
    <3>0. PICK x : x = NewTick(r, i)
      OBVIOUS
    <3>3. /\ x = NewTick(r, i) /\ x \in Tick /\ x.state = "scheduled" /\ x.request = r
          /\ x.id = i /\ x.attempt = 0 /\ x.plan = "unread"
      BY <3>0, ScheduleAssumption DEF NewTick, Tick, TickStates, Plans
    <3>4. ticks'[k] = x /\ \A l \in Slots \ {k} : ticks'[l] = ticks[l]
      BY <2>1, <3>2, <3>3
    <3>5. i \in 1..created'
      BY <1>1, <1>3, <1>4
    <3>6. \A l \in Slots : TickStep(l)
      BY <1>6, <1>8, <3>2, <3>3, <3>4, <3>5 DEF TickStep, Live
    <3>7. OwnTicks(r)' # {}
      BY <1>6, <3>3, <3>4 DEF OwnTicks, LiveTicks, Live
    <3>8. QED
      BY <2>1, <3>1, <3>2, <3>3, <3>4, <3>6, <3>7
  <2>3. CASE ~capability
    <3>1. ticks' = ticks /\ lost' = [lost EXCEPT ![i] = "dark"]
      BY <1>4, <2>3 DEF CreateCommits, LostTo
    <3>2. QED
      BY <2>1, <3>1 DEF Lost, Causes, TickStep, Live
  <2>4. QED
    BY <2>2, <2>3
<1>10. \A q \in Requests : RowStep(q)
  BY <1>1, <1>4, <1>5, <1>6 DEF RowStep
<1>11. TypeOK'
  BY <1>1, <1>3, <1>6, <1>9, ClosesMoves DEF Inv, Base, TypeOK, Lost
<1>12. Moves
  BY <1>1, <1>9, <1>10, <1>11, ClosesMoves DEF Moves
<1>13. locked = c
  BY <1>1 DEF Inv, CountedSound
<1>14. \A d \in Customers : CountedSound(d)'
  BY <1>1, <1>13, ClosesMoves DEF CountedSound
<1>15. CapHolds'
  BY <1>1, <1>2, <1>6, CountedEnables
<1>16. QED
  BY <1>1, <1>6, <1>7, <1>9, <1>12, <1>14, <1>15, Commits

LEMMA ResumeCommitsInv == ASSUME Inv, NEW c \in Customers, ResumeCommits(c) PROVE Inv'
<1>1. /\ calls[c].kind = "resume" /\ calls[c].step = "counted" /\ RowLoaded(c) /\ Closes(c)
      /\ UNCHANGED <<runs, capability, created, faults>>
  BY DEF ResumeCommits
<1>2. PICK r \in Requests, i \in Ids : r = calls[c].request /\ i = calls[c].id
  BY <1>1, LoadedRow DEF Kinds
<1>3. PICK enabled \in BOOLEAN : enabled = (schedules[r].enabled \/ ~calls[c].enabled)
  OBVIOUS
<1>4. /\ schedules[r].id = i /\ i # NoId
      /\ schedules' = [schedules EXCEPT ![r].enabled = enabled]
      /\ \A q \in Requests \ {r} : schedules[q].id # i
  <2>1. schedules[r].id = i /\ i # NoId
    BY <1>1, <1>2, NoScheduleIs DEF RowLoaded
  <2>2. schedules' = [schedules EXCEPT ![r].enabled = enabled]
    BY <1>2, <1>3 DEF ResumeCommits
  <2>3. QED
    BY <1>1, <1>2, <2>1, <2>2, LoadedRow DEF Kinds
<1>5. /\ schedules' \in [Requests -> Schedule \cup {NoSchedule}]
      /\ schedules'[r].id = i /\ schedules'[r].enabled = enabled
      /\ \A q \in Requests \ {r} : schedules'[q] = schedules[q]
  <2>1. schedules \in [Requests -> Schedule \cup {NoSchedule}] /\ schedules[r] \in Schedule
    BY <1>4, RowFacts DEF Inv, Base, TypeOK
  <2> DEFINE row == [schedules[r] EXCEPT !.enabled = enabled]
  <2>2. row \in Schedule /\ row.id = i /\ row.enabled = enabled
    BY <1>4, <2>1 DEF Schedule
  <2>3. schedules' = [schedules EXCEPT ![r] = row]
    BY <1>4, <2>1
  <2> HIDE DEF row
  <2>4. QED
    BY <2>1, <2>2, <2>3
<1>6. i \in 1..created
  <2>1. schedules[r].id <= created /\ created \in Nat
    BY ScheduleAssumption DEF Inv, Base, RowIds, TypeOK
  <2>2. QED
    BY <1>4, <2>1 DEF Ids
<1>7. \A k \in Slots : Live(k) /\ ticks[k].id = i => k \in PendingTicks(r)
  BY <1>4 DEF Inv, Base, TickIds, PendingTicks, LiveTicks
<1>8. /\ ticks' \in [Slots -> Tick] /\ lost' \in Lost
      /\ \A j \in Ids \ {i} : lost'[j] = lost[j]
      /\ \A k \in Slots : TickStep(k)
      /\ \A k \in Slots : \/ ticks'[k] = ticks[k]
                          \/ /\ ~Live(k) /\ ticks'[k].plan = "unread"
                             /\ ticks'[k].attempt = 0 /\ ticks'[k].state = "scheduled"
      /\ enabled /\ OwnTicks(r)' = {} => lost'[i] # "none"
  <2>1. ticks \in [Slots -> Tick] /\ lost \in Lost
    BY DEF Inv, Base, TypeOK, Lost
  <2>2. CASE capability /\ SeedsUnlessPending(r)
    <3>1. Seeds(r, i) /\ lost' = [lost EXCEPT ![i] = "none"]
      BY <1>2, <2>2 DEF ResumeCommits, Found
    <3>2. PICK k \in Slots : ~Live(k) /\ ticks' = [ticks EXCEPT ![k] = NewTick(r, i)]
      BY <3>1 DEF Seeds, FreeSlots
    <3>0. PICK x : x = NewTick(r, i)
      OBVIOUS
    <3>3. /\ x = NewTick(r, i) /\ x \in Tick /\ x.state = "scheduled" /\ x.request = r
          /\ x.id = i /\ x.attempt = 0 /\ x.plan = "unread"
      BY <3>0, ScheduleAssumption DEF NewTick, Tick, TickStates, Plans
    <3>4. ticks'[k] = x /\ \A l \in Slots \ {k} : ticks'[l] = ticks[l]
      BY <2>1, <3>2, <3>3
    <3>5. \A l \in Slots : Live(l) => ticks[l].id # i
      BY <1>7, <2>2 DEF SeedsUnlessPending
    <3>6. \A l \in Slots : TickStep(l)
      BY <1>1, <1>5, <1>6, <3>2, <3>3, <3>4, <3>5 DEF TickStep, Live
    <3>7. OwnTicks(r)' # {}
      BY <1>5, <3>3, <3>4 DEF OwnTicks, LiveTicks, Live
    <3>8. lost' \in Lost /\ \A j \in Ids \ {i} : lost'[j] = lost[j]
      BY <2>1, <3>1 DEF Lost
    <3>9. QED
      BY <2>1, <3>2, <3>3, <3>4, <3>6, <3>7, <3>8
  <2>3. CASE ~(capability /\ SeedsUnlessPending(r))
    <3>1. /\ ticks' = ticks
          /\ lost' = IF ~enabled \/ OwnTicks(r) # {} THEN lost
                     ELSE LostTo(i, IF capability THEN "foreign" ELSE "dark")
      BY <1>2, <1>3, <2>3 DEF ResumeCommits
    <3>2. OwnTicks(r)' = OwnTicks(r)
      BY <1>4, <1>5, <3>1 DEF OwnTicks, LiveTicks, Live
    <3>3. PICK cause \in {"foreign", "dark"} :
            lost' = IF ~enabled \/ OwnTicks(r) # {} THEN lost
                    ELSE [lost EXCEPT ![i] = cause]
      BY <3>1 DEF LostTo
    <3>4. /\ lost' \in Lost /\ \A j \in Ids \ {i} : lost'[j] = lost[j]
          /\ enabled /\ OwnTicks(r) = {} => lost'[i] # "none"
      BY <2>1, <3>3 DEF Lost, Causes
    <3>5. QED
      BY <2>1, <3>1, <3>2, <3>4 DEF TickStep, Live
  <2>4. QED
    BY <2>2, <2>3
<1>9. \A q \in Requests : RowStep(q)
  BY <1>1, <1>4, <1>5 DEF RowStep
<1>10. TypeOK'
  BY <1>1, <1>5, <1>8, ClosesMoves DEF Inv, Base, TypeOK, Lost
<1>11. Moves
  BY <1>1, <1>8, <1>9, <1>10, ClosesMoves DEF Moves
<1>12. locked = c
  BY <1>1 DEF Inv, CountedSound
<1>13. \A d \in Customers : CountedSound(d)'
  BY <1>1, <1>12, ClosesMoves DEF CountedSound
<1>14. CapHolds'
  BY <1>1, <1>2, <1>5, CountedEnables
<1>15. QED
  BY <1>1, <1>4, <1>5, <1>8, <1>11, <1>13, <1>14, Commits

\* A pause or a deletion: the row the call loaded is disabled or gone.
LEMMA Disables ==
    ASSUME Inv, NEW c \in Customers, calls[c].kind \in {"pause", "delete"}, Closes(c),
           UNCHANGED <<ticks, runs, capability, created, faults>>,
           lost' = Found(calls[c].id),
           schedules' \in [Requests -> Schedule \cup {NoSchedule}],
           \A q \in Requests : \/ schedules'[q] = schedules[q] /\ schedules[q].id # calls[c].id
                               \/ /\ q = calls[c].request /\ ~schedules'[q].enabled
                                  /\ schedules'[q].id \in {schedules[q].id, NoId}
    PROVE  Inv'
<1>1. PICK r \in Requests, i \in Ids : r = calls[c].request /\ i = calls[c].id
  BY LoadedRow DEF Kinds
<1>2. /\ \A q \in Requests \ {r} : schedules'[q] = schedules[q] /\ schedules[q].id # i
      /\ \/ ~schedules'[r].enabled /\ schedules'[r].id \in {schedules[r].id, NoId}
         \/ schedules'[r] = schedules[r] /\ schedules[r].id # i
  BY <1>1
<1>3. lost' \in Lost /\ \A j \in Ids \ {i} : lost'[j] = lost[j]
  BY <1>1 DEF Found, Inv, Base, TypeOK, Lost
<1>4. Shrinks /\ \A q \in Requests : RowStep(q)
  BY <1>2 DEF Shrinks, RowStep
<1>5. TypeOK'
  BY <1>3, ClosesMoves DEF Inv, Base, TypeOK, Lost
<1>6. \A k \in Slots : TickStep(k)
  BY DEF TickStep, Live
<1>7. Moves
  BY <1>4, <1>5, <1>6, ClosesMoves DEF Moves
<1>8. CapHolds' /\ \A d \in Customers : CountedSound(d)'
  BY <1>4, <1>7, ClosesMoves, ShrinksCount
<1>9. schedules'[r].enabled /\ OwnTicks(r)' = {} => lost'[schedules'[r].id] # "none"
  <2> SUFFICES ASSUME schedules'[r].enabled, OwnTicks(r)' = {}
               PROVE  lost'[schedules'[r].id] # "none"
    OBVIOUS
  <2>1. schedules'[r] = schedules[r] /\ schedules[r].id # i
    BY <1>2
  <2>2. OwnTicks(r) = {} /\ schedules[r].id \in Ids
    BY <2>1, RowFacts, NoScheduleIs DEF OwnTicks, LiveTicks, Live, Inv, Base
  <2>3. QED
    BY <1>3, <2>1, <2>2 DEF Inv, ChainLostOnlyBy
<1>10. QED
  BY <1>2, <1>3, <1>7, <1>8, <1>9, Commits

LEMMA PauseCommitsInv == ASSUME Inv, NEW c \in Customers, PauseCommits(c) PROVE Inv'
<1>1. /\ calls[c].kind = "pause" /\ RowLoaded(c)
      /\ schedules' = [schedules EXCEPT ![calls[c].request].enabled = FALSE]
      /\ lost' = Found(calls[c].id) /\ Closes(c)
      /\ UNCHANGED <<ticks, runs, capability, created, faults>>
  BY DEF PauseCommits
<1>2. /\ calls[c].request \in Requests /\ calls[c].id # NoId
      /\ \A q \in Requests : schedules[q].id = calls[c].id => q = calls[c].request
  BY <1>1, LoadedRow DEF Kinds
<1>3. PICK r \in Requests : r = calls[c].request
  BY <1>2
<1>4. /\ schedules[r] \in Schedule /\ schedules[r].id = calls[c].id
      /\ schedules \in [Requests -> Schedule \cup {NoSchedule}]
  BY <1>1, <1>2, <1>3, RowFacts DEF RowLoaded, Inv, Base, TypeOK
<1> DEFINE row == [schedules[r] EXCEPT !.enabled = FALSE]
<1>5. row \in Schedule /\ row.id = schedules[r].id /\ ~row.enabled
  BY <1>4 DEF Schedule
<1>6. schedules' = [schedules EXCEPT ![r] = row]
  BY <1>1, <1>3, <1>4
<1> HIDE DEF row
<1>7. /\ schedules' \in [Requests -> Schedule \cup {NoSchedule}] /\ schedules'[r] = row
      /\ \A q \in Requests \ {r} : schedules'[q] = schedules[q]
  BY <1>4, <1>5, <1>6
<1>8. QED
  BY <1>1, <1>2, <1>3, <1>5, <1>7, Disables

LEMMA DeleteCommitsInv == ASSUME Inv, NEW c \in Customers, DeleteCommits(c) PROVE Inv'
<1>1. /\ calls[c].kind = "delete" /\ lost' = Found(calls[c].id) /\ Closes(c)
      /\ schedules' = IF RowLoaded(c)
                      THEN [schedules EXCEPT ![calls[c].request] = NoSchedule] ELSE schedules
      /\ UNCHANGED <<ticks, runs, capability, created, faults>>
  BY DEF DeleteCommits
<1>2. /\ calls[c].request \in Requests /\ calls[c].id # NoId
      /\ \A q \in Requests : schedules[q].id = calls[c].id => q = calls[c].request
  BY <1>1, LoadedRow DEF Kinds
<1>3. schedules \in [Requests -> Schedule \cup {NoSchedule}]
  BY DEF Inv, Base, TypeOK
<1>4. CASE RowLoaded(c)
  <2>1. /\ schedules' \in [Requests -> Schedule \cup {NoSchedule}]
        /\ schedules'[calls[c].request] = NoSchedule
        /\ \A q \in Requests \ {calls[c].request} : schedules'[q] = schedules[q]
    BY <1>1, <1>2, <1>3, <1>4
  <2>2. QED
    BY <1>1, <1>2, <2>1, NoScheduleIs, Disables
<1>5. CASE ~RowLoaded(c)
  <2>1. schedules' = schedules /\ \A q \in Requests : schedules[q].id # calls[c].id
    BY <1>1, <1>2, <1>5 DEF RowLoaded
  <2>2. QED
    BY <1>1, <1>3, <2>1, Disables
<1>6. QED
  BY <1>4, <1>5

-----------------------------------------------------------------------------
(***************************************************************************)
(* The invariant and the theorems.                                         *)
(***************************************************************************)

LEMMA InitInv == Init => Inv
<1> SUFFICES ASSUME Init PROVE Inv
  OBVIOUS
<1>1. TypeOK
  BY NoTickIs, NoScheduleIs, ScheduleAssumption DEF Init, TypeOK
<1>2. Base
  BY <1>1, NoTickIs, NoScheduleIs
     DEF Init, Base, RowIds, TickIds, CallIds, OneChain, Live, NoId
<1>3. \A k \in Slots : TickSound(k)
  BY NoTickIs DEF Init, TickSound, Live
<1>4. \A c \in Customers : CountedSound(c)
  BY DEF Init, CountedSound, NoCall
<1>5. CapHolds
  <2>1. {r \in Requests : schedules[r].enabled} = {}
    BY NoScheduleIs DEF Init
  <2>2. Cardinality({}) = 0 /\ Cap \in Nat
    BY FS_EmptySet, ScheduleAssumption
  <2>3. Cardinality({r \in Requests : schedules[r].enabled}) <= Cap
    BY <2>1, <2>2
  <2>4. QED
    BY <2>3 DEF CapHolds
<1>6. ScheduledRunsDoNotPileUp /\ ChainLostOnlyBy
  BY NoScheduleIs DEF Init, ScheduledRunsDoNotPileUp, ChainLostOnlyBy
<1>7. QED
  BY <1>2, <1>3, <1>4, <1>5, <1>6 DEF Inv

LEMMA StutterInv == ASSUME Inv, UNCHANGED vars PROVE Inv'
<1>1. Base'
  BY DEF vars, Inv, Base, TypeOK, RowIds, TickIds, CallIds, OneChain, Live
<1>2. \A k \in Slots : TickSound(k)'
  BY DEF vars, Inv, TickSound, RowThere, Live
<1>3. \A c \in Customers : CountedSound(c)'
  BY DEF vars, Inv, CountedSound, EnabledCount
<1>4. CapHolds' /\ ChainLostOnlyBy' /\ ScheduledRunsDoNotPileUp'
  BY DEF vars, Inv, CapHolds, ChainLostOnlyBy, ScheduledRunsDoNotPileUp,
         OwnTicks, LiveTicks, Live
<1>5. QED
  BY <1>1, <1>2, <1>3, <1>4 DEF Inv

LEMMA NextInv == Inv /\ [Next]_vars => Inv'
<1> SUFFICES ASSUME Inv, [Next]_vars PROVE Inv'
  OBVIOUS
<1>1. ASSUME NEW k \in Slots, Handles(k) PROVE Inv'
  BY <1>1, TickReadInv, TickChainsInv, TickStopsInv, TickRaisesInv, TickFailsInv DEF Handles
<1>2. ASSUME NEW k \in Slots,
             BecomeDue(k) \/ Claim(k) \/ Crash(k) \/ Recover(k) \/ HookRaises(k) \/ CancelTick(k)
      PROVE  Inv'
  BY <1>2, BecomeDueInv, ClaimInv, CrashInv, RecoverInv, HookRaisesInv, CancelTickInv
<1>3. ASSUME NEW c \in Customers,
             \/ CallReads(c) \/ CallCounts(c) \/ CreateCommits(c) \/ ResumeCommits(c)
             \/ PauseCommits(c) \/ DeleteCommits(c) \/ CallRefused(c)
      PROVE  Inv'
  BY <1>3, CallReadsInv, CallCountsInv, CreateCommitsInv, ResumeCommitsInv, PauseCommitsInv,
     DeleteCommitsInv, CallRefusedInv
<1>4. QED
  BY <1>1, <1>2, <1>3, RunEndsInv, CapabilityChangesInv, StutterInv DEF Next

LEMMA Invariance == Spec => []Inv
BY InitInv, NextInv, PTL DEF Spec

\* Every row, tick, call and count of the schedules keeps its type.
THEOREM TypeCorrect == Spec => []TypeOK
<1>1. Inv => TypeOK
  BY DEF Inv, Base
<1>2. QED
  BY <1>1, Invariance, PTL

\* No pause, resume, deletion, retry, crash or reseeding hook of schedules.py ever leaves
\* a schedule with two live ticks.
THEOREM ChainsAreSingle == Spec => []OneChain
<1>1. Inv => OneChain
  BY DEF Inv, Base
<1>2. QED
  BY <1>1, Invariance, PTL

\* The lock of the workspace row keeps the number of enabled schedules within the cap.
THEOREM CapIsKept == Spec => []CapHolds
<1>1. Inv => CapHolds
  BY DEF Inv
<1>2. QED
  BY <1>1, Invariance, PTL

\* A Scout never has two scheduled runs in flight, late ticks of deleted schedules included.
THEOREM RunsDoNotPileUp == Spec => []ScheduledRunsDoNotPileUp
<1>1. Inv => ScheduledRunsDoNotPileUp
  BY DEF Inv
<1>2. QED
  BY <1>1, Invariance, PTL

\* The five recorded causes are the only ways an enabled schedule is left without a tick.
THEOREM ChainsAreLostOnlyBy == Spec => []ChainLostOnlyBy
<1>1. Inv => ChainLostOnlyBy
  BY DEF Inv
<1>2. QED
  BY <1>1, Invariance, PTL

=============================================================================
