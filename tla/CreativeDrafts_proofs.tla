------------------------ MODULE CreativeDrafts_proofs ------------------------
(***************************************************************************)
(* Proofs about creative drafts, for any workspaces, actors, ceilings,     *)
(* costs and bounds: the types, that a revocation follows the approval it  *)
(* withdraws, that a call is only under way where generation is on, that   *)
(* one job of a draft is live, that a job stores one draft and that        *)
(* generation stays within its daily ceilings.                             *)
(***************************************************************************)
EXTENDS CreativeDrafts, TLAPS, SequenceTheorems, FiniteSetTheorems, WellFoundedInduction

-----------------------------------------------------------------------------
(* The types *)

LEMMA TypeInit == Init => TypeOK
<1> SUFFICES ASSUME Init PROVE TypeOK
  OBVIOUS
<1>1. <<"approved">> \in Seq(Kinds) /\ <<"approved">> # <<>>
  BY DEF Kinds
<1>2. decisions \in [Workspaces -> Seq(Kinds)] /\ \A ws \in Workspaces : decisions[ws] # <<>>
  BY <1>1 DEF Init
<1>3. deciding \in [Deciders -> Decision]
  BY DEF Init, Decision, NotDeciding
<1>4. /\ DOMAIN jobs = {} /\ IsFiniteSet(DOMAIN jobs)
      /\ jobs \in [DOMAIN jobs -> Job]
  BY FS_EmptySet DEF Init
<1>5. /\ requests \in [Requesters -> Request]
      /\ \A r \in Requesters : requests[r].pc = "idle" /\ IsFiniteSet(requests[r].prior)
  BY FS_EmptySet DEF Init, Request, NoRequest
<1>6. /\ workers \in [Workers -> Thread]
      /\ \A w \in Workers : workers[w].pc = "idle"
  BY AttemptsArePositive, BoundsAreCounts DEF Init, Thread, Idle
<1>7. calls \in Seq(Call) /\ Len(calls) = 0 /\ drafts \in [Workspaces -> Seq(Key)]
  BY DEF Init
<1>8. day \in 1..MaxDay /\ left \in [Events -> Nat]
  BY OccasionsAreCounts, BoundsAreCounts DEF Init
<1>9. globalLock \in Workers \cup {None} /\ rowLock \in [Workspaces -> Workers \cup {None}]
      /\ on \in [Workspaces -> BOOLEAN] /\ Len(calls) <= MaxCalls
  BY <1>7, BoundsAreCounts DEF Init
<1>10. rows \in Nat /\ crossed \subseteq Workspaces \X Nat
  BY DEF Init
<1>11. QED
  BY <1>2, <1>3, <1>4, <1>5, <1>6, <1>7, <1>8, <1>9, <1>10 DEF TypeOK

\* An event that occurs is counted.
LEMMA OccursTyped ==
    ASSUME left \in [Events -> Nat], NEW event \in Events, Occurs(event)
    PROVE  left' \in [Events -> Nat]
<1>1. left[event] \in Nat /\ left[event] > 0
  BY DEF Occurs
<1>2. left[event] - 1 \in Nat
  BY <1>1
<1>3. QED
  BY <1>2 DEF Occurs

\* The jobs keep their types when one of them is rewritten.
JobsTyped ==
    /\ DOMAIN jobs \in SUBSET Key
    /\ IsFiniteSet(DOMAIN jobs)
    /\ jobs \in [DOMAIN jobs -> Job]
    /\ \A k \in DOMAIN jobs : /\ jobs[k].status = "waiting" => jobs[k].attempts < MaxAttempts
                              /\ jobs[k].status = "running" => jobs[k].owner \in Workers

LEMMA RewrittenJob ==
    ASSUME JobsTyped, NEW k \in DOMAIN jobs, NEW row \in Job,
           row.status = "waiting" => row.attempts < MaxAttempts,
           row.status = "running" => row.owner \in Workers,
           jobs' = [jobs EXCEPT ![k] = row]
    PROVE  JobsTyped'
<1>1. DOMAIN jobs' = DOMAIN jobs
  BY DEF JobsTyped
<1>2. \A j \in DOMAIN jobs : jobs'[j] = IF j = k THEN row ELSE jobs[j]
  BY DEF JobsTyped
<1>3. jobs' \in [DOMAIN jobs -> Job]
  BY DEF JobsTyped
<1>4. QED
  BY <1>1, <1>2, <1>3 DEF JobsTyped

\* So they do when a thread finishes its job, whose status is then not running.
LEMMA FinishedJob ==
    ASSUME TypeOK, NEW w \in Workers, NEW status, Finishes(w, status),
           status \in {"failed", "succeeded", Failed(workers[w].attempt)}
    PROVE  /\ JobsTyped'
           /\ workers' \in [Workers -> Thread]
           /\ workers' = [workers EXCEPT ![w] = Idle]
           /\ globalLock' \in Workers \cup {None}
           /\ rowLock' \in [Workspaces -> Workers \cup {None}]
<1>1. JobsTyped
  BY DEF TypeOK, JobsTyped
<1>2. JobsTyped'
  <2>1. CASE ~StillOwns(w)
    <3>1. jobs' = jobs
      BY <2>1 DEF Finishes
    <3>2. QED
      BY <1>1, <3>1 DEF JobsTyped
  <2>2. CASE StillOwns(w)
    <3> DEFINE k == workers[w].key
               row == [jobs[k] EXCEPT !.status = status]
    <3>1. /\ k \in DOMAIN jobs /\ jobs[k] \in Job /\ jobs[k].attempts = workers[w].attempt
          /\ jobs' = [jobs EXCEPT ![k].status = status]
      BY <1>1, <2>2 DEF StillOwns, Finishes, JobsTyped
    <3>2. jobs' = [jobs EXCEPT ![k] = row]
      BY <3>1
    <3>3. /\ row \in Job /\ row.status \in {"failed", "succeeded", "waiting"}
          /\ row.status = "waiting" => row.attempts < MaxAttempts
      BY <3>1 DEF Job, Active, Failed
    <3> HIDE DEF row, k
    <3>4. QED
      BY <1>1, <3>1, <3>2, <3>3, RewrittenJob
  <2>3. QED
    BY <2>1, <2>2
<1>3. Idle \in Thread
  BY AttemptsArePositive, BoundsAreCounts DEF Idle, Thread
<1>4. workers' = [workers EXCEPT ![w] = Idle] /\ workers' \in [Workers -> Thread]
  BY <1>3 DEF TypeOK, Finishes
<1>5. globalLock' \in Workers \cup {None} /\ rowLock' \in [Workspaces -> Workers \cup {None}]
  BY DEF Finishes, Unlocked, TypeOK
<1>6. QED
  BY <1>2, <1>4, <1>5

\* A thread that only moves on keeps the type of the threads.
LEMMA MovedThread ==
    ASSUME TypeOK, NEW w \in Workers, ~At(w, "idle"),
           NEW pc \in {"locked", "gated", "checked", "settled"}, Moves(w, pc)
    PROVE  /\ workers' \in [Workers -> Thread]
           /\ \A v \in Workers :
                /\ workers'[v].key = workers[v].key /\ workers'[v].call = workers[v].call
                /\ workers'[v].attempt = workers[v].attempt
                /\ workers'[v].pc = IF v = w THEN pc ELSE workers[v].pc
<1>1. workers \in [Workers -> Thread]
  BY DEF TypeOK
<1>2. [workers[w] EXCEPT !.pc = pc] \in Thread
  BY <1>1 DEF Thread
<1>3. QED
  BY <1>1, <1>2 DEF Moves, Thread

\* The other parts of the types.
DecidersTyped ==
    /\ decisions \in [Workspaces -> Seq(Kinds)]
    /\ \A ws \in Workspaces : decisions[ws] # <<>>
    /\ deciding \in [Deciders -> Decision]

RequestsTyped ==
    /\ requests \in [Requesters -> Request]
    /\ \A r \in Requesters : /\ requests[r].pc # "idle" => requests[r].ws \in Workspaces
                             /\ IsFiniteSet(requests[r].prior)

ThreadsTyped ==
    /\ workers \in [Workers -> Thread]
    /\ \A w \in Workers : /\ workers[w].pc # "idle" => workers[w].key \in Key
                          /\ workers[w].pc = "calling" => workers[w].call \in 1..Len(calls)
    /\ calls \in Seq(Call)
    /\ Len(calls) <= MaxCalls

LocksTyped ==
    /\ globalLock \in Workers \cup {None}
    /\ rowLock \in [Workspaces -> Workers \cup {None}]

RowsTyped == rows \in Nat /\ crossed \subseteq Workspaces \X Nat

RestTyped ==
    /\ drafts \in [Workspaces -> Seq(Key)]
    /\ on \in [Workspaces -> BOOLEAN]
    /\ day \in 1..MaxDay
    /\ left \in [Events -> Nat]

LEMMA TypeParts ==
    /\ TypeOK <=> /\ DecidersTyped /\ JobsTyped /\ RequestsTyped
                  /\ ThreadsTyped /\ LocksTyped /\ RowsTyped /\ RestTyped
    /\ TypeOK' <=> /\ DecidersTyped' /\ JobsTyped' /\ RequestsTyped'
                   /\ ThreadsTyped' /\ LocksTyped' /\ RowsTyped' /\ RestTyped'
  BY DEF TypeOK, DecidersTyped, JobsTyped, RequestsTyped, ThreadsTyped, LocksTyped,
         RowsTyped, RestTyped

LEMMA DeciderTypes ==
    ASSUME TypeOK, NEW d \in Deciders,
           \/ \E ws \in Workspaces : DecisionReads(d, ws)
           \/ \E kind \in Kinds : DecisionCommits(d, kind)
           \/ DecisionRefused(d)
    PROVE  TypeOK'
<1> USE TypeParts
<1>1. NotDeciding \in Decision
  BY DEF NotDeciding, Decision
<1>2. /\ JobsTyped' /\ RequestsTyped' /\ ThreadsTyped' /\ LocksTyped' /\ RowsTyped'
      /\ drafts' = drafts /\ on' = on /\ day' = day
  BY DEF DecisionReads, DecisionCommits, DecisionRefused, JobsTyped, RequestsTyped, ThreadsTyped,
         LocksTyped, RowsTyped
<1>3. ASSUME NEW ws \in Workspaces, DecisionReads(d, ws) PROVE TypeOK'
  <2>1. decisions[ws] \in Seq(Kinds) /\ Len(decisions[ws]) \in 1..Len(decisions[ws])
    BY EmptySeq, LenProperties DEF DecidersTyped
  <2>2. Controlling(ws) \in Kinds \cup {None}
    BY <2>1, ElementOfSeq DEF Controlling
  <2>3. [ws |-> ws, saw |-> Controlling(ws)] \in Decision
    BY <2>2 DEF Decision
  <2>4. DecidersTyped'
    BY <1>3, <2>3 DEF DecisionReads, DecidersTyped
  <2>5. left' \in [Events -> Nat]
    BY <1>3, OccursTyped DEF DecisionReads, RestTyped, Events
  <2>6. QED
    BY <1>2, <2>4, <2>5 DEF RestTyped
<1>4. ASSUME NEW kind \in Kinds, DecisionCommits(d, kind) PROVE TypeOK'
  <2> DEFINE b == deciding[d].ws
  <2>1. b \in Workspaces
    BY <1>4 DEF DecisionCommits, DecidersTyped, Decision
  <2>2. decisions[b] \in Seq(Kinds)
    BY <2>1 DEF DecidersTyped
  <2>3. Append(decisions[b], kind) \in Seq(Kinds) /\ Append(decisions[b], kind) # <<>>
    BY <2>2, AppendProperties, EmptySeq
  <2>4. decisions' = [decisions EXCEPT ![b] = Append(decisions[b], kind)]
    BY <1>4 DEF DecisionCommits
  <2> HIDE DEF b
  <2>5. decisions' \in [Workspaces -> Seq(Kinds)] /\ \A ws \in Workspaces : decisions'[ws] # <<>>
    BY <2>1, <2>3, <2>4 DEF DecidersTyped
  <2>6. DecidersTyped'
    BY <1>1, <1>4, <2>5 DEF DecisionCommits, DecidersTyped
  <2>7. QED
    BY <1>2, <1>4, <2>6 DEF DecisionCommits, RestTyped
<1>5. ASSUME DecisionRefused(d) PROVE TypeOK'
  <2>1. DecidersTyped'
    BY <1>1, <1>5 DEF DecisionRefused, DecidersTyped
  <2>2. QED
    BY <1>2, <1>5, <2>1 DEF DecisionRefused, RestTyped
<1>6. QED
  BY <1>3, <1>4, <1>5

LEMMA RequesterTypes ==
    ASSUME TypeOK, NEW r \in Requesters,
           \/ \E ws \in Workspaces : RequestReads(r, ws)
           \/ RequestFindsPrior(r)
           \/ RequestEnqueues(r)
    PROVE  TypeOK'
<1> USE TypeParts
<1>1. NoRequest \in Request /\ NoRequest.pc = "idle" /\ IsFiniteSet(NoRequest.prior)
  BY FS_EmptySet DEF NoRequest, Request
<1>2. /\ DecidersTyped' /\ ThreadsTyped' /\ LocksTyped'
      /\ drafts' = drafts /\ on' = on /\ day' = day
  BY DEF RequestReads, RequestFindsPrior, RequestEnqueues, DecidersTyped, ThreadsTyped, LocksTyped
<1>3. ASSUME NEW ws \in Workspaces, RequestReads(r, ws) PROVE TypeOK'
  <2> DEFINE new == [pc |-> "reading", ws |-> ws, version |-> NextVersion(ws), prior |-> {}]
  <2>1. NextVersion(ws) \in Nat
    BY LenProperties DEF NextVersion, RestTyped
  <2>2. new \in Request /\ new.ws \in Workspaces /\ IsFiniteSet(new.prior)
    BY <2>1, FS_EmptySet DEF Request
  <2>3. requests' = [requests EXCEPT ![r] = new] /\ jobs' = jobs
    BY <1>3 DEF RequestReads
  <2> HIDE DEF new
  <2>4. RequestsTyped' /\ JobsTyped' /\ RowsTyped'
    BY <1>3, <2>2, <2>3 DEF RequestReads, RequestsTyped, JobsTyped, RowsTyped
  <2>5. left' \in [Events -> Nat]
    BY <1>3, OccursTyped DEF RequestReads, RestTyped, Events
  <2>6. QED
    BY <1>2, <2>4, <2>5 DEF RestTyped
<1>4. ASSUME RequestFindsPrior(r) PROVE TypeOK'
  <2> DEFINE prior == WithPrefix(requests[r].ws, requests[r].version)
             new == [requests[r] EXCEPT !.pc = "enqueuing", !.prior = prior]
  <2>1. prior \in SUBSET Key /\ IsFiniteSet(prior)
    BY FS_Subset DEF WithPrefix, JobsTyped
  <2>2. new \in Request /\ new.ws \in Workspaces /\ IsFiniteSet(new.prior)
    <3>1. requests[r] \in Request /\ requests[r].ws \in Workspaces
      BY <1>4 DEF RequestsTyped, RequestFindsPrior
    <3> HIDE DEF prior
    <3>2. QED
      BY <2>1, <3>1 DEF Request
  <2>3. requests' = [requests EXCEPT ![r] = NoRequest] \/ requests' = [requests EXCEPT ![r] = new]
    BY <1>4 DEF RequestFindsPrior
  <2> HIDE DEF new, prior
  <2>4. RequestsTyped' /\ JobsTyped' /\ RowsTyped'
    BY <1>1, <1>4, <2>2, <2>3 DEF RequestsTyped, JobsTyped, RowsTyped, RequestFindsPrior
  <2>5. QED
    BY <1>2, <1>4, <2>4 DEF RequestFindsPrior, RestTyped
<1>5. ASSUME RequestEnqueues(r) PROVE TypeOK'
  <2>1. RequestsTyped'
    BY <1>1, <1>5 DEF RequestEnqueues, RequestsTyped
  <2>2. KeyOf(r) \in Key
    <3>1. Cardinality(requests[r].prior) \in Nat
      BY FS_CardinalityType DEF RequestsTyped
    <3>2. requests[r] \in Request /\ requests[r].ws \in Workspaces
      BY <1>5 DEF RequestEnqueues, RequestsTyped
    <3>3. QED
      BY <3>1, <3>2 DEF KeyOf, NumberOf, Key, Request, RowsTyped
  <2>3. JobsTyped'
    <3>1. CASE UNCHANGED jobs
      BY <3>1 DEF JobsTyped
    <3>2. CASE ~UNCHANGED jobs
      <4> DEFINE k == KeyOf(r)
                 new == [status |-> "waiting", attempts |-> 0, owner |-> None]
      <4>1. jobs' = [j \in DOMAIN jobs \cup {k} |-> IF j \in DOMAIN jobs THEN jobs[j] ELSE new]
        BY <1>5, <3>2 DEF RequestEnqueues
      <4>2. new \in Job /\ new.status = "waiting" /\ new.attempts < MaxAttempts
        BY AttemptsArePositive DEF Job, Active
      <4>3. IsFiniteSet(DOMAIN jobs \cup {k})
        BY FS_AddElement DEF JobsTyped
      <4> HIDE DEF new, k
      <4>4. DOMAIN jobs' = DOMAIN jobs \cup {k} /\ k \in Key
        BY <2>2, <4>1 DEF k
      <4>5. \A j \in DOMAIN jobs' : jobs'[j] = IF j \in DOMAIN jobs THEN jobs[j] ELSE new
        BY <4>1
      <4>6. jobs' \in [DOMAIN jobs' -> Job]
        BY <4>1, <4>2 DEF JobsTyped
      <4>7. QED
        BY <4>2, <4>3, <4>4, <4>5, <4>6 DEF JobsTyped
    <3>3. QED
      BY <3>1, <3>2
  <2>4. RowsTyped'
    BY <1>5 DEF RequestEnqueues, RowsTyped
  <2>5. QED
    BY <1>2, <1>5, <2>1, <2>3, <2>4 DEF RequestEnqueues, RestTyped
<1>6. QED
  BY <1>3, <1>4, <1>5

\* A thread that holds a job without a call of its own.
LEMMA ThreadTypes ==
    ASSUME TypeOK, NEW w \in Workers,
           \/ \E k \in DOMAIN jobs : Claim(w, k)
           \/ LocksForGeneration(w) \/ GatesPass(w) \/ GatesRefuse(w)
           \/ CeilingsPass(w) \/ CeilingsRefuse(w) \/ Reserves(w)
           \/ \E cost \in Costs : Settles(w, cost)
           \/ AttemptFails(w) \/ StoresDraft(w) \/ Crash(w)
    PROVE  TypeOK'
<1> USE TypeParts
<1>1. DecidersTyped' /\ RequestsTyped' /\ RowsTyped' /\ on' = on /\ day' = day
  BY DEF Claim, LocksForGeneration, GatesPass, GatesRefuse, CeilingsPass, CeilingsRefuse, Reserves,
         Settles, AttemptFails, StoresDraft, Crash, DecidersTyped, RequestsTyped, RowsTyped
<1>2. Idle \in Thread /\ Idle.pc = "idle"
  BY AttemptsArePositive, BoundsAreCounts DEF Idle, Thread
<1>3. ASSUME NEW k \in DOMAIN jobs, Claim(w, k) PROVE TypeOK'
  <2> DEFINE row == [status |-> "running", attempts |-> jobs[k].attempts + 1, owner |-> w]
             new == [pc |-> "claimed", key |-> k, attempt |-> jobs'[k].attempts, call |-> 0]
  <2>1. jobs[k] \in Job /\ jobs[k].attempts < MaxAttempts
    BY <1>3 DEF Claim, JobsTyped
  <2>2. row \in Job /\ row.status = "running" /\ row.owner \in Workers
    BY <2>1, AttemptsArePositive DEF Job, Active
  <2>3. jobs' = [jobs EXCEPT ![k] = row] /\ workers' = [workers EXCEPT ![w] = new]
    BY <1>3 DEF Claim
  <2>4. jobs'[k] = row
    BY <2>3 DEF JobsTyped
  <2>5. new \in Thread /\ new.key \in Key /\ new.pc = "claimed"
    BY <2>2, <2>4, BoundsAreCounts DEF Thread, JobsTyped, Job
  <2> HIDE DEF row, new
  <2>6. JobsTyped'
    BY <2>2, <2>3, RewrittenJob
  <2>7. ThreadsTyped'
    BY <1>3, <2>3, <2>5 DEF Claim, ThreadsTyped
  <2>8. LocksTyped' /\ RestTyped'
    BY <1>1, <1>3 DEF Claim, LocksTyped, RestTyped
  <2>9. QED
    BY <1>1, <2>6, <2>7, <2>8
<1>4. ASSUME NEW pc \in {"locked", "gated", "checked"}, Moves(w, pc), ~At(w, "idle"),
             UNCHANGED <<jobs, calls, drafts, left>>, LocksTyped'
      PROVE  TypeOK'
  <2>1. /\ workers' \in [Workers -> Thread]
        /\ \A v \in Workers : /\ workers'[v].key = workers[v].key
                              /\ workers'[v].call = workers[v].call
                              /\ workers'[v].pc = IF v = w THEN pc ELSE workers[v].pc
    BY <1>4, MovedThread
  <2>2. ThreadsTyped'
    BY <1>4, <2>1 DEF ThreadsTyped, At
  <2>3. JobsTyped' /\ RestTyped'
    BY <1>1, <1>4 DEF JobsTyped, RestTyped
  <2>4. QED
    BY <1>1, <1>4, <2>2, <2>3
<1>5. CASE LocksForGeneration(w)
  <2>1. LocksTyped'
    BY <1>5 DEF LocksForGeneration, LocksTyped
  <2>2. QED
    BY <1>4, <1>5, <2>1 DEF LocksForGeneration, At
<1>6. CASE GatesPass(w) \/ CeilingsPass(w)
  <2>1. LocksTyped'
    BY <1>6 DEF GatesPass, CeilingsPass, LocksTyped
  <2>2. QED
    BY <1>4, <1>6, <2>1 DEF GatesPass, CeilingsPass, Attempts, At
<1>7. ASSUME NEW status \in {"failed", "succeeded", Failed(workers[w].attempt)},
             Finishes(w, status), UNCHANGED <<calls, left>>, drafts' \in [Workspaces -> Seq(Key)]
      PROVE  TypeOK'
  <2>1. /\ JobsTyped'
        /\ workers' \in [Workers -> Thread]
        /\ workers' = [workers EXCEPT ![w] = Idle]
        /\ globalLock' \in Workers \cup {None}
        /\ rowLock' \in [Workspaces -> Workers \cup {None}]
    BY <1>7, FinishedJob
  <2>2. ThreadsTyped'
    BY <1>2, <1>7, <2>1 DEF ThreadsTyped
  <2>3. QED
    BY <1>1, <1>7, <2>1, <2>2 DEF LocksTyped, RestTyped
<1>8. CASE GatesRefuse(w) \/ CeilingsRefuse(w) \/ AttemptFails(w)
  <2>1. /\ Finishes(w, "failed") \/ Finishes(w, Failed(workers[w].attempt))
        /\ UNCHANGED <<calls, left>> /\ drafts' \in [Workspaces -> Seq(Key)]
    BY <1>8 DEF GatesRefuse, CeilingsRefuse, AttemptFails, RestTyped
  <2>2. QED
    BY <1>7, <2>1
<1>9. CASE StoresDraft(w)
  <2> DEFINE key == workers[w].key
  <2>1. key \in Key /\ key.ws \in Workspaces
    BY <1>9 DEF StoresDraft, At, ThreadsTyped, Key
  <2>2. Append(drafts[key.ws], key) \in Seq(Key)
    BY <2>1, AppendProperties DEF RestTyped
  <2>3. drafts' = drafts \/ drafts' = [drafts EXCEPT ![key.ws] = Append(drafts[key.ws], key)]
    BY <1>9 DEF StoresDraft, Ws
  <2> HIDE DEF key
  <2>4. drafts' \in [Workspaces -> Seq(Key)]
    BY <2>1, <2>2, <2>3 DEF RestTyped
  <2>5. Finishes(w, "succeeded") /\ UNCHANGED <<calls, left>>
    BY <1>9 DEF StoresDraft
  <2>6. QED
    BY <1>7, <2>4, <2>5
<1>10. CASE Reserves(w)
  <2> DEFINE call == [ws |-> Ws(w), task |-> "generate", made |-> day, recorded |-> 0, cost |-> 0]
  <2>1. Ws(w) \in Workspaces
    BY <1>10 DEF Reserves, At, ThreadsTyped, Key, Ws
  <2>2. call \in Call
    BY <2>1, CostsAreBounded, BoundsAreCounts DEF Call, RestTyped
  <2>3. calls' = Append(calls, call) /\ Len(calls) < MaxCalls
    BY <1>10 DEF Reserves
  <2> HIDE DEF call
  <2>4. calls' \in Seq(Call) /\ Len(calls') = Len(calls) + 1 /\ Len(calls) \in Nat
    BY <2>2, <2>3, AppendProperties, LenProperties DEF ThreadsTyped
  <2>5. Len(calls') <= MaxCalls /\ Len(calls) + 1 \in 0..MaxCalls
    BY <2>3, <2>4, BoundsAreCounts
  <2>6. /\ [workers[w] EXCEPT !.pc = "calling", !.call = Len(calls) + 1] \in Thread
        /\ workers' = [workers EXCEPT ![w] =
                         [workers[w] EXCEPT !.pc = "calling", !.call = Len(calls) + 1]]
    BY <1>10, <2>5 DEF Reserves, ThreadsTyped, Thread
  <2>7. workers[w].key \in Key
    BY <1>10 DEF Reserves, At, ThreadsTyped
  <2>8. ThreadsTyped'
    BY <2>4, <2>5, <2>6, <2>7 DEF ThreadsTyped, Thread
  <2>9. JobsTyped' /\ LocksTyped' /\ RestTyped'
    BY <1>1, <1>10 DEF Reserves, JobsTyped, LocksTyped, RestTyped
  <2>10. QED
    BY <1>1, <2>8, <2>9
<1>11. ASSUME NEW cost \in Costs, Settles(w, cost) PROVE TypeOK'
  <2> DEFINE i == workers[w].call
  <2>1. i \in 1..Len(calls) /\ calls \in Seq(Call)
    BY <1>11 DEF Settles, At, ThreadsTyped
  <2>2. calls[i] \in Call
    BY <2>1, ElementOfSeq
  <2>3. [calls[i] EXCEPT !.recorded = day, !.cost = cost] \in Call
    <3>1. day \in 0..MaxDay /\ cost \in 0..Worst
      BY CostsAreBounded, BoundsAreCounts DEF RestTyped
    <3> HIDE DEF i
    <3>2. QED
      BY <2>2, <3>1 DEF Call
  <2>4. calls' = [calls EXCEPT ![i] = [calls[i] EXCEPT !.recorded = day, !.cost = cost]]
    <3>1. calls' = [[calls EXCEPT ![i].recorded = day] EXCEPT ![i].cost = cost]
      BY <1>11 DEF Settles
    <3>2. DOMAIN calls = 1..Len(calls)
      BY <2>1, LenProperties
    <3> HIDE DEF i
    <3>3. QED
      BY <2>1, <2>2, <3>1, <3>2 DEF Call
  <2> HIDE DEF i
  <2>5. calls' \in Seq(Call) /\ Len(calls') = Len(calls)
    BY <2>1, <2>3, <2>4, ExceptSeq
  <2>6. /\ workers' \in [Workers -> Thread]
        /\ \A v \in Workers : /\ workers'[v].key = workers[v].key
                              /\ workers'[v].call = workers[v].call
                              /\ workers'[v].pc = IF v = w THEN "settled" ELSE workers[v].pc
    BY <1>11, MovedThread DEF Settles, At
  <2>7. ThreadsTyped'
    BY <1>11, <2>5, <2>6 DEF Settles, At, ThreadsTyped
  <2>8. JobsTyped' /\ LocksTyped' /\ RestTyped'
    BY <1>1, <1>11 DEF Settles, JobsTyped, LocksTyped, RestTyped
  <2>9. QED
    BY <1>1, <2>7, <2>8
<1>12. CASE Crash(w)
  <2>1. workers' = [workers EXCEPT ![w] = Idle] /\ calls' = calls
    BY <1>12 DEF Crash
  <2>2. ThreadsTyped'
    BY <1>2, <2>1 DEF ThreadsTyped
  <2>3. LocksTyped' /\ JobsTyped'
    BY <1>12 DEF Crash, Unlocked, LocksTyped, JobsTyped
  <2>4. left' \in [Events -> Nat]
    BY <1>12, OccursTyped DEF Crash, RestTyped, Events
  <2>5. RestTyped'
    BY <1>1, <1>12, <2>4 DEF Crash, RestTyped
  <2>6. QED
    BY <1>1, <2>2, <2>3, <2>5
<1>13. QED
  BY <1>3, <1>5, <1>6, <1>8, <1>9, <1>10, <1>11, <1>12

LEMMA SurroundingTypes ==
    ASSUME TypeOK,
           \/ \E k \in DOMAIN jobs : Purge(k) \/ Recovers(k)
           \/ \E ws \in Workspaces : Override(ws) \/ \E cost \in Costs : OtherSpend(ws, cost)
           \/ NextDay
    PROVE  TypeOK'
<1> USE TypeParts
<1>1. /\ DecidersTyped' /\ RequestsTyped' /\ LocksTyped' /\ drafts' = drafts /\ workers' = workers
  BY DEF Purge, Recovers, Override, OtherSpend, NextDay, DecidersTyped, RequestsTyped, LocksTyped
<1>2. left' \in [Events -> Nat]
  <2>1. \/ left' = left \/ Occurs("purge") \/ Occurs("fault") \/ Occurs("override")
        \/ Occurs("spend") \/ Occurs("day")
    BY DEF Purge, Recovers, Override, OtherSpend, NextDay
  <2>2. QED
    BY <2>1, OccursTyped DEF RestTyped, Events
<1>3. ASSUME NEW k \in DOMAIN jobs, Purge(k) PROVE TypeOK'
  <2>1. jobs' = [j \in DOMAIN jobs \ {k} |-> jobs[j]]
    BY <1>3 DEF Purge
  <2>2. IsFiniteSet(DOMAIN jobs \ {k})
    BY FS_Subset DEF JobsTyped
  <2>3. JobsTyped'
    BY <2>1, <2>2 DEF JobsTyped
  <2>4. ThreadsTyped' /\ RestTyped'
    BY <1>1, <1>2, <1>3 DEF Purge, ThreadsTyped, RestTyped
  <2>5. RowsTyped'
    BY <1>3 DEF Purge, RowsTyped, JobsTyped, Key
  <2>6. QED
    BY <1>1, <2>3, <2>4, <2>5
<1>4. ASSUME NEW k \in DOMAIN jobs, Recovers(k) PROVE TypeOK'
  <2> DEFINE row == [jobs[k] EXCEPT !.status = Failed(jobs[k].attempts), !.owner = None]
  <2>1. jobs[k] \in Job /\ jobs \in [DOMAIN jobs -> Job]
    BY DEF JobsTyped
  <2>2. /\ row \in Job /\ row.status \in {"waiting", "failed"}
        /\ row.status = "waiting" => row.attempts < MaxAttempts
    BY <2>1 DEF Job, Active, Failed
  <2>3. jobs' = [jobs EXCEPT ![k] = row]
    BY <1>4, <2>1 DEF Recovers
  <2> HIDE DEF row
  <2>4. JobsTyped'
    BY <2>2, <2>3, RewrittenJob
  <2>5. ThreadsTyped' /\ RowsTyped' /\ RestTyped'
    BY <1>1, <1>2, <1>4 DEF Recovers, ThreadsTyped, RowsTyped, RestTyped
  <2>6. QED
    BY <1>1, <2>4, <2>5
<1>5. ASSUME NEW ws \in Workspaces, Override(ws) PROVE TypeOK'
  <2>1. on' \in [Workspaces -> BOOLEAN]
    BY <1>5 DEF Override, RestTyped
  <2>2. JobsTyped' /\ ThreadsTyped' /\ RowsTyped' /\ RestTyped'
    BY <1>1, <1>2, <1>5, <2>1 DEF Override, JobsTyped, ThreadsTyped, RowsTyped, RestTyped
  <2>3. QED
    BY <1>1, <2>2
<1>6. ASSUME NEW ws \in Workspaces, NEW cost \in Costs, OtherSpend(ws, cost) PROVE TypeOK'
  <2> DEFINE call == [ws |-> ws, task |-> "other", made |-> day, recorded |-> day, cost |-> cost]
  <2>1. call \in Call
    BY CostsAreBounded DEF Call, RestTyped
  <2>2. calls' = Append(calls, call) /\ Len(calls) < MaxCalls
    BY <1>6 DEF OtherSpend
  <2> HIDE DEF call
  <2>3. calls' \in Seq(Call) /\ Len(calls') = Len(calls) + 1 /\ Len(calls) \in Nat
    BY <2>1, <2>2, AppendProperties, LenProperties DEF ThreadsTyped
  <2>4. ThreadsTyped'
    BY <1>1, <2>2, <2>3, BoundsAreCounts DEF ThreadsTyped
  <2>5. JobsTyped' /\ RowsTyped' /\ RestTyped'
    BY <1>1, <1>2, <1>6 DEF OtherSpend, JobsTyped, RowsTyped, RestTyped
  <2>6. QED
    BY <1>1, <2>4, <2>5
<1>7. CASE NextDay
  <2>1. day' \in 1..MaxDay
    BY <1>7, BoundsAreCounts DEF NextDay, RestTyped
  <2>2. JobsTyped' /\ ThreadsTyped' /\ RowsTyped' /\ RestTyped'
    BY <1>1, <1>2, <1>7, <2>1 DEF NextDay, JobsTyped, ThreadsTyped, RowsTyped, RestTyped
  <2>3. QED
    BY <1>1, <2>2
<1>8. QED
  BY <1>3, <1>4, <1>5, <1>6, <1>7

LEMMA TypeKept == ASSUME TypeOK, [Next]_vars PROVE TypeOK'
<1>1. CASE UNCHANGED vars
  BY <1>1 DEF TypeOK, vars
<1>2. CASE Next
  BY <1>2, DeciderTypes, RequesterTypes, ThreadTypes, SurroundingTypes DEF Next
<1>3. QED
  BY <1>1, <1>2

\* The types hold: attempts are bounded, a running job has an owner, a thread with a call
\* points at a row of the ledger.
THEOREM TypeCorrect == Spec => []TypeOK
<1>1. Init => TypeOK
  BY TypeInit
<1>2. TypeOK /\ [Next]_vars => TypeOK'
  BY TypeKept
<1>3. QED
  BY <1>1, <1>2, PTL DEF Spec

-----------------------------------------------------------------------------
(* Decisions *)

\* What a decider saw still controls its brief, which no other decider holds.
SawControls ==
    \A d \in Deciders : deciding[d].ws # None => deciding[d].saw = Controlling(deciding[d].ws)
DecidesAlone ==
    \A d, e \in Deciders : deciding[d].ws # None /\ deciding[d].ws = deciding[e].ws => d = e
DecisionInv == SawControls /\ DecidesAlone /\ RevokesFollowApprovals

\* All other steps leave the decisions alone.
LEMMA DecisionSteps ==
    ASSUME TypeOK, [Next]_vars
    PROVE  \/ UNCHANGED <<decisions, deciding>>
           \/ \E d \in Deciders, ws \in Workspaces : DecisionReads(d, ws)
           \/ \E d \in Deciders, kind \in Kinds : DecisionCommits(d, kind)
           \/ \E d \in Deciders : DecisionRefused(d)
  BY DEF Next, vars, RequestReads, RequestFindsPrior, RequestEnqueues, Claim, LocksForGeneration,
         GatesPass, GatesRefuse, CeilingsPass, CeilingsRefuse, Reserves, Settles, AttemptFails,
         StoresDraft, Crash, Purge, Recovers, Override, OtherSpend, NextDay

LEMMA DecisionKept ==
    ASSUME TypeOK, TypeOK', DecisionInv, [Next]_vars
    PROVE  DecisionInv'
<1>1. CASE UNCHANGED <<decisions, deciding>>
  BY <1>1 DEF DecisionInv, SawControls, DecidesAlone, RevokesFollowApprovals, Controlling
<1>2. ASSUME NEW d \in Deciders, NEW ws \in Workspaces, DecisionReads(d, ws) PROVE DecisionInv'
  <2>1. /\ decisions' = decisions /\ \A e \in Deciders : deciding[e].ws # ws
        /\ \A e \in Deciders : deciding'[e] = IF e = d THEN [ws |-> ws, saw |-> Controlling(ws)]
                                              ELSE deciding[e]
    BY <1>2 DEF DecisionReads, LocksBrief, TypeOK
  <2>2. SawControls' /\ DecidesAlone'
    BY <2>1 DEF DecisionInv, SawControls, DecidesAlone, Controlling
  <2>3. QED
    BY <2>1, <2>2 DEF DecisionInv, RevokesFollowApprovals
<1>3. ASSUME NEW d \in Deciders, NEW kind \in Kinds, DecisionCommits(d, kind) PROVE DecisionInv'
  <2> DEFINE b == deciding[d].ws
             row == decisions[b]
  <2>1. b \in Workspaces /\ b # None
    BY <1>3 DEF DecisionCommits, TypeOK, Decision
  <2>2. row \in Seq(Kinds) /\ row # <<>>
    BY <2>1 DEF TypeOK
  <2>3. Len(row) \in Nat /\ Len(row) > 0
    BY <2>2, EmptySeq, LenProperties
  <2>4. /\ \A e \in Deciders : deciding'[e] = IF e = d THEN NotDeciding ELSE deciding[e]
        /\ \A ws \in Workspaces : decisions'[ws] = IF ws = b THEN Append(row, kind) ELSE decisions[ws]
    BY <1>3 DEF DecisionCommits, TypeOK
  <2>5. kind = "revoked" => row[Len(row)] = "approved"
    <3>1. deciding[d].saw = Controlling(b)
      BY <2>1 DEF DecisionInv, SawControls
    <3>2. Controlling(b) = row[Len(row)]
      BY <2>2 DEF Controlling
    <3>3. QED
      BY <1>3, <3>1, <3>2 DEF DecisionCommits, Permitted
  <2>6. \A e \in Deciders : deciding'[e].ws # None => e # d /\ deciding[e].ws # b
    BY <2>1, <2>4 DEF DecisionInv, DecidesAlone, NotDeciding
  <2>7. \A ws \in Workspaces : ws # b => decisions'[ws] = decisions[ws]
    BY <2>4
  <2> HIDE DEF b, row
  <2>8. DecidesAlone'
    BY <2>4, <2>6 DEF DecisionInv, DecidesAlone
  <2>9. SawControls'
    <3> SUFFICES ASSUME NEW e \in Deciders, (deciding[e].ws # None)'
                 PROVE  (deciding[e].saw = Controlling(deciding[e].ws))'
      BY DEF SawControls
    <3>1. deciding'[e] = deciding[e] /\ deciding[e].ws \in Workspaces /\ deciding[e].ws # b
      BY <2>4, <2>6 DEF TypeOK, Decision
    <3>2. decisions'[deciding[e].ws] = decisions[deciding[e].ws]
      BY <2>7, <3>1
    <3>3. QED
      BY <3>1, <3>2 DEF DecisionInv, SawControls, Controlling
  <2>10. RevokesFollowApprovals'
    <3> SUFFICES ASSUME NEW ws \in Workspaces, NEW i \in DOMAIN decisions'[ws],
                        decisions'[ws][i] = "revoked"
                 PROVE  i > 1 /\ decisions'[ws][i - 1] = "approved"
      BY DEF RevokesFollowApprovals
    <3>1. CASE ws # b
      BY <2>7, <3>1 DEF DecisionInv, RevokesFollowApprovals
    <3>2. CASE ws = b
      <4>1. /\ decisions'[ws] = Append(row, kind)
            /\ Len(Append(row, kind)) = Len(row) + 1
            /\ \A j \in 1..Len(row) : Append(row, kind)[j] = row[j]
            /\ Append(row, kind)[Len(row) + 1] = kind
        <5>1. decisions'[ws] = Append(row, kind)
          BY <2>4, <3>2
        <5>2. kind \in Kinds
          BY <1>3
        <5>3. QED
          BY <2>2, <5>1, <5>2, AppendProperties
      <4>2. i \in 1..(Len(row) + 1) /\ DOMAIN row = 1..Len(row)
        BY <2>1, <2>2, <2>4, <3>2, <4>1, AppendProperties, LenProperties
      <4>3. CASE i = Len(row) + 1
        <5>1. kind = "revoked"
          BY <4>1, <4>3
        <5>2. i - 1 = Len(row) /\ i > 1 /\ Len(row) \in 1..Len(row)
          BY <2>3, <4>3
        <5>3. QED
          BY <2>5, <4>1, <5>1, <5>2
      <4>4. CASE i \in 1..Len(row)
        <5>1. row[i] = "revoked"
          BY <4>1, <4>4
        <5>2. i > 1 /\ row[i - 1] = "approved"
          BY <2>1, <4>2, <4>4, <5>1 DEF DecisionInv, RevokesFollowApprovals, row
        <5>3. i - 1 \in 1..Len(row)
          BY <2>3, <4>4, <5>2
        <5>4. QED
          BY <4>1, <5>2, <5>3
      <4>5. QED
        BY <2>3, <4>2, <4>3, <4>4
    <3>3. QED
      BY <3>1, <3>2
  <2>11. QED
    BY <2>8, <2>9, <2>10 DEF DecisionInv
<1>4. ASSUME NEW d \in Deciders, DecisionRefused(d) PROVE DecisionInv'
  <2>1. /\ decisions' = decisions
        /\ \A e \in Deciders : deciding'[e] = IF e = d THEN NotDeciding ELSE deciding[e]
    BY <1>4 DEF DecisionRefused, TypeOK
  <2>2. SawControls' /\ DecidesAlone'
    BY <2>1 DEF DecisionInv, SawControls, DecidesAlone, Controlling, NotDeciding
  <2>3. QED
    BY <2>1, <2>2 DEF DecisionInv, RevokesFollowApprovals
<1>5. QED
  BY <1>1, <1>2, <1>3, <1>4, DecisionSteps

\* A revocation follows the approval it withdraws, whoever decides at once.
THEOREM RevocationsAreEarned == Spec => []RevokesFollowApprovals
<1>1. Init => DecisionInv
  BY DEF Init, DecisionInv, SawControls, DecidesAlone, RevokesFollowApprovals, NotDeciding
<1>2. TypeOK /\ TypeOK' /\ DecisionInv /\ [Next]_vars => DecisionInv'
  BY DecisionKept
<1>3. DecisionInv => RevokesFollowApprovals
  BY DEF DecisionInv
<1>4. QED
  BY <1>1, <1>2, <1>3, TypeCorrect, PTL DEF Spec

-----------------------------------------------------------------------------
(* The override *)

UnderLock == {"locked", "gated", "checked", "calling", "settled"}

\* A thread under the locks holds its workspace's row.
HoldsRow == \A w \in Workers : workers[w].pc \in UnderLock => rowLock[Ws(w)] = w
QuietInv == HoldsRow /\ OffMeansQuiet

LEMMA QuietKept ==
    ASSUME TypeOK, TypeOK', QuietInv, [Next]_vars
    PROVE  QuietInv'
<1> DEFINE Past == {"gated", "checked", "calling", "settled"}
<1>1. CASE UNCHANGED <<workers, rowLock, on>>
  BY <1>1 DEF QuietInv, HoldsRow, OffMeansQuiet, Ws
<1>2. ASSUME NEW w \in Workers, workers' = [workers EXCEPT ![w] = Idle], on' = on, Unlocked(w)
      PROVE  QuietInv'
  <2>1. \A v \in Workers : workers'[v] = IF v = w THEN Idle ELSE workers[v]
    BY <1>2 DEF TypeOK
  <2>2. \A ws \in Workspaces : rowLock[ws] # w => rowLock'[ws] = rowLock[ws]
    BY <1>2 DEF Unlocked, TypeOK
  <2>3. ASSUME NEW v \in Workers, workers'[v].pc \in UnderLock PROVE rowLock'[workers'[v].key.ws] = v
    <3>1. v # w /\ workers'[v] = workers[v]
      BY <2>1, <2>3 DEF Idle, UnderLock
    <3>2. workers[v].key.ws \in Workspaces
      BY <2>3, <3>1 DEF TypeOK, UnderLock, Key
    <3>3. rowLock[workers[v].key.ws] = v
      BY <2>3, <3>1 DEF QuietInv, HoldsRow, Ws
    <3>4. QED
      BY <2>2, <3>1, <3>2, <3>3
  <2>4. OffMeansQuiet'
    BY <1>2, <2>1 DEF QuietInv, OffMeansQuiet, Ws, Idle
  <2>5. QED
    BY <2>3, <2>4 DEF QuietInv, HoldsRow, Ws
<1>3. ASSUME NEW w \in Workers, NEW pc \in UnderLock, on' = on, rowLock' = rowLock,
             \A v \in Workers : /\ workers'[v].key = workers[v].key
                                /\ workers'[v].pc = IF v = w THEN pc ELSE workers[v].pc,
             workers[w].pc \in UnderLock, workers[w].pc \in Past \/ on[Ws(w)]
      PROVE  QuietInv'
  <2>1. HoldsRow'
    BY <1>3 DEF QuietInv, HoldsRow, Ws
  <2>2. OffMeansQuiet'
    BY <1>3 DEF QuietInv, OffMeansQuiet, Ws
  <2>3. QED
    BY <2>1, <2>2 DEF QuietInv
<1>4. ASSUME NEW w \in Workers,
             \/ GatesRefuse(w) \/ CeilingsRefuse(w) \/ AttemptFails(w) \/ StoresDraft(w) \/ Crash(w)
      PROVE  QuietInv'
  <2>1. workers' = [workers EXCEPT ![w] = Idle] /\ on' = on /\ Unlocked(w)
    BY <1>4 DEF GatesRefuse, CeilingsRefuse, AttemptFails, StoresDraft, Crash, Finishes
  <2>2. QED
    BY <1>2, <2>1
<1>5. ASSUME NEW w \in Workers, GatesPass(w) \/ CeilingsPass(w) \/ \E cost \in Costs : Settles(w, cost)
      PROVE  QuietInv'
  <2>1. /\ on' = on /\ rowLock' = rowLock /\ ~At(w, "idle")
        /\ \E pc \in {"gated", "checked", "settled"} : Moves(w, pc)
        /\ workers[w].pc \in UnderLock /\ (workers[w].pc \in Past \/ on[Ws(w)])
    BY <1>5 DEF GatesPass, CeilingsPass, Settles, Attempts, At, UnderLock
  <2>2. PICK pc \in {"gated", "checked", "settled"} : Moves(w, pc)
    BY <2>1
  <2>3. \A v \in Workers : /\ workers'[v].key = workers[v].key
                           /\ workers'[v].pc = IF v = w THEN pc ELSE workers[v].pc
    BY <2>1, <2>2, MovedThread
  <2>4. pc \in UnderLock
    BY DEF UnderLock
  <2>5. QED
    BY <1>3, <2>1, <2>3, <2>4
<1>6. ASSUME NEW w \in Workers, Reserves(w) PROVE QuietInv'
  <2>1. /\ on' = on /\ rowLock' = rowLock /\ workers[w].pc = "checked"
        /\ \A v \in Workers : /\ workers'[v].key = workers[v].key
                              /\ workers'[v].pc = IF v = w THEN "calling" ELSE workers[v].pc
    BY <1>6 DEF Reserves, At, TypeOK, Thread
  <2>2. QED
    BY <1>3, <2>1 DEF UnderLock
<1>7. ASSUME NEW w \in Workers, NEW k \in DOMAIN jobs, Claim(w, k) PROVE QuietInv'
  <2>1. /\ on' = on /\ rowLock' = rowLock
        /\ \A v \in Workers : v # w => workers'[v] = workers[v]
        /\ workers'[w].pc = "claimed"
    BY <1>7 DEF Claim, TypeOK
  <2>2. QED
    BY <2>1 DEF QuietInv, HoldsRow, OffMeansQuiet, Ws, UnderLock
<1>8. ASSUME NEW w \in Workers, LocksForGeneration(w) PROVE QuietInv'
  <2>1. Ws(w) \in Workspaces
    BY <1>8 DEF LocksForGeneration, At, TypeOK, Key, Ws
  <2>2. /\ on' = on /\ rowLock[Ws(w)] = None
        /\ \A ws \in Workspaces : rowLock'[ws] = IF ws = Ws(w) THEN w ELSE rowLock[ws]
        /\ \A v \in Workers : /\ workers'[v].key = workers[v].key
                              /\ workers'[v].pc = IF v = w THEN "locked" ELSE workers[v].pc
    <3>1. ~At(w, "idle") /\ Moves(w, "locked")
      BY <1>8 DEF LocksForGeneration, At
    <3>2. \A v \in Workers : /\ workers'[v].key = workers[v].key
                             /\ workers'[v].pc = IF v = w THEN "locked" ELSE workers[v].pc
      BY <3>1, MovedThread
    <3>3. QED
      BY <1>8, <3>2 DEF LocksForGeneration, TypeOK
  <2>3. ASSUME NEW v \in Workers, workers'[v].pc \in UnderLock PROVE rowLock'[workers'[v].key.ws] = v
    <3>1. CASE v = w
      BY <2>1, <2>2, <3>1 DEF Ws
    <3>2. CASE v # w
      <4>1. workers[v].pc \in UnderLock /\ workers[v].key.ws \in Workspaces
        BY <2>2, <2>3, <3>2 DEF TypeOK, UnderLock, Key
      <4>2. rowLock[workers[v].key.ws] = v
        BY <4>1 DEF QuietInv, HoldsRow, Ws
      <4>3. workers[v].key.ws # Ws(w)
        BY <2>2, <4>2, NoneIsNobody
      <4>4. QED
        BY <2>2, <4>1, <4>2, <4>3
    <3>3. QED
      BY <3>1, <3>2
  <2>4. OffMeansQuiet'
    BY <2>2 DEF QuietInv, OffMeansQuiet, Ws
  <2>5. QED
    BY <2>3, <2>4 DEF QuietInv, HoldsRow, Ws
<1>9. ASSUME NEW ws \in Workspaces, Override(ws) PROVE QuietInv'
  <2>1. /\ workers' = workers /\ rowLock' = rowLock /\ rowLock[ws] = None
        /\ on' = [on EXCEPT ![ws] = ~on[ws]]
    BY <1>9 DEF Override, MayOverride
  <2>2. HoldsRow'
    BY <2>1 DEF QuietInv, HoldsRow, Ws
  <2>3. ASSUME NEW v \in Workers, workers[v].pc \in Past PROVE on'[workers[v].key.ws]
    <3>1. workers[v].key.ws \in Workspaces /\ rowLock[workers[v].key.ws] = v
      BY <2>3 DEF TypeOK, Key, QuietInv, HoldsRow, Ws, UnderLock
    <3>2. workers[v].key.ws # ws
      BY <2>1, <3>1, NoneIsNobody
    <3>3. on[workers[v].key.ws]
      BY <2>3 DEF QuietInv, OffMeansQuiet, Ws
    <3>4. QED
      BY <2>1, <3>1, <3>2, <3>3 DEF TypeOK
  <2>4. QED
    BY <2>1, <2>2, <2>3 DEF QuietInv, OffMeansQuiet, Ws
<1>10. \/ UNCHANGED <<workers, rowLock, on>>
       \/ \E w \in Workers :
            \/ \E k \in DOMAIN jobs : Claim(w, k)
            \/ LocksForGeneration(w) \/ GatesPass(w) \/ GatesRefuse(w)
            \/ CeilingsPass(w) \/ CeilingsRefuse(w) \/ Reserves(w)
            \/ \E cost \in Costs : Settles(w, cost)
            \/ AttemptFails(w) \/ StoresDraft(w) \/ Crash(w)
       \/ \E ws \in Workspaces : Override(ws)
  BY DEF Next, vars, DecisionReads, DecisionCommits, DecisionRefused, RequestReads,
         RequestFindsPrior, RequestEnqueues, Purge, Recovers, OtherSpend, NextDay
<1>11. QED
  BY <1>1, <1>4, <1>5, <1>6, <1>7, <1>8, <1>9, <1>10

\* No provider call is under way where generation is switched off.
THEOREM OffIsQuiet == Spec => []OffMeansQuiet
<1>1. Init => QuietInv
  BY DEF Init, QuietInv, HoldsRow, OffMeansQuiet, Idle, UnderLock
<1>2. TypeOK /\ TypeOK' /\ QuietInv /\ [Next]_vars => QuietInv'
  BY QuietKept
<1>3. QuietInv => OffMeansQuiet
  BY DEF QuietInv
<1>4. QED
  BY <1>1, <1>2, <1>3, TypeCorrect, PTL DEF Spec

-----------------------------------------------------------------------------
(* Jobs and drafts *)

\* A row that was inserted has an id less than those to come: none comes twice.
RowsAreOld ==
    /\ \A k \in DOMAIN jobs : k.id < rows
    /\ \A ws \in Workspaces : \A i \in 1..Len(drafts[ws]) : drafts[ws][i].id < rows

\* The draft a request is for was not crossed by a purge.
Uncrossed(r) ==
    requests[r].pc = "enqueuing" /\ <<requests[r].ws, requests[r].version>> \notin crossed

\* A job of the draft a request is for that is there, and will not run again.
Ended(r, k) ==
    k \in WithPrefix(requests[r].ws, requests[r].version) /\ jobs[k].status \notin Active

\* The prior jobs a request counted have ended; if another came since, the number is taken.
PriorHaveEnded ==
    \A r \in Requesters : Uncrossed(r) =>
        /\ \A k \in requests[r].prior : Ended(r, k)
        /\ requests[r].prior = WithPrefix(requests[r].ws, requests[r].version) \/ Taken(r)

JobInv == RowsAreOld /\ PriorHaveEnded /\ OneLiveJob /\ OneDraftPerJob

\* A job is claimed, fails, is given back or recovered: a live one moves on, without success.
Rewrites(k, row) ==
    /\ jobs' = [jobs EXCEPT ![k] = row]
    /\ jobs[k].status \in Active
    /\ row.status # "succeeded"
    /\ UNCHANGED <<requests, drafts, rows, crossed>>

\* A job succeeds with its draft.
Stores(k) ==
    /\ jobs' = [jobs EXCEPT ![k].status = "succeeded"]
    /\ jobs[k].status = "running"
    /\ drafts' = [drafts EXCEPT ![k.ws] = Append(@, k)]
    /\ UNCHANGED <<requests, rows, crossed>>

LEMMA FinishedMoves ==
    ASSUME TypeOK, NEW w \in Workers, NEW status, status # "succeeded", Finishes(w, status),
           UNCHANGED <<requests, drafts, rows, crossed>>
    PROVE  \/ UNCHANGED <<jobs, requests, drafts, rows, crossed>>
           \/ \E k \in DOMAIN jobs : \E row : Rewrites(k, row)
<1>1. CASE ~StillOwns(w)
  BY <1>1 DEF Finishes
<1>2. CASE StillOwns(w)
  <2> DEFINE k == workers[w].key
             row == [jobs[k] EXCEPT !.status = status]
  <2>1. /\ k \in DOMAIN jobs /\ jobs[k].status = "running"
        /\ jobs' = [jobs EXCEPT ![k].status = status]
    BY <1>2 DEF StillOwns, Finishes
  <2>2. jobs[k] \in Job
    BY <2>1 DEF TypeOK
  <2>3. jobs' = [jobs EXCEPT ![k] = row] /\ row.status = status
    BY <2>1, <2>2 DEF Job
  <2>4. Rewrites(k, row)
    BY <2>1, <2>3 DEF Rewrites, Active
  <2>5. QED
    BY <2>1, <2>4
<1>3. QED
  BY <1>1, <1>2

LEMMA JobSteps ==
    ASSUME TypeOK, [Next]_vars
    PROVE  \/ UNCHANGED <<jobs, requests, drafts, rows, crossed>>
           \/ \E k \in DOMAIN jobs : \E row : Rewrites(k, row)
           \/ \E k \in DOMAIN jobs : Stores(k)
           \/ \E k \in DOMAIN jobs : Purge(k)
           \/ \E r \in Requesters :
                \/ \E ws \in Workspaces : RequestReads(r, ws)
                \/ RequestFindsPrior(r)
                \/ RequestEnqueues(r)
<1>1. ASSUME NEW w \in Workers, NEW k \in DOMAIN jobs, Claim(w, k)
      PROVE  \E row : Rewrites(k, row)
  <2>1. jobs' = [jobs EXCEPT ![k] =
                   [status |-> "running", attempts |-> jobs[k].attempts + 1, owner |-> w]]
    BY <1>1 DEF Claim
  <2>2. QED
    BY <1>1, <2>1 DEF Claim, Rewrites, Active
<1>2. ASSUME NEW k \in DOMAIN jobs, Recovers(k) PROVE \E row : Rewrites(k, row)
  <2> DEFINE row == [jobs[k] EXCEPT !.status = Failed(jobs[k].attempts), !.owner = None]
  <2>1. jobs' = [jobs EXCEPT ![k] = row] /\ row.status # "succeeded"
    BY <1>2 DEF Recovers, TypeOK, Job, Failed
  <2>2. QED
    BY <1>2, <2>1 DEF Recovers, Rewrites, Active
<1>3. ASSUME NEW w \in Workers, GatesRefuse(w) \/ CeilingsRefuse(w) \/ AttemptFails(w)
      PROVE  \/ UNCHANGED <<jobs, requests, drafts, rows, crossed>>
             \/ \E k \in DOMAIN jobs : \E row : Rewrites(k, row)
  <2>1. PICK status \in {"failed", Failed(workers[w].attempt)} : Finishes(w, status)
    BY <1>3 DEF GatesRefuse, CeilingsRefuse, AttemptFails
  <2>2. UNCHANGED <<requests, drafts, rows, crossed>> /\ status # "succeeded"
    BY <1>3 DEF GatesRefuse, CeilingsRefuse, AttemptFails, Failed
  <2>3. QED
    BY <2>1, <2>2, FinishedMoves
<1>4. ASSUME NEW w \in Workers, StoresDraft(w)
      PROVE  UNCHANGED <<jobs, requests, drafts, rows, crossed>> \/ \E k \in DOMAIN jobs : Stores(k)
  <2>1. CASE ~StillOwns(w)
    BY <1>4, <2>1 DEF StoresDraft, Finishes
  <2>2. CASE StillOwns(w)
    BY <1>4, <2>2 DEF StoresDraft, Finishes, StillOwns, Stores, Ws
  <2>3. QED
    BY <2>1, <2>2
<1>5. ASSUME NEW w \in Workers,
             \/ LocksForGeneration(w) \/ GatesPass(w) \/ CeilingsPass(w) \/ Reserves(w)
             \/ \E cost \in Costs : Settles(w, cost)
             \/ Crash(w)
      PROVE  UNCHANGED <<jobs, requests, drafts, rows, crossed>>
  BY <1>5 DEF LocksForGeneration, GatesPass, CeilingsPass, Reserves, Settles, Crash
<1>6. CASE UNCHANGED vars
  BY <1>6 DEF vars
<1>7. ASSUME \/ \E d \in Deciders :
                  \/ \E ws \in Workspaces : DecisionReads(d, ws)
                  \/ \E kind \in Kinds : DecisionCommits(d, kind)
                  \/ DecisionRefused(d)
             \/ \E ws \in Workspaces : Override(ws) \/ \E cost \in Costs : OtherSpend(ws, cost)
             \/ NextDay
      PROVE  UNCHANGED <<jobs, requests, drafts, rows, crossed>>
  BY <1>7 DEF DecisionReads, DecisionCommits, DecisionRefused, Override, OtherSpend, NextDay
<1>8. CASE Next
  BY <1>1, <1>2, <1>3, <1>4, <1>5, <1>7, <1>8 DEF Next
<1>9. QED
  BY <1>6, <1>8

\* A step that leaves the keys, the requests and what ended alone keeps the counts of requests.
LEMMA PriorKept ==
    ASSUME TypeOK, JobInv, DOMAIN jobs' = DOMAIN jobs,
           UNCHANGED <<requests, crossed>>,
           \A j \in DOMAIN jobs : jobs[j].status \notin Active => jobs'[j].status \notin Active
    PROVE  PriorHaveEnded'
<1> SUFFICES ASSUME NEW r \in Requesters, Uncrossed(r)
             PROVE  /\ \A k \in requests[r].prior :
                          /\ k \in WithPrefix(requests[r].ws, requests[r].version)
                          /\ jobs'[k].status \notin Active
                    /\ \/ requests[r].prior = WithPrefix(requests[r].ws, requests[r].version)
                       \/ Taken(r)
  BY DEF PriorHaveEnded, Ended, Uncrossed, Taken, NumberOf, WithPrefix
<1>1. QED
  BY DEF JobInv, PriorHaveEnded, Ended, WithPrefix

LEMMA RewriteKeeps ==
    ASSUME TypeOK, JobInv, NEW k \in DOMAIN jobs, NEW row, Rewrites(k, row)
    PROVE  JobInv'
<1>1. /\ DOMAIN jobs' = DOMAIN jobs /\ drafts' = drafts /\ requests' = requests
      /\ rows' = rows /\ crossed' = crossed
      /\ \A j \in DOMAIN jobs : jobs'[j] = IF j = k THEN row ELSE jobs[j]
  BY DEF Rewrites, TypeOK
<1>2. jobs[k].status \in Active /\ row.status # "succeeded"
  BY DEF Rewrites
<1>3. RowsAreOld'
  BY <1>1 DEF JobInv, RowsAreOld
<1>4. PriorHaveEnded'
  BY <1>1, <1>2, PriorKept
<1>5. OneLiveJob'
  BY <1>1, <1>2 DEF JobInv, OneLiveJob
<1>6. OneDraftPerJob'
  BY <1>1, <1>2 DEF JobInv, OneDraftPerJob, Active
<1>7. QED
  BY <1>3, <1>4, <1>5, <1>6 DEF JobInv

LEMMA StoreKeeps ==
    ASSUME TypeOK, JobInv, NEW k \in DOMAIN jobs, Stores(k)
    PROVE  JobInv'
<1> DEFINE b == k.ws
           old == drafts[b]
           new == Append(old, k)
<1>1. k \in Key /\ b \in Workspaces /\ k.id < rows
  BY DEF TypeOK, Key, JobInv, RowsAreOld
<1>2. old \in Seq(Key) /\ Len(old) \in Nat
  BY <1>1, LenProperties DEF TypeOK
<1>3. /\ Len(new) = Len(old) + 1 /\ new[Len(old) + 1] = k
      /\ \A i \in 1..Len(old) : new[i] = old[i]
  BY <1>1, <1>2, AppendProperties
<1>4. /\ DOMAIN jobs' = DOMAIN jobs /\ requests' = requests
      /\ rows' = rows /\ crossed' = crossed
      /\ \A j \in DOMAIN jobs : j # k => jobs'[j] = jobs[j]
      /\ jobs'[k].status = "succeeded" /\ jobs[k].status = "running"
      /\ \A ws \in Workspaces : drafts'[ws] = IF ws = b THEN new ELSE drafts[ws]
  BY DEF Stores, TypeOK, Job
<1>5. \A ws \in Workspaces : /\ DOMAIN drafts[ws] = 1..Len(drafts[ws])
                             /\ Len(drafts[ws]) \in Nat
                             /\ DOMAIN drafts'[ws] = 1..Len(drafts'[ws])
  <2>1. new \in Seq(Key)
    BY <1>1, <1>2, AppendProperties
  <2> HIDE DEF new, old, b
  <2>2. \A ws \in Workspaces : drafts[ws] \in Seq(Key) /\ drafts'[ws] \in Seq(Key)
    BY <1>4, <2>1 DEF TypeOK
  <2>3. QED
    BY <2>2, LenProperties
<1> HIDE DEF new
<1>6. \A i \in 1..Len(new) : i \in 1..Len(old) \/ i = Len(old) + 1
  BY <1>2, <1>3
<1>7. \A i \in 1..Len(old) : old[i] # k
  BY <1>1, <1>4, <1>5 DEF JobInv, OneDraftPerJob
<1> HIDE DEF old, b
<1>8. RowsAreOld'
  <2>1. ASSUME NEW ws \in Workspaces, NEW i \in 1..Len(drafts'[ws]) PROVE drafts'[ws][i].id < rows
    <3>1. CASE ws # b
      BY <1>4, <2>1, <3>1 DEF JobInv, RowsAreOld
    <3>2. CASE ws = b /\ i = Len(old) + 1
      BY <1>1, <1>3, <1>4, <3>2
    <3>3. CASE ws = b /\ i \in 1..Len(old)
      BY <1>1, <1>3, <1>4, <3>3 DEF JobInv, RowsAreOld, old
    <3>4. QED
      BY <1>4, <1>6, <2>1, <3>1, <3>2, <3>3
  <2>2. QED
    BY <1>4, <2>1 DEF JobInv, RowsAreOld
<1>11. PriorHaveEnded'
  <2>1. \A j \in DOMAIN jobs : jobs[j].status \notin Active => jobs'[j].status \notin Active
    BY <1>4 DEF Active
  <2>2. QED
    BY <1>4, <2>1, PriorKept
<1>12. OneLiveJob'
  BY <1>4 DEF JobInv, OneLiveJob, Active
<1>13. OneDraftPerJob'
  <2>1. ASSUME NEW ws \in Workspaces, NEW i \in 1..Len(drafts'[ws]), NEW j \in 1..Len(drafts'[ws]),
               drafts'[ws][i] = drafts'[ws][j]
        PROVE  i = j
    <3>1. CASE ws # b
      BY <1>4, <1>5, <2>1, <3>1 DEF JobInv, OneDraftPerJob
    <3>2. CASE ws = b
      <4>1. \A m, n \in 1..Len(old) : old[m] = old[n] => m = n
        BY <1>1, <1>5 DEF JobInv, OneDraftPerJob, old
      <4>2. i \in 1..Len(new) /\ j \in 1..Len(new) /\ new[i] = new[j]
        BY <1>4, <2>1, <3>2
      <4>3. \A m \in 1..Len(old) : new[m] # k
        BY <1>3, <1>7
      <4>4. CASE i \in 1..Len(old) /\ j \in 1..Len(old)
        BY <1>3, <4>1, <4>2, <4>4
      <4>5. CASE i = Len(old) + 1 \/ j = Len(old) + 1
        <5>1. i = Len(old) + 1 /\ j = Len(old) + 1
          BY <1>3, <1>6, <4>2, <4>3, <4>5
        <5>2. QED
          BY <5>1
      <4>6. QED
        BY <1>6, <4>2, <4>4, <4>5
    <3>3. QED
      BY <3>1, <3>2
  <2>2. ASSUME NEW ws \in Workspaces, NEW j \in DOMAIN jobs, j.ws = ws
        PROVE  jobs'[j].status = "succeeded" <=> \E i \in 1..Len(drafts'[ws]) : drafts'[ws][i] = j
    <3>1. jobs[j].status = "succeeded" <=> \E i \in 1..Len(drafts[ws]) : drafts[ws][i] = j
      BY <1>5, <2>2 DEF JobInv, OneDraftPerJob
    <3>2. CASE ws # b
      BY <1>4, <2>2, <3>1, <3>2 DEF b
    <3>3. CASE ws = b /\ j # k
      <4>1. \A i \in 1..Len(new) : new[i] = j => i \in 1..Len(old) /\ old[i] = j
        BY <1>3, <1>6, <3>3
      <4>2. \A i \in 1..Len(old) : i \in 1..Len(new) /\ new[i] = old[i]
        BY <1>2, <1>3
      <4>3. QED
        BY <1>1, <1>4, <3>1, <3>3, <4>1, <4>2 DEF old
    <3>4. CASE ws = b /\ j = k
      <4>1. Len(old) + 1 \in 1..Len(new)
        BY <1>2, <1>3
      <4>2. QED
        BY <1>1, <1>3, <1>4, <3>4, <4>1
    <3>5. QED
      BY <3>2, <3>3, <3>4
  <2>3. QED
    BY <1>4, <1>5, <2>1, <2>2 DEF OneDraftPerJob
<1>14. QED
  BY <1>8, <1>11, <1>12, <1>13 DEF JobInv

LEMMA ReadKeeps ==
    ASSUME TypeOK, JobInv, NEW r \in Requesters, NEW ws \in Workspaces, RequestReads(r, ws)
    PROVE  JobInv'
<1> DEFINE new == [pc |-> "reading", ws |-> ws, version |-> NextVersion(ws), prior |-> {}]
<1>1. /\ jobs' = jobs /\ drafts' = drafts /\ rows' = rows /\ crossed' = crossed
      /\ \A q \in Requesters : requests'[q] = IF q = r THEN new ELSE requests[q]
  BY DEF RequestReads, TypeOK
<1>2. PriorHaveEnded'
  BY <1>1 DEF JobInv, PriorHaveEnded, Ended, Uncrossed, Taken, NumberOf, WithPrefix
<1>3. QED
  BY <1>1, <1>2 DEF JobInv, RowsAreOld, OneLiveJob, OneDraftPerJob

LEMMA FindKeeps ==
    ASSUME TypeOK, JobInv, NEW r \in Requesters, RequestFindsPrior(r)
    PROVE  JobInv'
<1> DEFINE prior == WithPrefix(requests[r].ws, requests[r].version)
           new == [requests[r] EXCEPT !.pc = "enqueuing", !.prior = prior]
<1>1. /\ jobs' = jobs /\ drafts' = drafts /\ rows' = rows /\ crossed' = crossed
      /\ \A q \in Requesters : q # r => requests'[q] = requests[q]
      /\ IF \E k \in prior : jobs[k].status \in Active
           THEN requests'[r] = NoRequest ELSE requests'[r] = new
  BY DEF RequestFindsPrior, TypeOK
<1>2. /\ new.pc = "enqueuing" /\ new.ws = requests[r].ws /\ new.version = requests[r].version
      /\ new.prior = prior
  BY DEF TypeOK, Request
<1>3. PriorHaveEnded'
  <2> SUFFICES ASSUME NEW q \in Requesters, Uncrossed(q)'
               PROVE  /\ \A k \in requests'[q].prior : Ended(q, k)'
                      /\ \/ requests'[q].prior = WithPrefix(requests'[q].ws, requests'[q].version)
                         \/ Taken(q)'
    BY <1>1 DEF PriorHaveEnded, WithPrefix
  <2>1. CASE q # r
    BY <1>1, <2>1 DEF JobInv, PriorHaveEnded, Ended, Uncrossed, Taken, NumberOf, WithPrefix
  <2>2. CASE q = r
    <3>1. requests'[r] = new /\ ~\E k \in prior : jobs[k].status \in Active
      BY <1>1, <2>2 DEF NoRequest, Uncrossed
    <3>2. QED
      BY <1>1, <1>2, <2>2, <3>1 DEF Ended, WithPrefix
  <2>3. QED
    BY <2>1, <2>2
<1>4. QED
  BY <1>1, <1>3 DEF JobInv, RowsAreOld, OneLiveJob, OneDraftPerJob

LEMMA EnqueueKeeps ==
    ASSUME TypeOK, JobInv, NEW r \in Requesters, RequestEnqueues(r)
    PROVE  JobInv'
<1> DEFINE key == KeyOf(r)
<1>1. /\ drafts' = drafts /\ crossed' = crossed /\ requests[r].pc = "enqueuing"
      /\ \A q \in Requesters : requests'[q] = IF q = r THEN NoRequest ELSE requests[q]
  BY DEF RequestEnqueues, TypeOK
<1>2. CASE Taken(r)
  <2>1. jobs' = jobs /\ rows' = rows
    BY <1>2 DEF RequestEnqueues
  <2>2. PriorHaveEnded'
    BY <1>1, <2>1 DEF JobInv, PriorHaveEnded, Ended, Uncrossed, Taken, NumberOf, WithPrefix,
                      NoRequest
  <2>3. QED
    BY <1>1, <2>1, <2>2 DEF JobInv, RowsAreOld, OneLiveJob, OneDraftPerJob
<1>3. CASE ~Taken(r)
  <2>0. /\ key.ws = requests[r].ws /\ key.version = requests[r].version
        /\ key.n = NumberOf(r) /\ key.id = rows
        /\ requests[r].ws \in Workspaces /\ rows \in Nat
    BY <1>1 DEF KeyOf, TypeOK
  <2>1. key \notin DOMAIN jobs
    BY <2>0 DEF JobInv, RowsAreOld
  <2>2. /\ DOMAIN jobs' = DOMAIN jobs \cup {key} /\ rows' = rows + 1
        /\ \A j \in DOMAIN jobs : jobs'[j] = jobs[j]
        /\ jobs'[key].status = "waiting"
    BY <1>3, <2>1 DEF RequestEnqueues
  <2> HIDE DEF key
  <2>3. RowsAreOld'
    <3>1. \A k \in DOMAIN jobs : k.id \in Nat /\ k.id < rows
      BY DEF TypeOK, Key, JobInv, RowsAreOld
    <3>2. ASSUME NEW ws \in Workspaces, NEW i \in 1..Len(drafts[ws])
          PROVE  drafts[ws][i].id \in Nat /\ drafts[ws][i].id < rows
      <4>1. drafts[ws][i] \in Key
        BY ElementOfSeq DEF TypeOK
      <4>2. QED
        BY <4>1 DEF Key, JobInv, RowsAreOld
    <3>3. QED
      BY <1>1, <2>0, <2>2, <3>1, <3>2 DEF RowsAreOld
  <2>4. ASSUME Uncrossed(r)
        PROVE  /\ \A k \in requests[r].prior : jobs[k].status \notin Active
               /\ requests[r].prior = WithPrefix(key.ws, key.version)
    BY <1>3, <2>0, <2>4 DEF JobInv, PriorHaveEnded, Ended
  <2>5. PriorHaveEnded'
    <3> SUFFICES ASSUME NEW q \in Requesters, Uncrossed(q)'
                 PROVE  /\ \A k \in requests'[q].prior : Ended(q, k)'
                        /\ \/ requests'[q].prior = WithPrefix(requests[q].ws, requests[q].version)'
                           \/ Taken(q)'
      BY DEF PriorHaveEnded
    <3>1. q # r /\ requests'[q] = requests[q] /\ Uncrossed(q)
      BY <1>1 DEF NoRequest, Uncrossed
    <3>2. /\ \A k \in requests[q].prior : Ended(q, k)
          /\ \/ requests[q].prior = WithPrefix(requests[q].ws, requests[q].version)
             \/ Taken(q)
      BY <3>1 DEF JobInv, PriorHaveEnded
    <3>3. \A k \in requests'[q].prior : Ended(q, k)'
      BY <2>2, <3>1, <3>2 DEF Ended, WithPrefix
    <3>4. CASE Taken(q)
      <4>1. Taken(q)'
        BY <2>2, <3>1, <3>4 DEF Taken, NumberOf, WithPrefix
      <4>2. QED
        BY <3>3, <4>1
    <3>5. CASE /\ ~Taken(q) /\ requests[q].ws = key.ws /\ requests[q].version = key.version
      <4>1. Uncrossed(r)
        BY <1>1, <2>0, <3>1, <3>5 DEF Uncrossed
      <4>2. requests[q].prior = requests[r].prior
        BY <2>4, <3>2, <3>5, <4>1
      <4>3. key.n = NumberOf(q)
        BY <2>0, <4>2 DEF NumberOf
      <4>4. Taken(q)'
        BY <2>2, <3>1, <3>5, <4>3 DEF Taken, NumberOf, WithPrefix
      <4>5. QED
        BY <3>3, <4>4
    <3>6. CASE ~Taken(q) /\ ~(requests[q].ws = key.ws /\ requests[q].version = key.version)
      <4>1. WithPrefix(requests[q].ws, requests[q].version)' =
               WithPrefix(requests[q].ws, requests[q].version)
        BY <2>2, <3>1, <3>6 DEF WithPrefix
      <4>2. QED
        BY <3>1, <3>2, <3>3, <3>6, <4>1
    <3>7. QED
      BY <3>4, <3>5, <3>6
  <2>6. OneLiveJob'
    <3>1. <<key.ws, key.version>> \notin crossed =>
             \A j \in DOMAIN jobs : j.ws = key.ws /\ j.version = key.version =>
                 jobs[j].status \notin Active
      BY <1>1, <2>0, <2>4 DEF WithPrefix, Uncrossed
    <3>2. QED
      BY <1>1, <2>2, <3>1 DEF JobInv, OneLiveJob
  <2>7. OneDraftPerJob'
    <3>1. \A ws \in Workspaces : DOMAIN drafts[ws] = 1..Len(drafts[ws])
      BY LenProperties DEF TypeOK
    <3>2. \A ws \in Workspaces : \A i \in 1..Len(drafts[ws]) : drafts[ws][i] # key
      BY <2>0 DEF JobInv, RowsAreOld
    <3>3. ASSUME NEW ws \in Workspaces, NEW k \in DOMAIN jobs', k.ws = ws
          PROVE  jobs'[k].status = "succeeded" <=> \E i \in DOMAIN drafts[ws] : drafts[ws][i] = k
      <4>1. CASE k \in DOMAIN jobs
        BY <2>2, <3>3, <4>1 DEF JobInv, OneDraftPerJob
      <4>2. CASE k = key
        BY <2>2, <3>1, <3>2, <3>3, <4>2
      <4>3. QED
        BY <2>2, <3>3, <4>1, <4>2
    <3>4. QED
      BY <1>1, <3>3 DEF JobInv, OneDraftPerJob
  <2>8. QED
    BY <2>3, <2>5, <2>6, <2>7 DEF JobInv
<1>4. QED
  BY <1>2, <1>3

LEMMA PurgeKeeps ==
    ASSUME TypeOK, JobInv, NEW k \in DOMAIN jobs, Purge(k)
    PROVE  JobInv'
<1>1. /\ DOMAIN jobs' = DOMAIN jobs \ {k} /\ drafts' = drafts /\ requests' = requests
      /\ rows' = rows /\ crossed \subseteq crossed'
      /\ Overtakes(k) => <<k.ws, k.version>> \in crossed'
      /\ \A j \in DOMAIN jobs' : jobs'[j] = jobs[j]
  BY DEF Purge
<1>2. RowsAreOld'
  BY <1>1 DEF JobInv, RowsAreOld
<1>3. PriorHaveEnded'
  <2> SUFFICES ASSUME NEW r \in Requesters, Uncrossed(r)'
               PROVE  /\ \A j \in requests[r].prior : Ended(r, j)'
                      /\ \/ requests[r].prior = WithPrefix(requests[r].ws, requests[r].version)'
                         \/ Taken(r)'
    BY <1>1 DEF PriorHaveEnded, WithPrefix
  <2>1. Uncrossed(r) /\ ~(k.ws = requests[r].ws /\ k.version = requests[r].version)
    BY <1>1 DEF Uncrossed, Overtakes
  <2>2. WithPrefix(requests[r].ws, requests[r].version)' =
           WithPrefix(requests[r].ws, requests[r].version)
    BY <1>1, <2>1 DEF WithPrefix
  <2>3. Taken(r)' <=> Taken(r)
    BY <1>1, <2>1, <2>2 DEF Taken, NumberOf, WithPrefix
  <2>4. /\ \A j \in requests[r].prior : Ended(r, j)
        /\ requests[r].prior = WithPrefix(requests[r].ws, requests[r].version) \/ Taken(r)
    BY <2>1 DEF JobInv, PriorHaveEnded
  <2>5. \A j \in requests[r].prior : Ended(r, j)'
    BY <1>1, <2>2, <2>4 DEF Ended, WithPrefix
  <2>6. QED
    BY <2>2, <2>3, <2>4, <2>5
<1>4. OneLiveJob' /\ OneDraftPerJob'
  BY <1>1 DEF JobInv, OneLiveJob, OneDraftPerJob
<1>5. QED
  BY <1>2, <1>3, <1>4 DEF JobInv

LEMMA JobsKept == ASSUME TypeOK, JobInv, [Next]_vars PROVE JobInv'
<1>1. CASE UNCHANGED <<jobs, requests, drafts, rows, crossed>>
  BY <1>1 DEF JobInv, RowsAreOld, PriorHaveEnded, Ended, Uncrossed, Taken, NumberOf, WithPrefix,
              OneLiveJob, OneDraftPerJob
<1>2. QED
  BY <1>1, JobSteps, RewriteKeeps, StoreKeeps, PurgeKeeps, ReadKeeps, FindKeeps, EnqueueKeeps

LEMMA JobInvInit == Init => JobInv
<1> SUFFICES ASSUME Init PROVE JobInv
  OBVIOUS
<1>1. DOMAIN jobs = {} /\ \A r \in Requesters : requests[r].pc = "idle"
  BY DEF Init, NoRequest
<1>2. \A ws \in Workspaces : Len(drafts[ws]) = 0 /\ DOMAIN drafts[ws] = {}
  BY DEF Init
<1>3. QED
  BY <1>1, <1>2 DEF JobInv, RowsAreOld, PriorHaveEnded, Uncrossed, OneLiveJob, OneDraftPerJob

LEMMA JobsHold == Spec => []JobInv
<1>1. TypeOK /\ JobInv /\ [Next]_vars => JobInv'
  BY JobsKept
<1>2. QED
  BY <1>1, JobInvInit, TypeCorrect, PTL DEF Spec

\* Requests for the same draft never have two live jobs, for any requests, threads and
\* purges, unless a purge of one of its jobs overtook a request that had counted them.
THEOREM LiveJobIsSingle == Spec => []OneLiveJob
<1>1. JobInv => OneLiveJob
  BY DEF JobInv
<1>2. QED
  BY <1>1, JobsHold, PTL

\* A job that succeeded stored one draft, any other none.
THEOREM DraftIsSingle == Spec => []OneDraftPerJob
<1>1. JobInv => OneDraftPerJob
  BY DEF JobInv
<1>2. QED
  BY <1>1, JobsHold, PTL

-----------------------------------------------------------------------------
(* Sums of numbers over finite sets.  MapThenSumSet adds up a set one          *)
(* arbitrary element after the other; the lemmas say that the order does not   *)
(* matter, and compare the sums of two sets.  They are about all finite sets,  *)
(* so they are proved by considering a least counterexample (LLMBudget_proofs  *)
(* has the same first lemmas: it is about another specification, and neither   *)
(* module can extend the other).                                               *)

Less == {pair \in Nat \X Nat : pair[1] < pair[2]}

\* A family of finite sets that is not empty has a member of least cardinality.
LEMMA LeastSet ==
    ASSUME NEW F, F # {}, \A S \in F : IsFiniteSet(S)
    PROVE  \E S \in F : \A T \in F : Cardinality(S) <= Cardinality(T)
<1> DEFINE sizes == {Cardinality(S) : S \in F}
<1>1. \A S \in F : Cardinality(S) \in Nat
  BY FS_CardinalityType
<1>2. sizes \subseteq Nat /\ sizes # {}
  BY <1>1
<1>3. OpToRel(<, Nat) = Less
  BY Zenon DEF OpToRel, Less
<1>4. IsWellFoundedOn(Less, Nat)
  BY <1>3, NatLessThanWellFounded
<1> HIDE DEF sizes
<1>5. PICK n \in sizes : \A m \in sizes : <<m, n>> \notin Less
  BY <1>2, <1>4, WFMin
<1>6. ASSUME NEW m \in sizes PROVE n <= m
  <2>1. m \in Nat /\ n \in Nat /\ <<m, n>> \in Nat \X Nat
    BY <1>2
  <2>2. ~(<<m, n>>[1] < <<m, n>>[2])
    BY <1>5, <2>1 DEF Less
  <2>3. QED
    BY <2>1, <2>2
<1>7. PICK S \in F : n = Cardinality(S)
  BY DEF sizes
<1>8. ASSUME NEW T \in F PROVE Cardinality(S) <= Cardinality(T)
  <2>1. Cardinality(T) \in sizes
    BY DEF sizes
  <2>2. QED
    BY <1>6, <1>7, <2>1
<1>9. QED
  BY <1>8

-----------------------------------------------------------------------------
\* The recursion MapThenSumSet computes, for the numbers v: g is the sum of each set of D.
Pick(s) == CHOOSE x \in s : TRUE
Adds(v, D, g) ==
    g = [s \in D |-> IF s = {} THEN 0 ELSE v[Pick(s)] + g[s \ {Pick(s)}]]

LEMMA PickIn == ASSUME NEW s, s # {} PROVE Pick(s) \in s
  BY DEF Pick

\* A set without its first element is a smaller one.
LEMMA Smaller ==
    ASSUME NEW s, IsFiniteSet(s), s # {}
    PROVE  /\ Cardinality(s) \in Nat /\ Cardinality(s \ {Pick(s)}) \in Nat
           /\ Cardinality(s \ {Pick(s)}) < Cardinality(s)
           /\ IsFiniteSet(s \ {Pick(s)})
<1>1. Pick(s) \in s
  BY PickIn
<1> DEFINE x == Pick(s)
<1> HIDE DEF x
<1>2. IsFiniteSet(s \ {x}) /\ Cardinality(s \ {x}) = Cardinality(s) - 1
  BY <1>1, FS_RemoveElement DEF x
<1>3. Cardinality(s) \in Nat /\ Cardinality(s \ {x}) \in Nat
  BY <1>2, FS_CardinalityType
<1>4. QED
  BY <1>2, <1>3 DEF x

\* Two sums agree on the sets both have.
LEMMA SumsAgree ==
    ASSUME NEW K, IsFiniteSet(K), NEW v, NEW g, Adds(v, SUBSET K, g),
           NEW S \in SUBSET K, NEW h, Adds(v, SUBSET S, h)
    PROVE  \A T \in SUBSET S : h[T] = g[T]
<1> DEFINE Bad == {T \in SUBSET S : h[T] # g[T]}
<1> SUFFICES ASSUME Bad # {} PROVE FALSE
  OBVIOUS
<1>1. \A T \in Bad : IsFiniteSet(T) /\ T \in SUBSET S /\ T \in SUBSET K
  BY FS_Subset
<1>2. PICK T \in Bad : \A U \in Bad : Cardinality(T) <= Cardinality(U)
  <2> HIDE DEF Bad
  <2>1. QED
    BY <1>1, LeastSet
<1>3. h[T] = (IF T = {} THEN 0 ELSE v[Pick(T)] + h[T \ {Pick(T)}])
  BY <1>1 DEF Adds
<1>4. g[T] = (IF T = {} THEN 0 ELSE v[Pick(T)] + g[T \ {Pick(T)}])
  BY <1>1 DEF Adds
<1>5. T # {}
  BY <1>3, <1>4
<1>6. T \ {Pick(T)} \notin Bad
  <2>1. /\ Cardinality(T) \in Nat /\ Cardinality(T \ {Pick(T)}) \in Nat
        /\ Cardinality(T \ {Pick(T)}) < Cardinality(T)
    BY <1>1, <1>5, Smaller
  <2> HIDE DEF Bad
  <2>2. QED
    BY <1>2, <2>1
<1>7. h[T \ {Pick(T)}] = g[T \ {Pick(T)}]
  BY <1>1, <1>6
<1>8. QED
  BY <1>3, <1>4, <1>5, <1>7

\* Every finite set has its sums: first those of its subsets up to n elements, for any n.
UpTo(K, n) == {T \in SUBSET K : Cardinality(T) <= n}

LEMMA SumsExtend ==
    ASSUME NEW K, IsFiniteSet(K), NEW v, NEW n \in Nat, NEW g, Adds(v, UpTo(K, n), g)
    PROVE  \E h : Adds(v, UpTo(K, n + 1), h)
<1> DEFINE h == [T \in UpTo(K, n + 1) |->
                   IF T \in UpTo(K, n) THEN g[T] ELSE v[Pick(T)] + g[T \ {Pick(T)}]]
<1>1. ASSUME NEW T \in UpTo(K, n + 1)
      PROVE  h[T] = (IF T = {} THEN 0 ELSE v[Pick(T)] + h[T \ {Pick(T)}])
  <2>1. T \in SUBSET K /\ IsFiniteSet(T) /\ Cardinality(T) \in Nat
    BY FS_Subset, FS_CardinalityType DEF UpTo
  <2>2. CASE T = {}
    <3>1. T \in UpTo(K, n)
      BY <2>2, FS_EmptySet DEF UpTo
    <3>2. g[T] = 0
      BY <2>2, <3>1 DEF Adds
    <3>3. QED
      BY <2>2, <3>1, <3>2
  <2>3. CASE T # {}
    <3> DEFINE U == T \ {Pick(T)}
    <3>1. /\ Cardinality(U) \in Nat /\ Cardinality(U) < Cardinality(T)
      BY <2>1, <2>3, Smaller
    <3>2. U \in UpTo(K, n) /\ U \in UpTo(K, n + 1)
      BY <2>1, <3>1 DEF UpTo
    <3>3. h[U] = g[U]
      BY <3>2
    <3>4. T \in UpTo(K, n) => g[T] = v[Pick(T)] + g[U]
      BY <2>3 DEF Adds
    <3>5. h[T] = v[Pick(T)] + g[U]
      BY <3>4
    <3>6. QED
      BY <2>3, <3>3, <3>5
  <2>4. QED
    BY <2>2, <2>3
<1>2. h = [T \in UpTo(K, n + 1) |-> IF T = {} THEN 0 ELSE v[Pick(T)] + h[T \ {Pick(T)}]]
  BY <1>1
<1> HIDE DEF h
<1>3. QED
  BY <1>2 DEF Adds

LEMMA SumsExist ==
    ASSUME NEW K, IsFiniteSet(K), NEW v
    PROVE  \E g : Adds(v, SUBSET K, g)
<1> DEFINE Has(n) == \E g : Adds(v, UpTo(K, n), g)
           Bad == {n \in Nat : ~Has(n)}
<1>1. Has(0)
  <2>1. UpTo(K, 0) = {{}}
    <3>1. \A T \in SUBSET K : IsFiniteSet(T) /\ Cardinality(T) \in Nat
      BY FS_Subset, FS_CardinalityType
    <3>2. \A T \in SUBSET K : Cardinality(T) <= 0 <=> T = {}
      BY <3>1, FS_EmptySet
    <3>3. QED
      BY <3>2 DEF UpTo
  <2>2. Adds(v, {{}}, [s \in {{}} |-> 0])
    BY DEF Adds
  <2>3. QED
    BY <2>1, <2>2
<1>2. ASSUME NEW n \in Nat, Has(n) PROVE Has(n + 1)
  BY <1>2, SumsExtend
<1>3. \A n \in Nat : Has(n)
  <2> SUFFICES ASSUME Bad # {} PROVE FALSE
    OBVIOUS
  <2>1. OpToRel(<, Nat) = Less
    BY Zenon DEF OpToRel, Less
  <2>2. IsWellFoundedOn(Less, Nat)
    BY <2>1, NatLessThanWellFounded
  <2>3. Bad \subseteq Nat
    OBVIOUS
  <2>4. PICK n \in Bad : \A m \in Bad : <<m, n>> \notin Less
    <3> HIDE DEF Bad
    <3>1. QED
      BY <2>2, <2>3, WFMin
  <2>5. n \in Nat /\ ~Has(n)
    OBVIOUS
  <2> HIDE DEF Has
  <2>6. n # 0
    BY <1>1, <2>5
  <2>7. n - 1 \in Nat /\ n = (n - 1) + 1
    BY <2>5, <2>6
  <2>8. <<n - 1, n>> \in Less
    BY <2>5, <2>7 DEF Less
  <2>9. Has(n - 1)
    BY <2>4, <2>7, <2>8
  <2>10. Has((n - 1) + 1)
    BY <1>2, <2>7, <2>9
  <2>11. QED
    BY <2>5, <2>7, <2>10
<1>4. UpTo(K, Cardinality(K)) = SUBSET K
  BY FS_Subset DEF UpTo
<1>5. Has(Cardinality(K))
  <2>1. Cardinality(K) \in Nat
    BY FS_CardinalityType
  <2> HIDE DEF Has
  <2>2. QED
    BY <1>3, <2>1
<1>6. QED
  BY <1>4, <1>5

-----------------------------------------------------------------------------
\* The sum of the numbers v over the subsets of K.
Totals(K, v) == CHOOSE g : Adds(v, SUBSET K, g)
Sum(K, v, S) == Totals(K, v)[S]

LEMMA SumUnfolds ==
    ASSUME NEW K, IsFiniteSet(K), NEW v, NEW S \in SUBSET K
    PROVE  Sum(K, v, S) = IF S = {} THEN 0 ELSE v[Pick(S)] + Sum(K, v, S \ {Pick(S)})
<1>1. Adds(v, SUBSET K, Totals(K, v))
  BY SumsExist DEF Totals
<1>2. QED
  BY <1>1 DEF Adds, Sum

\* It is what any other recursion over the subsets of S computes.
LEMMA SumIs ==
    ASSUME NEW K, IsFiniteSet(K), NEW v, NEW S \in SUBSET K, NEW h, Adds(v, SUBSET S, h)
    PROVE  h[S] = Sum(K, v, S)
<1>1. Adds(v, SUBSET K, Totals(K, v))
  BY SumsExist DEF Totals
<1>2. QED
  BY <1>1, SumsAgree DEF Sum

LEMMA SumIsNat ==
    ASSUME NEW K, IsFiniteSet(K), NEW v \in [K -> Nat]
    PROVE  \A S \in SUBSET K : Sum(K, v, S) \in Nat
<1> DEFINE Bad == {S \in SUBSET K : Sum(K, v, S) \notin Nat}
<1> SUFFICES ASSUME Bad # {} PROVE FALSE
  OBVIOUS
<1>1. \A S \in Bad : IsFiniteSet(S) /\ S \in SUBSET K
  BY FS_Subset
<1>2. PICK S \in Bad : \A U \in Bad : Cardinality(S) <= Cardinality(U)
  <2> HIDE DEF Bad
  <2>1. QED
    BY <1>1, LeastSet
<1>3. Sum(K, v, S) = IF S = {} THEN 0 ELSE v[Pick(S)] + Sum(K, v, S \ {Pick(S)})
  BY <1>1, SumUnfolds
<1>4. S # {} /\ Pick(S) \in K
  BY <1>1, <1>3, PickIn
<1>5. S \ {Pick(S)} \notin Bad
  <2>1. /\ Cardinality(S) \in Nat /\ Cardinality(S \ {Pick(S)}) \in Nat
        /\ Cardinality(S \ {Pick(S)}) < Cardinality(S)
    BY <1>1, <1>4, Smaller
  <2> HIDE DEF Bad
  <2>2. QED
    BY <1>2, <2>1
<1>6. Sum(K, v, S \ {Pick(S)}) \in Nat
  BY <1>1, <1>5
<1>7. v[Pick(S)] \in Nat
  BY <1>4
<1>8. v[Pick(S)] + Sum(K, v, S \ {Pick(S)}) \in Nat
  BY <1>6, <1>7
<1>9. QED
  BY <1>3, <1>4, <1>8

\* Any element may be added first.
LEMMA SumSplits ==
    ASSUME NEW K, IsFiniteSet(K), NEW v \in [K -> Nat]
    PROVE  \A S \in SUBSET K : \A y \in S : Sum(K, v, S) = v[y] + Sum(K, v, S \ {y})
<1> DEFINE Bad == {S \in SUBSET K : \E y \in S : Sum(K, v, S) # v[y] + Sum(K, v, S \ {y})}
<1> SUFFICES ASSUME Bad # {} PROVE FALSE
  OBVIOUS
<1>1. \A S \in Bad : IsFiniteSet(S) /\ S \in SUBSET K /\ S # {}
  BY FS_Subset
<1>2. PICK S \in Bad : \A U \in Bad : Cardinality(S) <= Cardinality(U)
  <2> HIDE DEF Bad
  <2>1. QED
    BY <1>1, LeastSet
<1> DEFINE x == Pick(S)
<1>3. x \in S
  BY <1>1, PickIn
<1>4. Sum(K, v, S) = v[x] + Sum(K, v, S \ {x})
  BY <1>1, SumUnfolds
<1>5. PICK y \in S : Sum(K, v, S) # v[y] + Sum(K, v, S \ {y})
  OBVIOUS
<1>6. S \in SUBSET K /\ x # y
  BY <1>1, <1>4, <1>5
<1>7. \A z \in S : S \ {z} \notin Bad
  <2>1. Cardinality(S) \in Nat /\ \A z \in S : Cardinality(S \ {z}) = Cardinality(S) - 1
    BY <1>1, FS_CardinalityType, FS_RemoveElement
  <2> HIDE DEF Bad
  <2>2. QED
    BY <1>2, <2>1
<1>8. \A z \in S, u \in S : u # z =>
         Sum(K, v, S \ {z}) = v[u] + Sum(K, v, (S \ {z}) \ {u})
  BY <1>6, <1>7
<1>9. /\ Sum(K, v, S \ {x}) = v[y] + Sum(K, v, (S \ {x}) \ {y})
      /\ Sum(K, v, S \ {y}) = v[x] + Sum(K, v, (S \ {y}) \ {x})
  BY <1>3, <1>6, <1>8
<1>10. (S \ {x}) \ {y} = (S \ {y}) \ {x}
  OBVIOUS
<1>11. v[x] \in Nat /\ v[y] \in Nat
  BY <1>3, <1>6
<1>12. Sum(K, v, (S \ {x}) \ {y}) \in Nat
  BY <1>6, SumIsNat
<1> HIDE DEF x
<1>13. QED
  BY <1>4, <1>5, <1>9, <1>10, <1>11, <1>12

LEMMA SumOfNone ==
    ASSUME NEW K, IsFiniteSet(K), NEW v
    PROVE  Sum(K, v, {}) = 0
  BY SumUnfolds

\* One sum is at most another: what both add is at most as much in the first, and what only
\* the first adds is nothing.
LEMMA SumAtMost ==
    ASSUME NEW K, IsFiniteSet(K), NEW v \in [K -> Nat], NEW w \in [K -> Nat],
           NEW S \in SUBSET K, NEW T \in SUBSET K,
           \A k \in S : IF k \in T THEN v[k] <= w[k] ELSE v[k] = 0
    PROVE  Sum(K, v, S) <= Sum(K, w, T)
<1> DEFINE Under(A, B) == \A k \in A : IF k \in B THEN v[k] <= w[k] ELSE v[k] = 0
           Law(A) == \A B \in SUBSET K : Under(A, B) => Sum(K, v, A) <= Sum(K, w, B)
           Bad == {A \in SUBSET K : ~Law(A)}
<1>1. ASSUME Bad # {} PROVE FALSE
  <2>1. \A A \in Bad : IsFiniteSet(A) /\ A \in SUBSET K
    BY FS_Subset
  <2>2. PICK A \in Bad : \A C \in Bad : Cardinality(A) <= Cardinality(C)
    <3> HIDE DEF Bad
    <3>1. QED
      BY <1>1, <2>1, LeastSet
  <2>3. PICK B \in SUBSET K : Under(A, B) /\ ~(Sum(K, v, A) <= Sum(K, w, B))
    OBVIOUS
  <2>4. Sum(K, v, A) \in Nat /\ Sum(K, w, B) \in Nat
    BY <2>1, SumIsNat
  <2>5. A # {}
    <3>1. A = {} => Sum(K, v, A) = 0
      BY SumOfNone
    <3>2. QED
      BY <2>3, <2>4, <3>1
  <2> DEFINE x == Pick(A)
             rest == A \ {x}
  <2>6. x \in A /\ x \in K
    BY <2>1, <2>5, PickIn
  <2>7. /\ Cardinality(A) \in Nat /\ Cardinality(rest) \in Nat
        /\ Cardinality(rest) < Cardinality(A)
    BY <2>1, <2>5, Smaller
  <2>8. rest \in SUBSET K /\ rest \subseteq A
    BY <2>1
  <2> HIDE DEF rest, x
  <2>9. rest \notin Bad
    <3> HIDE DEF Bad
    <3>1. QED
      BY <2>2, <2>7
  <2>10. Law(rest)
    BY <2>8, <2>9
  <2>11. Sum(K, v, A) = v[x] + Sum(K, v, rest)
    BY <2>1, <2>6, SumSplits DEF rest
  <2>12. v[x] \in Nat /\ w[x] \in Nat /\ Sum(K, v, rest) \in Nat
    BY <2>6, <2>8, SumIsNat
  <2>13. CASE x \in B
    <3> DEFINE fewer == B \ {x}
    <3>1. Sum(K, w, B) = w[x] + Sum(K, w, fewer) /\ Sum(K, w, fewer) \in Nat
      BY <2>13, SumSplits, SumIsNat
    <3>2. Under(rest, fewer)
      BY <2>3, <2>8 DEF rest
    <3>3. fewer \in SUBSET K
      OBVIOUS
    <3> HIDE DEF fewer
    <3>4. Sum(K, v, rest) <= Sum(K, w, fewer)
      BY <2>10, <3>2, <3>3
    <3>5. v[x] <= w[x]
      BY <2>3, <2>6, <2>13
    <3> HIDE DEF Bad, Law, Under
    <3>6. QED
      BY <2>3, <2>11, <2>12, <3>1, <3>4, <3>5
  <2>14. CASE x \notin B
    <3>1. Under(rest, B)
      BY <2>3, <2>8
    <3>2. Sum(K, v, rest) <= Sum(K, w, B)
      BY <2>10, <3>1
    <3>3. v[x] = 0
      BY <2>3, <2>6, <2>14
    <3> HIDE DEF Bad, Law, Under
    <3>4. QED
      BY <2>3, <2>4, <2>11, <2>12, <3>2, <3>3
  <2>15. QED
    BY <2>13, <2>14
<1>2. Law(S)
  BY <1>1
<1>3. Under(S, T)
  OBVIOUS
<1> HIDE DEF Bad, Under
<1>4. QED
  BY <1>2, <1>3

-----------------------------------------------------------------------------
(* The daily ceilings.  The generation lock lets one thread at a time check    *)
(* and reserve, so what it found room for is still there when it has reserved, *)
(* when a day ends meanwhile and when the call settles at its real cost.       *)

Indexes == 1..MaxCalls
Charges(cs, d) == [i \in Indexes |-> IF i \in DOMAIN cs THEN Charge(cs[i], d) ELSE 0]
Cost(cs, d, S) == Sum(Indexes, Charges(cs, d), S)

\* The generation calls of some workspaces, and those of one recorded on a day.
Generations(cs, wss) == {i \in DOMAIN cs : cs[i].ws \in wss /\ cs[i].task = "generate"}
Recorded(cs, ws, d) ==
    {i \in DOMAIN cs : cs[i].ws = ws /\ cs[i].task = "generate" /\ cs[i].recorded = d}

Ledger(cs) == cs \in Seq(Call) /\ Len(cs) <= MaxCalls

LEMMA IndexesFinite == IsFiniteSet(Indexes)
  BY FS_Interval, BoundsAreCounts DEF Indexes

LEMMA ChargeTypes ==
    ASSUME NEW cs, Ledger(cs), NEW d \in Nat
    PROVE  /\ DOMAIN cs = 1..Len(cs) /\ Len(cs) \in Nat /\ DOMAIN cs \subseteq Indexes
           /\ \A i \in DOMAIN cs : cs[i] \in Call /\ Charge(cs[i], d) \in 0..Worst
           /\ Charges(cs, d) \in [Indexes -> Nat]
           /\ \A i \in DOMAIN cs : Charges(cs, d)[i] = Charge(cs[i], d)
<1>1. DOMAIN cs = 1..Len(cs) /\ Len(cs) \in Nat /\ Len(cs) <= MaxCalls
  BY LenProperties DEF Ledger
<1>2. DOMAIN cs \subseteq Indexes
  BY <1>1, BoundsAreCounts DEF Indexes
<1>3. \A i \in DOMAIN cs : cs[i] \in Call
  BY <1>1, ElementOfSeq DEF Ledger
<1>4. \A c \in Call : Charge(c, d) \in 0..Worst
  BY CostsAreBounded DEF Charge, Call
<1>5. \A i \in DOMAIN cs : Charge(cs[i], d) \in Nat
  BY <1>3, <1>4
<1>6. Charges(cs, d) \in [Indexes -> Nat]
  BY <1>5 DEF Charges
<1>7. \A i \in DOMAIN cs : Charges(cs, d)[i] = Charge(cs[i], d)
  BY <1>2 DEF Charges
<1>8. QED
  BY <1>1, <1>2, <1>3, <1>4, <1>6, <1>7

LEMMA ChargeIsNat ==
    ASSUME NEW cs, Ledger(cs), NEW d \in Nat
    PROVE  \A i \in DOMAIN cs : Charge(cs[i], d) \in Nat
<1>1. \A i \in DOMAIN cs : Charge(cs[i], d) \in 0..Worst
  BY ChargeTypes
<1>2. QED
  BY <1>1

\* The sums the ceilings are about are those of the lemmas above.
LEMMA ChargesAddUp ==
    ASSUME NEW cs, Ledger(cs), NEW d \in Nat, NEW S \in SUBSET DOMAIN cs
    PROVE  MapThenSumSet(LAMBDA i : Charge(cs[i], d), S) = Cost(cs, d, S)
<1> DEFINE v == Charges(cs, d)
           body(g) == [s \in SUBSET S |->
              IF s = {} THEN 0
              ELSE Charge(cs[CHOOSE x \in s : TRUE], d) + g[s \ {CHOOSE x \in s : TRUE}]]
           iter == CHOOSE g : g = body(g)
<1>1. MapThenSumSet(LAMBDA i : Charge(cs[i], d), S) = iter[S]
  BY Zenon DEF MapThenSumSet, MapThenFoldSet
<1>2. ASSUME NEW s \in SUBSET S, s # {} PROVE v[Pick(s)] = Charge(cs[CHOOSE x \in s : TRUE], d)
  <2>1. Pick(s) \in DOMAIN cs
    BY <1>2, PickIn
  <2>2. v[Pick(s)] = Charge(cs[Pick(s)], d)
    BY <2>1, ChargeTypes
  <2>3. QED
    BY <2>2 DEF Pick
<1>3. ASSUME NEW h PROVE (h = body(h)) <=> Adds(v, SUBSET S, h)
  <2> HIDE DEF v
  <2>1. body(h) = [s \in SUBSET S |-> IF s = {} THEN 0 ELSE v[Pick(s)] + h[s \ {Pick(s)}]]
    BY <1>2 DEF Pick
  <2>2. QED
    BY <2>1 DEF Adds
<1>4. S \in SUBSET Indexes /\ IsFiniteSet(S)
  BY ChargeTypes, IndexesFinite, FS_Subset
<1>5. PICK h : Adds(v, SUBSET S, h)
  BY <1>4, SumsExist
<1>6. iter = body(iter)
  <2>1. h = body(h)
    BY <1>3, <1>5
  <2>2. \E g : g = body(g)
    BY <2>1
  <2>3. QED
    BY <2>2
<1>7. Adds(v, SUBSET S, iter)
  BY <1>3, <1>6
<1> HIDE DEF iter, v
<1>8. iter[S] = Sum(Indexes, v, S)
  BY <1>4, <1>7, IndexesFinite, SumIs
<1>9. QED
  BY <1>1, <1>8 DEF v, Cost

\* What a set of calls costs is a number, and comparing calls compares costs.
LEMMA CostIsNat ==
    ASSUME NEW cs, Ledger(cs), NEW d \in Nat, NEW S \in SUBSET Indexes
    PROVE  Cost(cs, d, S) \in Nat
  BY ChargeTypes, IndexesFinite, SumIsNat DEF Cost

LEMMA CostAtMost ==
    ASSUME NEW cs, Ledger(cs), NEW ds, Ledger(ds), NEW d \in Nat,
           NEW S \in SUBSET DOMAIN cs, NEW T \in SUBSET DOMAIN ds,
           \A i \in S : IF i \in T THEN Charge(cs[i], d) <= Charge(ds[i], d)
                        ELSE Charge(cs[i], d) = 0
    PROVE  Cost(cs, d, S) <= Cost(ds, d, T)
<1>1. S \in SUBSET Indexes /\ T \in SUBSET Indexes
  BY ChargeTypes
<1>2. Charges(cs, d) \in [Indexes -> Nat] /\ Charges(ds, d) \in [Indexes -> Nat]
  BY ChargeTypes
<1>3. \A i \in S : Charges(cs, d)[i] = Charge(cs[i], d)
  BY ChargeTypes
<1>4. \A i \in T : Charges(ds, d)[i] = Charge(ds[i], d)
  BY ChargeTypes
<1>5. \A i \in S : IF i \in T THEN Charges(cs, d)[i] <= Charges(ds, d)[i] ELSE Charges(cs, d)[i] = 0
  BY <1>3, <1>4
<1>6. QED
  BY <1>1, <1>2, <1>5, IndexesFinite, SumAtMost DEF Cost

LEMMA SameSetAtMost ==
    ASSUME NEW cs, Ledger(cs), NEW ds, Ledger(ds), NEW d \in Nat, NEW S,
           S \subseteq DOMAIN cs, S \subseteq DOMAIN ds,
           \A i \in S : Charge(cs[i], d) <= Charge(ds[i], d)
    PROVE  Cost(cs, d, S) <= Cost(ds, d, S)
<1>1. \A i \in S : IF i \in S THEN Charge(cs[i], d) <= Charge(ds[i], d) ELSE Charge(cs[i], d) = 0
  OBVIOUS
<1>2. QED
  BY <1>1, CostAtMost

\* One call costs its charge, which is at most the worst case.
LEMMA CostOfOneMore ==
    ASSUME NEW cs, Ledger(cs), NEW d \in Nat, NEW S \in SUBSET DOMAIN cs, NEW i \in S
    PROVE  Cost(cs, d, S) <= Cost(cs, d, S \ {i}) + Worst
<1>1. /\ S \in SUBSET Indexes /\ S \ {i} \in SUBSET Indexes
      /\ Charges(cs, d) \in [Indexes -> Nat] /\ Charges(cs, d)[i] \in 0..Worst
  BY ChargeTypes
<1>2. Cost(cs, d, S) = Charges(cs, d)[i] + Cost(cs, d, S \ {i})
  BY <1>1, IndexesFinite, SumSplits DEF Cost
<1>3. Cost(cs, d, S \ {i}) \in Nat
  BY <1>1, CostIsNat
<1>4. QED
  BY <1>1, <1>2, <1>3, CostsAreBounded

\* Nothing is charged to a day that has not come.
LEMMA NothingAhead ==
    ASSUME NEW cs, Ledger(cs), NEW d \in Nat \ {0}, NEW S \in SUBSET DOMAIN cs,
           \A i \in DOMAIN cs : cs[i].made < d /\ cs[i].recorded < d
    PROVE  /\ Cost(cs, d, S) = 0
           /\ \A ws : Recorded(cs, ws, d) = {}
<1>1. \A i \in DOMAIN cs : cs[i].made \in Nat /\ cs[i].recorded \in Nat
  BY ChargeTypes DEF Call
<1>2. \A i \in DOMAIN cs : Charge(cs[i], d) = 0
  BY <1>1 DEF Charge
<1>3. Cost(cs, d, S) <= Cost(cs, d, {})
  BY <1>2, CostAtMost
<1>4. Cost(cs, d, {}) = 0
  BY IndexesFinite, SumOfNone DEF Cost
<1>5. Cost(cs, d, S) \in Nat
  <2>1. S \in SUBSET Indexes
    BY ChargeTypes
  <2>2. QED
    BY <2>1, CostIsNat
<1>6. \A ws : Recorded(cs, ws, d) = {}
  BY <1>1 DEF Recorded
<1>7. QED
  BY <1>3, <1>4, <1>5, <1>6

LEMMA RecordedIsFinite ==
    ASSUME NEW cs, Ledger(cs), NEW ws, NEW d
    PROVE  IsFiniteSet(Recorded(cs, ws, d)) /\ Cardinality(Recorded(cs, ws, d)) \in Nat
<1>1. DOMAIN cs \subseteq Indexes
  BY ChargeTypes, 0 \in Nat
<1>2. IsFiniteSet(Recorded(cs, ws, d))
  BY <1>1, IndexesFinite, FS_Subset DEF Recorded
<1>3. QED
  BY <1>2, FS_CardinalityType

\* A ledger with one more row.
LEMMA Appended ==
    ASSUME NEW cs, Ledger(cs), Len(cs) < MaxCalls, NEW row \in Call
    PROVE  /\ Ledger(Append(cs, row))
           /\ DOMAIN Append(cs, row) = DOMAIN cs \cup {Len(cs) + 1} /\ Len(cs) + 1 \notin DOMAIN cs
           /\ Len(Append(cs, row)) = Len(cs) + 1
           /\ \A i \in DOMAIN cs : Append(cs, row)[i] = cs[i]
           /\ Append(cs, row)[Len(cs) + 1] = row
<1>1. cs \in Seq(Call) /\ Len(cs) \in Nat /\ DOMAIN cs = 1..Len(cs)
  BY LenProperties DEF Ledger
<1>2. /\ Append(cs, row) \in Seq(Call) /\ Len(Append(cs, row)) = Len(cs) + 1
      /\ \A i \in 1..Len(cs) : Append(cs, row)[i] = cs[i]
      /\ Append(cs, row)[Len(cs) + 1] = row
  BY <1>1, AppendProperties
<1>3. DOMAIN Append(cs, row) = 1..(Len(cs) + 1)
  BY <1>2, LenProperties
<1>4. Ledger(Append(cs, row))
  BY <1>1, <1>2, BoundsAreCounts DEF Ledger
<1>5. QED
  BY <1>1, <1>2, <1>3, <1>4

\* Spending of another kind is not generation's.
LEMMA OtherCalls ==
    ASSUME NEW cs, Ledger(cs), Len(cs) < MaxCalls, NEW row \in Call, row.task = "other"
    PROVE  /\ \A wss : Generations(Append(cs, row), wss) = Generations(cs, wss)
           /\ \A ws, d : Recorded(Append(cs, row), ws, d) = Recorded(cs, ws, d)
           /\ \A d \in Nat : \A S \in SUBSET DOMAIN cs : Cost(Append(cs, row), d, S) <= Cost(cs, d, S)
<1> DEFINE ds == Append(cs, row)
           n == Len(cs) + 1
<1>1. /\ Ledger(ds) /\ DOMAIN ds = DOMAIN cs \cup {n} /\ n \notin DOMAIN cs
      /\ \A i \in DOMAIN cs : ds[i] = cs[i]
      /\ ds[n] = row
  BY Appended
<1> HIDE DEF ds, n
<1>2. \A wss : Generations(ds, wss) = Generations(cs, wss)
  BY <1>1 DEF Generations
<1>3. \A ws, d : Recorded(ds, ws, d) = Recorded(cs, ws, d)
  BY <1>1 DEF Recorded
<1>4. ASSUME NEW d \in Nat, NEW S \in SUBSET DOMAIN cs PROVE Cost(ds, d, S) <= Cost(cs, d, S)
  <2>1. \A i \in S : Charge(ds[i], d) = Charge(cs[i], d) /\ Charge(cs[i], d) \in Nat
    BY <1>1, ChargeIsNat
  <2>2. S \in SUBSET DOMAIN ds
    BY <1>1
  <2>3. QED
    BY <1>1, <2>1, <2>2, SameSetAtMost
<1>5. QED
  BY <1>2, <1>3, <1>4 DEF ds

\* A reservation counts at its worst case, on the day it was made and in its workspace.
LEMMA ReservedCalls ==
    ASSUME NEW cs, Ledger(cs), Len(cs) < MaxCalls, NEW row \in Call, row.task = "generate",
           row.recorded = 0
    PROVE  /\ \A wss : /\ Generations(Append(cs, row), wss) \ {Len(cs) + 1} = Generations(cs, wss)
                       /\ row.ws \notin wss => Generations(Append(cs, row), wss) = Generations(cs, wss)
           /\ \A ws : \A d \in Nat \ {0} : Recorded(Append(cs, row), ws, d) = Recorded(cs, ws, d)
           /\ \A d \in Nat : \A wss :
                /\ Cost(Append(cs, row), d, Generations(cs, wss)) <= Cost(cs, d, Generations(cs, wss))
                /\ Cost(Append(cs, row), d, Generations(Append(cs, row), wss))
                     <= Cost(cs, d, Generations(cs, wss)) + Worst
                /\ d # row.made => Cost(Append(cs, row), d, Generations(Append(cs, row), wss))
                                     <= Cost(cs, d, Generations(cs, wss))
<1> DEFINE ds == Append(cs, row)
           n == Len(cs) + 1
<1>1. /\ Ledger(ds) /\ DOMAIN ds = DOMAIN cs \cup {n} /\ n \notin DOMAIN cs
      /\ \A i \in DOMAIN cs : ds[i] = cs[i]
      /\ ds[n] = row
  BY Appended
<1> HIDE DEF ds, n
<1>2. \A wss : /\ Generations(ds, wss) \ {n} = Generations(cs, wss)
               /\ row.ws \notin wss => Generations(ds, wss) = Generations(cs, wss)
  BY <1>1 DEF Generations
<1>3. \A ws : \A d \in Nat \ {0} : Recorded(ds, ws, d) = Recorded(cs, ws, d)
  BY <1>1 DEF Recorded
<1>4. ASSUME NEW d \in Nat, NEW wss
      PROVE  /\ Cost(ds, d, Generations(cs, wss)) <= Cost(cs, d, Generations(cs, wss))
             /\ Cost(ds, d, Generations(ds, wss)) <= Cost(cs, d, Generations(cs, wss)) + Worst
             /\ d # row.made => Cost(ds, d, Generations(ds, wss)) <= Cost(cs, d, Generations(cs, wss))
  <2> DEFINE S == Generations(cs, wss)
             T == Generations(ds, wss)
  <2>1. S \subseteq DOMAIN cs /\ T \subseteq DOMAIN ds /\ S \subseteq DOMAIN ds /\ T \ {n} = S
    BY <1>1, <1>2 DEF Generations
  <2> HIDE DEF S, T
  <2>2. \A i \in DOMAIN cs : Charge(ds[i], d) = Charge(cs[i], d) /\ Charge(cs[i], d) \in Nat
    BY <1>1, ChargeIsNat
  <2>3. Cost(ds, d, S) <= Cost(cs, d, S)
    <3>1. \A i \in S : Charge(ds[i], d) = Charge(cs[i], d) /\ Charge(cs[i], d) \in Nat
      BY <2>1, <2>2
    <3>2. QED
      BY <1>1, <2>1, <3>1, SameSetAtMost
  <2>4. S \in SUBSET Indexes /\ T \in SUBSET Indexes
    BY <1>1, <2>1, ChargeTypes
  <2>5. Cost(ds, d, S) \in Nat /\ Cost(cs, d, S) \in Nat /\ Cost(ds, d, T) \in Nat
    BY <1>1, <2>4, CostIsNat
  <2>6. Cost(ds, d, T) <= Cost(cs, d, S) + Worst
    <3>1. CASE n \in T
      <4>1. Cost(ds, d, T) <= Cost(ds, d, S) + Worst
        BY <1>1, <2>1, <3>1, CostOfOneMore
      <4>2. QED
        BY <2>3, <2>5, <4>1, CostsAreBounded
    <3>2. CASE n \notin T
      <4>1. T = S
        BY <2>1, <3>2
      <4>2. QED
        BY <2>3, <2>5, <4>1, CostsAreBounded
    <3>3. QED
      BY <3>1, <3>2
  <2>7. ASSUME d # row.made PROVE Cost(ds, d, T) <= Cost(cs, d, S)
    <3>1. Charge(ds[n], d) = 0
      BY <1>1, <2>7 DEF Charge
    <3>2. \A i \in T : IF i \in S THEN Charge(ds[i], d) <= Charge(cs[i], d) ELSE Charge(ds[i], d) = 0
      BY <2>1, <2>2, <3>1
    <3>3. QED
      BY <1>1, <2>1, <3>2, CostAtMost
  <2>8. QED
    BY <2>3, <2>6, <2>7 DEF S, T
<1>5. QED
  BY <1>2, <1>3, <1>4 DEF ds, n

\* A call that settles moves from the day it was made to the day it is recorded, where it
\* costs at most the worst case.
LEMMA SettledCalls ==
    ASSUME NEW cs, Ledger(cs), NEW ds, Ledger(ds), NEW k \in DOMAIN cs, DOMAIN ds = DOMAIN cs,
           \A i \in DOMAIN cs : i # k => ds[i] = cs[i],
           cs[k].task = "generate", ds[k].task = "generate", ds[k].ws = cs[k].ws,
           ds[k].recorded # 0
    PROVE  /\ \A wss : Generations(ds, wss) = Generations(cs, wss)
           /\ \A ws : \A d : /\ Recorded(ds, ws, d) \subseteq Recorded(cs, ws, d) \cup {k}
                             /\ ws # cs[k].ws \/ d # ds[k].recorded
                                  => Recorded(ds, ws, d) \subseteq Recorded(cs, ws, d)
           /\ \A d \in Nat : \A wss :
                /\ Cost(ds, d, Generations(ds, wss)) <= Cost(cs, d, Generations(cs, wss) \ {k}) + Worst
                /\ cs[k].ws \notin wss \/ d # ds[k].recorded
                     => Cost(ds, d, Generations(ds, wss)) <= Cost(cs, d, Generations(cs, wss))
<1>1. \A wss : Generations(ds, wss) = Generations(cs, wss)
  BY DEF Generations
<1>2. \A ws : \A d : /\ Recorded(ds, ws, d) \subseteq Recorded(cs, ws, d) \cup {k}
                     /\ ws # cs[k].ws \/ d # ds[k].recorded
                          => Recorded(ds, ws, d) \subseteq Recorded(cs, ws, d)
  BY DEF Recorded
<1>3. ASSUME NEW d \in Nat, NEW wss
      PROVE  /\ Cost(ds, d, Generations(cs, wss)) <= Cost(cs, d, Generations(cs, wss) \ {k}) + Worst
             /\ cs[k].ws \notin wss \/ d # ds[k].recorded
                  => Cost(ds, d, Generations(cs, wss)) <= Cost(cs, d, Generations(cs, wss))
  <2> DEFINE S == Generations(cs, wss)
  <2>1. S \subseteq DOMAIN cs /\ (k \in S <=> cs[k].ws \in wss)
    BY DEF Generations
  <2> HIDE DEF S
  <2>2. \A i \in DOMAIN cs : /\ i # k => Charge(ds[i], d) = Charge(cs[i], d)
                             /\ Charge(cs[i], d) \in Nat
    BY ChargeIsNat
  <2>3. Cost(ds, d, S \ {k}) <= Cost(cs, d, S \ {k})
    <3>1. S \ {k} \in SUBSET DOMAIN cs
      BY <2>1
    <3>2. \A i \in S \ {k} : Charge(ds[i], d) <= Charge(cs[i], d)
      BY <2>1, <2>2
    <3>3. QED
      BY <3>1, <3>2, SameSetAtMost
  <2>4. S \in SUBSET Indexes
    BY <2>1, ChargeTypes
  <2>5. Cost(ds, d, S \ {k}) \in Nat /\ Cost(cs, d, S \ {k}) \in Nat /\ Cost(ds, d, S) \in Nat
    BY <2>4, CostIsNat
  <2>6. Cost(ds, d, S) <= Cost(cs, d, S \ {k}) + Worst
    <3>1. CASE k \in S
      <4>1. Cost(ds, d, S) <= Cost(ds, d, S \ {k}) + Worst
        BY <2>1, <3>1, CostOfOneMore
      <4>2. QED
        BY <2>3, <2>5, <4>1, CostsAreBounded
    <3>2. CASE k \notin S
      <4>1. S \ {k} = S
        BY <3>2
      <4>2. QED
        BY <2>3, <2>5, <4>1, CostsAreBounded
    <3>3. QED
      BY <3>1, <3>2
  <2>7. ASSUME cs[k].ws \notin wss \/ d # ds[k].recorded PROVE Cost(ds, d, S) <= Cost(cs, d, S)
    <3>1. k \in S => Charge(ds[k], d) = 0
      BY <2>1, <2>7 DEF Charge
    <3>2. \A i \in S : Charge(ds[i], d) <= Charge(cs[i], d)
      BY <2>1, <2>2, <3>1
    <3>3. QED
      BY <2>1, <3>2, SameSetAtMost
  <2>8. QED
    BY <2>6, <2>7 DEF S
<1>4. QED
  BY <1>1, <1>2, <1>3

\* A thread past the generation lock holds it, so there is one at a time.
HoldsLock == \A w \in Workers : workers[w].pc \in UnderLock => globalLock = w

\* No call is made or recorded ahead of its day, and a thread's call is its own.
CallsArePast == \A i \in DOMAIN calls : calls[i].made <= day /\ calls[i].recorded <= day
CallIsOwn ==
    \A w \in Workers : workers[w].pc = "calling" =>
        /\ calls[workers[w].call].recorded = 0
        /\ calls[workers[w].call].task = "generate"
        /\ calls[workers[w].call].ws = Ws(w)

\* Every day is within the ceilings.
Within ==
    \A d \in 1..MaxDay :
        /\ Cost(calls, d, Generations(calls, Workspaces)) <= GlobalCeiling
        /\ \A ws \in Workspaces :
             /\ Cost(calls, d, Generations(calls, {ws})) <= WorkspaceCeiling
             /\ Cardinality(Recorded(calls, ws, d)) <= CallCeiling

\* A thread about to reserve, or with a reservation, has room for it today: its own call
\* left out, the worst case still fits.  A call still counts on the day it was made.
Own(w) == IF At(w, "calling") THEN {workers[w].call} ELSE {}
OneMore(ws, d) == Cardinality(Recorded(calls, ws, d)) + 1 <= CallCeiling
Room(w) ==
    /\ Cost(calls, day, Generations(calls, Workspaces) \ Own(w)) + Worst <= GlobalCeiling
    /\ Cost(calls, day, Generations(calls, {Ws(w)}) \ Own(w)) + Worst <= WorkspaceCeiling
    /\ OneMore(Ws(w), day)
RoomLeft ==
    \A w \in Workers : workers[w].pc \in {"checked", "calling"} =>
        /\ Room(w)
        /\ At(w, "calling") => OneMore(Ws(w), calls[workers[w].call].made)

CeilingInv == HoldsLock /\ CallsArePast /\ CallIsOwn /\ Within /\ RoomLeft

LEMMA CeilingTypes ==
    ASSUME TypeOK
    PROVE  /\ Ledger(calls) /\ DOMAIN calls = 1..Len(calls) /\ Len(calls) \in Nat
           /\ day \in Nat \ {0} /\ MaxDay \in Nat /\ day \in 1..MaxDay
           /\ \A w \in Workers : /\ workers[w].pc # "idle" => Ws(w) \in Workspaces
                                 /\ workers[w].pc = "calling" => workers[w].call \in DOMAIN calls
           /\ WorkspaceCeiling \in Nat /\ GlobalCeiling \in Nat /\ CallCeiling \in Nat
           /\ Worst \in Nat
<1>1. calls \in Seq(Call) /\ Len(calls) <= MaxCalls
  BY DEF TypeOK
<1>2. Ledger(calls) /\ DOMAIN calls = 1..Len(calls) /\ Len(calls) \in Nat
  BY <1>1, LenProperties DEF Ledger
<1>3. day \in Nat \ {0} /\ MaxDay \in Nat /\ day \in 1..MaxDay
  BY BoundsAreCounts DEF TypeOK
<1>4. \A w \in Workers : /\ workers[w].pc # "idle" => Ws(w) \in Workspaces
                         /\ workers[w].pc = "calling" => workers[w].call \in DOMAIN calls
  BY <1>2 DEF TypeOK, Key, Ws
<1>5. QED
  BY <1>2, <1>3, <1>4, CeilingsArePositive, CostsAreBounded

\* Other steps leave the ledger and the day alone, and give no thread room or a call.
Stays(w) ==
    workers'[w].pc \in {"checked", "calling"} =>
        /\ workers'[w].pc = workers[w].pc
        /\ workers'[w].key = workers[w].key
        /\ workers'[w].call = workers[w].call

LEMMA CeilingSteps ==
    ASSUME TypeOK, [Next]_vars
    PROVE  \/ UNCHANGED <<calls, day>> /\ \A w \in Workers : Stays(w)
           \/ \E w \in Workers : \/ CeilingsPass(w) \/ Reserves(w)
                                 \/ \E cost \in Costs : Settles(w, cost)
           \/ \E ws \in Workspaces : \E cost \in Costs : OtherSpend(ws, cost)
           \/ NextDay
<1>1. ASSUME NEW w \in Workers, \E k \in DOMAIN jobs : Claim(w, k)
      PROVE  UNCHANGED <<calls, day>> /\ \A v \in Workers : Stays(v)
  BY <1>1 DEF Claim, Stays, TypeOK
<1>2. ASSUME NEW w \in Workers, LocksForGeneration(w) \/ GatesPass(w)
      PROVE  UNCHANGED <<calls, day>> /\ \A v \in Workers : Stays(v)
  <2>1. UNCHANGED <<calls, day>> /\ ~At(w, "idle")
    BY <1>2 DEF LocksForGeneration, GatesPass, At
  <2>2. PICK pc \in {"locked", "gated"} : Moves(w, pc)
    BY <1>2 DEF LocksForGeneration, GatesPass
  <2>3. \A v \in Workers : /\ workers'[v].key = workers[v].key
                           /\ workers'[v].call = workers[v].call
                           /\ workers'[v].pc = IF v = w THEN pc ELSE workers[v].pc
    BY <2>1, <2>2, MovedThread
  <2>4. QED
    BY <2>1, <2>3 DEF Stays
<1>3. ASSUME NEW w \in Workers,
             \/ GatesRefuse(w) \/ CeilingsRefuse(w) \/ AttemptFails(w) \/ StoresDraft(w) \/ Crash(w)
      PROVE  UNCHANGED <<calls, day>> /\ \A v \in Workers : Stays(v)
  <2>1. UNCHANGED <<calls, day>> /\ workers' = [workers EXCEPT ![w] = Idle]
    BY <1>3 DEF GatesRefuse, CeilingsRefuse, AttemptFails, StoresDraft, Crash, Finishes
  <2>2. QED
    BY <2>1 DEF Stays, TypeOK, Idle
<1>4. UNCHANGED <<calls, day, workers>> => \A v \in Workers : Stays(v)
  BY DEF Stays
<1>5. ASSUME \/ \E d \in Deciders :
                  \/ \E ws \in Workspaces : DecisionReads(d, ws)
                  \/ \E kind \in Kinds : DecisionCommits(d, kind)
                  \/ DecisionRefused(d)
             \/ \E r \in Requesters :
                  \/ \E ws \in Workspaces : RequestReads(r, ws)
                  \/ RequestFindsPrior(r)
                  \/ RequestEnqueues(r)
             \/ \E k \in DOMAIN jobs : Purge(k) \/ Recovers(k)
             \/ \E ws \in Workspaces : Override(ws)
      PROVE  UNCHANGED <<calls, day, workers>>
  BY <1>5 DEF DecisionReads, DecisionCommits, DecisionRefused, RequestReads, RequestFindsPrior,
              RequestEnqueues, Purge, Recovers, Override
<1>6. CASE UNCHANGED vars
  BY <1>4, <1>6 DEF vars
<1>7. CASE Next
  BY <1>1, <1>2, <1>3, <1>4, <1>5, <1>7 DEF Next
<1>8. QED
  BY <1>6, <1>7

\* The generation lock is held by the one thread past it.
LEMMA LockHeld ==
    ASSUME TypeOK, HoldsLock, [Next]_vars
    PROVE  HoldsLock'
<1>1. CASE UNCHANGED <<workers, globalLock>>
  BY <1>1 DEF HoldsLock
<1>2. ASSUME NEW w \in Workers, workers' = [workers EXCEPT ![w] = Idle], Unlocked(w)
      PROVE  HoldsLock'
  <2>1. \A v \in Workers : workers'[v] = IF v = w THEN Idle ELSE workers[v]
    BY <1>2 DEF TypeOK
  <2>2. \A v \in Workers : v # w /\ globalLock = v => globalLock' = v
    BY <1>2 DEF Unlocked
  <2>3. QED
    BY <2>1, <2>2 DEF HoldsLock, Idle, UnderLock
<1>3. ASSUME NEW w \in Workers,
             \/ GatesRefuse(w) \/ CeilingsRefuse(w) \/ AttemptFails(w) \/ StoresDraft(w) \/ Crash(w)
      PROVE  HoldsLock'
  <2>1. workers' = [workers EXCEPT ![w] = Idle] /\ Unlocked(w)
    BY <1>3 DEF GatesRefuse, CeilingsRefuse, AttemptFails, StoresDraft, Crash, Finishes
  <2>2. QED
    BY <1>2, <2>1
<1>4. ASSUME NEW w \in Workers,
             GatesPass(w) \/ CeilingsPass(w) \/ Reserves(w) \/ \E cost \in Costs : Settles(w, cost)
      PROVE  HoldsLock'
  <2>1. /\ globalLock' = globalLock /\ workers[w].pc \in UnderLock
        /\ \A v \in Workers : v # w => workers'[v] = workers[v]
    BY <1>4 DEF GatesPass, CeilingsPass, Reserves, Settles, Attempts, At, Moves, UnderLock, TypeOK
  <2>2. QED
    BY <2>1 DEF HoldsLock
<1>5. ASSUME NEW w \in Workers, NEW k \in DOMAIN jobs, Claim(w, k) PROVE HoldsLock'
  <2>1. /\ globalLock' = globalLock /\ workers'[w].pc = "claimed"
        /\ \A v \in Workers : v # w => workers'[v] = workers[v]
    BY <1>5 DEF Claim, TypeOK
  <2>2. QED
    BY <2>1 DEF HoldsLock, UnderLock
<1>6. ASSUME NEW w \in Workers, LocksForGeneration(w) PROVE HoldsLock'
  <2>1. /\ globalLock = None /\ globalLock' = w
        /\ \A v \in Workers : v # w => workers'[v] = workers[v]
    BY <1>6 DEF LocksForGeneration, GenerationIsFree, Moves, TypeOK
  <2>2. QED
    BY <2>1, NoneIsNobody DEF HoldsLock
<1>7. \/ UNCHANGED <<workers, globalLock>>
      \/ \E w \in Workers :
           \/ \E k \in DOMAIN jobs : Claim(w, k)
           \/ LocksForGeneration(w) \/ GatesPass(w) \/ GatesRefuse(w)
           \/ CeilingsPass(w) \/ CeilingsRefuse(w) \/ Reserves(w)
           \/ \E cost \in Costs : Settles(w, cost)
           \/ AttemptFails(w) \/ StoresDraft(w) \/ Crash(w)
  BY DEF Next, vars, DecisionReads, DecisionCommits, DecisionRefused, RequestReads,
         RequestFindsPrior, RequestEnqueues, Purge, Recovers, Override, OtherSpend, NextDay
<1>8. QED
  BY <1>1, <1>3, <1>4, <1>5, <1>6, <1>7

\* The ceilings' own reading of the ledger covers what generation spent.
LEMMA FitsLeavesRoom ==
    ASSUME TypeOK, NEW ws \in Workspaces, Fits(ws, Worst)
    PROVE  /\ Cost(calls, day, Generations(calls, Workspaces)) + Worst <= GlobalCeiling
           /\ Cost(calls, day, Generations(calls, {ws})) + Worst <= WorkspaceCeiling
           /\ OneMore(ws, day)
<1>1. Ledger(calls) /\ day \in Nat
  BY CeilingTypes
<1>2. ASSUME NEW wss, NEW ceiling \in Nat, Below(Spent(wss, day), Worst, ceiling)
      PROVE  Cost(calls, day, Generations(calls, wss)) + Worst <= ceiling
  <2> DEFINE S == Generations(calls, wss)
             T == {i \in DOMAIN calls : calls[i].ws \in wss}
  <2>1. S \in SUBSET DOMAIN calls /\ T \in SUBSET DOMAIN calls /\ S \subseteq T
    BY DEF Generations
  <2>2. Spent(wss, day) = MapThenSumSet(LAMBDA i : Charge(calls[i], day), T)
    BY Zenon DEF Spent
  <2> HIDE DEF S, T
  <2>3. Spent(wss, day) = Cost(calls, day, T)
    <3>1. MapThenSumSet(LAMBDA i : Charge(calls[i], day), T) = Cost(calls, day, T)
      BY <1>1, <2>1, ChargesAddUp, Zenon
    <3>2. QED
      BY <2>2, <3>1, Zenon
  <2>4. \A i \in DOMAIN calls : Charge(calls[i], day) \in Nat
    BY <1>1, ChargeIsNat
  <2>5. \A i \in S : IF i \in T THEN Charge(calls[i], day) <= Charge(calls[i], day)
                     ELSE Charge(calls[i], day) = 0
    BY <2>1, <2>4
  <2>6. Cost(calls, day, S) <= Cost(calls, day, T)
    BY <1>1, <2>1, <2>5, CostAtMost
  <2>7. S \in SUBSET Indexes /\ T \in SUBSET Indexes
    BY <1>1, <2>1, ChargeTypes
  <2>8. Cost(calls, day, S) \in Nat /\ Cost(calls, day, T) \in Nat
    BY <1>1, <2>7, CostIsNat
  <2>9. Cost(calls, day, T) + Worst <= ceiling
    BY <1>2, <2>3 DEF Below
  <2>10. QED
    BY <2>6, <2>8, <2>9, CostsAreBounded DEF S
<1>3. CallsMade(ws, day) + 1 <= CallCeiling
  BY DEF Fits
<1>4. CallsMade(ws, day) = Cardinality(Recorded(calls, ws, day))
  BY DEF CallsMade, Recorded
<1>5. QED
  BY <1>2, <1>3, <1>4, CeilingsArePositive DEF Fits, OneMore

\* A step that leaves the ledger and the day alone gives no thread room.
LEMMA StayingKeeps ==
    ASSUME TypeOK, CeilingInv, HoldsLock', UNCHANGED <<calls, day>>, \A w \in Workers : Stays(w)
    PROVE  CeilingInv'
<1>1. CallsArePast' /\ Within'
  BY DEF CeilingInv, CallsArePast, Within
<1>2. CallIsOwn'
  BY DEF CeilingInv, CallIsOwn, Stays, Ws
<1>3. ASSUME NEW w \in Workers, workers'[w].pc \in {"checked", "calling"}
      PROVE  Room(w)' /\ (At(w, "calling") => OneMore(Ws(w), calls[workers[w].call].made))'
  <2>1. /\ Own(w)' = Own(w) /\ Ws(w)' = Ws(w) /\ At(w, "calling")' = At(w, "calling")
        /\ workers'[w].call = workers[w].call /\ workers[w].pc \in {"checked", "calling"}
    BY <1>3 DEF Stays, Own, Ws, At
  <2>2. Room(w) /\ (At(w, "calling") => OneMore(Ws(w), calls[workers[w].call].made))
    BY <2>1 DEF CeilingInv, RoomLeft
  <2>3. QED
    BY <2>1, <2>2 DEF Room, OneMore
<1>4. RoomLeft'
  BY <1>3 DEF RoomLeft
<1>5. QED
  BY <1>1, <1>2, <1>4 DEF CeilingInv

\* The check finds the room.
LEMMA PassKeeps ==
    ASSUME TypeOK, CeilingInv, HoldsLock', NEW w \in Workers, CeilingsPass(w)
    PROVE  CeilingInv'
<1>1. /\ UNCHANGED <<calls, day>> /\ ~At(w, "idle") /\ Moves(w, "checked") /\ Fits(Ws(w), Worst)
      /\ workers[w].pc \in UnderLock
  BY DEF CeilingsPass, Attempts, At, UnderLock
<1>2. \A v \in Workers : /\ workers'[v].key = workers[v].key
                         /\ workers'[v].call = workers[v].call
                         /\ workers'[v].pc = IF v = w THEN "checked" ELSE workers[v].pc
  BY <1>1, MovedThread
<1>3. \A v \in Workers : v # w => workers[v].pc \notin {"checked", "calling"}
  BY <1>1 DEF CeilingInv, HoldsLock, UnderLock
<1>4. CallsArePast' /\ Within'
  BY <1>1 DEF CeilingInv, CallsArePast, Within
<1>5. CallIsOwn'
  BY <1>2, <1>3 DEF CallIsOwn
<1>6. RoomLeft'
  <2>1. Ws(w) \in Workspaces
    BY <1>1, CeilingTypes DEF At
  <2>2. /\ Cost(calls, day, Generations(calls, Workspaces)) + Worst <= GlobalCeiling
        /\ Cost(calls, day, Generations(calls, {Ws(w)})) + Worst <= WorkspaceCeiling
        /\ OneMore(Ws(w), day)
    BY <1>1, <2>1, FitsLeavesRoom
  <2>3. Own(w)' = {} /\ Ws(w)' = Ws(w) /\ ~At(w, "calling")'
    BY <1>2 DEF Own, At, Ws
  <2>4. Room(w)'
    BY <1>1, <2>2, <2>3 DEF Room, OneMore
  <2>5. QED
    BY <1>2, <1>3, <2>3, <2>4 DEF RoomLeft
<1>7. QED
  BY <1>4, <1>5, <1>6 DEF CeilingInv

\* The reservation takes the room that was found, which no other thread took meanwhile.
LEMMA ReserveKeeps ==
    ASSUME TypeOK, CeilingInv, HoldsLock', NEW w \in Workers, Reserves(w)
    PROVE  CeilingInv'
<1> DEFINE row == [ws |-> Ws(w), task |-> "generate", made |-> day, recorded |-> 0, cost |-> 0]
           n == Len(calls) + 1
<1>1. /\ day' = day /\ calls' = Append(calls, row) /\ Len(calls) < MaxCalls
      /\ workers[w].pc = "checked"
      /\ workers'[w].pc = "calling" /\ workers'[w].call = n /\ workers'[w].key = workers[w].key
      /\ \A v \in Workers : v # w => workers'[v] = workers[v]
  BY DEF Reserves, At, TypeOK, Thread
<1>2. /\ Ledger(calls) /\ day \in Nat \ {0} /\ Ws(w) \in Workspaces /\ day \in 1..MaxDay
      /\ WorkspaceCeiling \in Nat /\ GlobalCeiling \in Nat /\ Worst \in Nat
  BY <1>1, CeilingTypes
<1>3. row \in Call /\ row.task = "generate" /\ row.recorded = 0 /\ row.made = day /\ row.ws = Ws(w)
  BY <1>2, CostsAreBounded, BoundsAreCounts DEF Call
<1> HIDE DEF row, n
<1>4. /\ Ledger(calls') /\ DOMAIN calls' = DOMAIN calls \cup {n} /\ n \notin DOMAIN calls
      /\ \A i \in DOMAIN calls : calls'[i] = calls[i]
      /\ calls'[n] = row
  BY <1>1, <1>2, <1>3, Appended DEF n
<1>5. \A v \in Workers : v # w => workers[v].pc \notin {"checked", "calling"}
  BY <1>1 DEF CeilingInv, HoldsLock, UnderLock
<1>6. /\ \A wss : /\ Generations(calls', wss) \ {n} = Generations(calls, wss)
                  /\ Ws(w) \notin wss => Generations(calls', wss) = Generations(calls, wss)
      /\ \A ws : \A d \in Nat \ {0} : Recorded(calls', ws, d) = Recorded(calls, ws, d)
      /\ \A d \in Nat : \A wss :
           /\ Cost(calls', d, Generations(calls, wss)) <= Cost(calls, d, Generations(calls, wss))
           /\ Cost(calls', d, Generations(calls', wss)) <= Cost(calls, d, Generations(calls, wss)) + Worst
           /\ d # day => Cost(calls', d, Generations(calls', wss)) <= Cost(calls, d, Generations(calls, wss))
  <2> DEFINE ds == Append(calls, row)
  <2>1. /\ \A wss : /\ Generations(ds, wss) \ {n} = Generations(calls, wss)
                    /\ row.ws \notin wss => Generations(ds, wss) = Generations(calls, wss)
        /\ \A ws : \A d \in Nat \ {0} : Recorded(ds, ws, d) = Recorded(calls, ws, d)
        /\ \A d \in Nat : \A wss :
             /\ Cost(ds, d, Generations(calls, wss)) <= Cost(calls, d, Generations(calls, wss))
             /\ Cost(ds, d, Generations(ds, wss)) <= Cost(calls, d, Generations(calls, wss)) + Worst
             /\ d # row.made => Cost(ds, d, Generations(ds, wss)) <= Cost(calls, d, Generations(calls, wss))
    BY <1>1, <1>2, <1>3, ReservedCalls DEF n
  <2>2. ds = calls'
    BY <1>1
  <2> HIDE DEF ds
  <2>3. QED
    BY <1>3, <2>1, <2>2
<1>7. /\ Cost(calls, day, Generations(calls, Workspaces)) + Worst <= GlobalCeiling
      /\ Cost(calls, day, Generations(calls, {Ws(w)})) + Worst <= WorkspaceCeiling
      /\ OneMore(Ws(w), day)
  <2>1. Room(w) /\ Own(w) = {}
    BY <1>1 DEF CeilingInv, RoomLeft, Own, At
  <2>2. QED
    BY <2>1 DEF Room
<1>8. \A d \in Nat : \A wss : /\ Cost(calls, d, Generations(calls, wss)) \in Nat
                              /\ Cost(calls', d, Generations(calls, wss)) \in Nat
                              /\ Cost(calls', d, Generations(calls', wss)) \in Nat
  <2> SUFFICES ASSUME NEW d \in Nat, NEW wss
               PROVE  /\ Cost(calls, d, Generations(calls, wss)) \in Nat
                      /\ Cost(calls', d, Generations(calls, wss)) \in Nat
                      /\ Cost(calls', d, Generations(calls', wss)) \in Nat
    OBVIOUS
  <2>1. Generations(calls, wss) \in SUBSET DOMAIN calls /\ Generations(calls', wss) \in SUBSET DOMAIN calls'
    BY DEF Generations
  <2>2. Generations(calls, wss) \in SUBSET Indexes /\ Generations(calls', wss) \in SUBSET Indexes
    BY <1>2, <1>4, <2>1, ChargeTypes
  <2>3. QED
    BY <1>2, <1>4, <2>2, CostIsNat
<1>9. CallsArePast'
  BY <1>1, <1>2, <1>3, <1>4 DEF CeilingInv, CallsArePast
<1>10. CallIsOwn'
  BY <1>1, <1>3, <1>4, <1>5 DEF CallIsOwn, Ws
<1>11. Within'
  <2> SUFFICES ASSUME NEW d \in 1..MaxDay
               PROVE  /\ Cost(calls', d, Generations(calls', Workspaces)) <= GlobalCeiling
                      /\ \A ws \in Workspaces :
                           /\ Cost(calls', d, Generations(calls', {ws})) <= WorkspaceCeiling
                           /\ Cardinality(Recorded(calls', ws, d)) <= CallCeiling
    BY DEF Within
  <2>1. d \in Nat \ {0}
    OBVIOUS
  <2>2. /\ Cost(calls, d, Generations(calls, Workspaces)) <= GlobalCeiling
        /\ \A ws \in Workspaces :
             /\ Cost(calls, d, Generations(calls, {ws})) <= WorkspaceCeiling
             /\ Cardinality(Recorded(calls, ws, d)) <= CallCeiling
    BY DEF CeilingInv, Within
  <2> DEFINE Before(wss) == Cost(calls, d, Generations(calls, wss))
             After(wss) == Cost(calls', d, Generations(calls', wss))
  <2>3. \A wss : /\ Before(wss) \in Nat /\ After(wss) \in Nat
                 /\ After(wss) <= Before(wss) + Worst
                 /\ d # day => After(wss) <= Before(wss)
    BY <1>6, <1>8, <2>1
  <2>4. /\ Before(Workspaces) <= GlobalCeiling
        /\ d = day => Before(Workspaces) + Worst <= GlobalCeiling
    BY <1>7, <2>2
  <2>5. \A ws \in Workspaces : /\ Before({ws}) <= WorkspaceCeiling
                               /\ d = day /\ ws = Ws(w) => Before({ws}) + Worst <= WorkspaceCeiling
    BY <1>7, <2>2
  <2> HIDE DEF Before, After
  <2>6. \A x, y \in Nat : \A c \in Nat :
          /\ x <= y + Worst /\ y + Worst <= c => x <= c
          /\ x <= y /\ y <= c => x <= c
    BY <1>2
  <2>7. After(Workspaces) <= GlobalCeiling
    BY <1>2, <2>3, <2>4, <2>6
  <2>8. ASSUME NEW ws \in Workspaces
        PROVE  After({ws}) <= WorkspaceCeiling
    <3>1. CASE ws = Ws(w)
      BY <1>2, <2>3, <2>5, <2>6, <3>1
    <3>2. CASE ws # Ws(w)
      <4>1. Generations(calls', {ws}) = Generations(calls, {ws})
        BY <1>6, <3>2
      <4>2. After({ws}) <= Before({ws})
        BY <1>6, <2>1, <4>1 DEF After, Before
      <4>3. QED
        BY <1>2, <2>3, <2>5, <2>6, <4>2
    <3>3. QED
      BY <3>1, <3>2
  <2>9. \A ws \in Workspaces : Cardinality(Recorded(calls', ws, d)) <= CallCeiling
    BY <1>6, <2>1, <2>2
  <2>10. QED
    BY <2>7, <2>8, <2>9 DEF After
<1>12. RoomLeft'
  <2>1. Own(w)' = {n} /\ Ws(w)' = Ws(w) /\ calls'[workers'[w].call].made = day
    BY <1>1, <1>3, <1>4 DEF Own, At, Ws
  <2>2. OneMore(Ws(w), day)'
    BY <1>1, <1>2, <1>6, <1>7, <2>1 DEF OneMore
  <2>3. \A wss : Cost(calls', day, Generations(calls', wss) \ {n}) <= Cost(calls, day, Generations(calls, wss))
    BY <1>2, <1>6
  <2>4. \A wss : Cost(calls', day, Generations(calls', wss) \ {n}) \in Nat
    BY <1>2, <1>6, <1>8
  <2>5. /\ Cost(calls', day, Generations(calls', Workspaces) \ {n}) + Worst <= GlobalCeiling
        /\ Cost(calls', day, Generations(calls', {Ws(w)}) \ {n}) + Worst <= WorkspaceCeiling
    <3>1. \A x, y \in Nat : \A c \in Nat : x <= y /\ y + Worst <= c => x + Worst <= c
      BY <1>2
    <3>2. \A wss : Cost(calls, day, Generations(calls, wss)) \in Nat
      BY <1>2, <1>8
    <3>3. QED
      BY <1>2, <1>7, <2>3, <2>4, <3>1, <3>2
  <2>6. Room(w)'
    BY <1>1, <2>1, <2>2, <2>5 DEF Room
  <2>7. OneMore(Ws(w), calls[workers[w].call].made)'
    BY <1>1, <2>1, <2>2 DEF OneMore
  <2>8. \A v \in Workers : v # w => workers'[v].pc \notin {"checked", "calling"}
    BY <1>1, <1>5
  <2>9. QED
    BY <2>6, <2>7, <2>8 DEF RoomLeft
<1>13. QED
  BY <1>9, <1>10, <1>11, <1>12 DEF CeilingInv

\* The settled cost is at most the worst case there was room for; no thread has room left.
LEMMA SettleKeeps ==
    ASSUME TypeOK, TypeOK', CeilingInv, HoldsLock', NEW w \in Workers, NEW cost \in Costs,
           Settles(w, cost)
    PROVE  CeilingInv'
<1> DEFINE k == workers[w].call
<1>1. /\ Ledger(calls) /\ day \in Nat \ {0} /\ Ws(w) \in Workspaces /\ day \in 1..MaxDay
      /\ WorkspaceCeiling \in Nat /\ GlobalCeiling \in Nat /\ CallCeiling \in Nat /\ Worst \in Nat
      /\ k \in DOMAIN calls
  BY CeilingTypes DEF Settles, At
<1>2. /\ day' = day /\ ~At(w, "idle") /\ Moves(w, "settled") /\ workers[w].pc = "calling"
      /\ calls' = [calls EXCEPT ![k].recorded = day, ![k].cost = cost]
  BY DEF Settles, At
<1>3. \A v \in Workers : workers'[v].pc = IF v = w THEN "settled" ELSE workers[v].pc
  BY <1>2, MovedThread
<1>4. \A v \in Workers : workers'[v].pc \notin {"checked", "calling"}
  BY <1>2, <1>3 DEF CeilingInv, HoldsLock, UnderLock
<1>5. calls[k].recorded = 0 /\ calls[k].task = "generate" /\ calls[k].ws = Ws(w)
  BY <1>2 DEF CeilingInv, CallIsOwn
<1>6. Room(w) /\ Own(w) = {k} /\ OneMore(Ws(w), day)
  BY <1>2 DEF CeilingInv, RoomLeft, Own, At, Room
<1> HIDE DEF k
<1>7. calls[k] \in Call
  BY <1>1, ChargeTypes
<1>8. /\ DOMAIN calls' = DOMAIN calls
      /\ \A i \in DOMAIN calls : i # k => calls'[i] = calls[i]
      /\ calls'[k].task = calls[k].task /\ calls'[k].ws = calls[k].ws
      /\ calls'[k].made = calls[k].made /\ calls'[k].recorded = day
  BY <1>1, <1>2, <1>7 DEF Call
<1>9. Ledger(calls')
  BY DEF TypeOK, Ledger
<1>10. /\ \A wss : Generations(calls', wss) = Generations(calls, wss)
       /\ \A ws : \A d : /\ Recorded(calls', ws, d) \subseteq Recorded(calls, ws, d) \cup {k}
                         /\ ws # Ws(w) \/ d # day
                              => Recorded(calls', ws, d) \subseteq Recorded(calls, ws, d)
       /\ \A d \in Nat : \A wss :
            /\ Cost(calls', d, Generations(calls', wss))
                 <= Cost(calls, d, Generations(calls, wss) \ {k}) + Worst
            /\ Ws(w) \notin wss \/ d # day
                 => Cost(calls', d, Generations(calls', wss)) <= Cost(calls, d, Generations(calls, wss))
  <2> DEFINE ds == calls'
  <2>1. /\ Ledger(ds) /\ DOMAIN ds = DOMAIN calls
        /\ \A i \in DOMAIN calls : i # k => ds[i] = calls[i]
        /\ calls[k].task = "generate" /\ ds[k].task = "generate" /\ ds[k].ws = calls[k].ws
        /\ ds[k].recorded # 0
    BY <1>1, <1>5, <1>8, <1>9
  <2>2. ds[k].recorded = day
    BY <1>8
  <2> HIDE DEF ds
  <2>3. /\ \A wss : Generations(ds, wss) = Generations(calls, wss)
        /\ \A ws : \A d : /\ Recorded(ds, ws, d) \subseteq Recorded(calls, ws, d) \cup {k}
                          /\ ws # calls[k].ws \/ d # ds[k].recorded
                               => Recorded(ds, ws, d) \subseteq Recorded(calls, ws, d)
        /\ \A d \in Nat : \A wss :
             /\ Cost(ds, d, Generations(ds, wss))
                  <= Cost(calls, d, Generations(calls, wss) \ {k}) + Worst
             /\ calls[k].ws \notin wss \/ d # ds[k].recorded
                  => Cost(ds, d, Generations(ds, wss)) <= Cost(calls, d, Generations(calls, wss))
    BY <1>1, <2>1, SettledCalls
  <2>4. QED
    BY <1>5, <2>2, <2>3 DEF ds
<1>11. \A d \in Nat : \A wss : /\ Cost(calls, d, Generations(calls, wss)) \in Nat
                               /\ Cost(calls, d, Generations(calls, wss) \ {k}) \in Nat
                               /\ Cost(calls', d, Generations(calls', wss)) \in Nat
  <2> SUFFICES ASSUME NEW d \in Nat, NEW wss
               PROVE  /\ Cost(calls, d, Generations(calls, wss)) \in Nat
                      /\ Cost(calls, d, Generations(calls, wss) \ {k}) \in Nat
                      /\ Cost(calls', d, Generations(calls', wss)) \in Nat
    OBVIOUS
  <2>1. Generations(calls, wss) \in SUBSET DOMAIN calls /\ Generations(calls', wss) \in SUBSET DOMAIN calls'
    BY DEF Generations
  <2>2. Generations(calls, wss) \in SUBSET Indexes /\ Generations(calls', wss) \in SUBSET Indexes
    BY <1>1, <1>9, <2>1, ChargeTypes
  <2>3. Generations(calls, wss) \ {k} \in SUBSET Indexes
    BY <2>2
  <2>4. QED
    BY <1>1, <1>9, <2>2, <2>3, CostIsNat
<1>12. CallsArePast'
  <2>1. calls[k].made <= day
    BY <1>1 DEF CeilingInv, CallsArePast
  <2>2. \A i \in DOMAIN calls : calls'[i].made <= day /\ calls'[i].recorded <= day
    BY <1>1, <1>8, <2>1 DEF CeilingInv, CallsArePast
  <2>3. QED
    BY <1>2, <1>8, <2>2 DEF CallsArePast
<1>13. CallIsOwn' /\ RoomLeft'
  BY <1>4 DEF CallIsOwn, RoomLeft
<1>14. Within'
  <2> SUFFICES ASSUME NEW d \in 1..MaxDay
               PROVE  /\ Cost(calls', d, Generations(calls', Workspaces)) <= GlobalCeiling
                      /\ \A ws \in Workspaces :
                           /\ Cost(calls', d, Generations(calls', {ws})) <= WorkspaceCeiling
                           /\ Cardinality(Recorded(calls', ws, d)) <= CallCeiling
    BY DEF Within
  <2>1. d \in Nat
    OBVIOUS
  <2>2. /\ Cost(calls, d, Generations(calls, Workspaces)) <= GlobalCeiling
        /\ \A ws \in Workspaces :
             /\ Cost(calls, d, Generations(calls, {ws})) <= WorkspaceCeiling
             /\ Cardinality(Recorded(calls, ws, d)) <= CallCeiling
    BY DEF CeilingInv, Within
  <2>3. /\ Cost(calls, day, Generations(calls, Workspaces) \ {k}) + Worst <= GlobalCeiling
        /\ Cost(calls, day, Generations(calls, {Ws(w)}) \ {k}) + Worst <= WorkspaceCeiling
    BY <1>6 DEF Room
  <2>4. \A x, y \in Nat : \A c \in Nat : /\ x <= y + Worst /\ y + Worst <= c => x <= c
                                         /\ x <= y /\ y <= c => x <= c
    BY <1>1
  <2>5. Cost(calls', d, Generations(calls', Workspaces)) <= GlobalCeiling
    <3>1. CASE d = day
      <4>1. Cost(calls', d, Generations(calls', Workspaces))
              <= Cost(calls, d, Generations(calls, Workspaces) \ {k}) + Worst
        BY <1>10, <2>1
      <4>2. QED
        BY <1>1, <1>11, <2>1, <2>3, <2>4, <3>1, <4>1
    <3>2. CASE d # day
      <4>1. Cost(calls', d, Generations(calls', Workspaces)) <= Cost(calls, d, Generations(calls, Workspaces))
        BY <1>10, <2>1, <3>2
      <4>2. QED
        BY <1>1, <1>11, <2>1, <2>2, <2>4, <4>1
    <3>3. QED
      BY <3>1, <3>2
  <2>6. ASSUME NEW ws \in Workspaces
        PROVE  /\ Cost(calls', d, Generations(calls', {ws})) <= WorkspaceCeiling
               /\ Cardinality(Recorded(calls', ws, d)) <= CallCeiling
    <3>1. /\ IsFiniteSet(Recorded(calls, ws, d)) /\ Cardinality(Recorded(calls, ws, d)) \in Nat
          /\ IsFiniteSet(Recorded(calls', ws, d)) /\ Cardinality(Recorded(calls', ws, d)) \in Nat
      BY <1>1, <1>9, RecordedIsFinite
    <3>2. CASE ws = Ws(w) /\ d = day
      <4>1. Cost(calls', d, Generations(calls', {ws})) <= WorkspaceCeiling
        <5>1. Cost(calls', d, Generations(calls', {ws}))
                <= Cost(calls, d, Generations(calls, {ws}) \ {k}) + Worst
          BY <1>10, <2>1
        <5>2. Cost(calls, d, Generations(calls, {ws}) \ {k}) + Worst <= WorkspaceCeiling
          BY <2>3, <3>2
        <5>3. QED
          BY <1>1, <1>11, <2>1, <2>4, <5>1, <5>2
      <4>2. /\ IsFiniteSet(Recorded(calls, ws, d) \cup {k})
            /\ Cardinality(Recorded(calls, ws, d) \cup {k}) <= Cardinality(Recorded(calls, ws, d)) + 1
        BY <3>1, FS_AddElement
      <4>3. Cardinality(Recorded(calls', ws, d)) <= Cardinality(Recorded(calls, ws, d) \cup {k})
        BY <1>10, <4>2, FS_Subset
      <4>4. Cardinality(Recorded(calls, ws, d) \cup {k}) \in Nat
        BY <4>2, FS_CardinalityType
      <4>5. Cardinality(Recorded(calls, ws, d)) + 1 <= CallCeiling
        BY <1>6, <3>2 DEF OneMore
      <4>6. QED
        BY <1>1, <3>1, <4>1, <4>2, <4>3, <4>4, <4>5
    <3>3. CASE ws # Ws(w) \/ d # day
      <4>1. Cost(calls', d, Generations(calls', {ws})) <= WorkspaceCeiling
        <5>1. Ws(w) \notin {ws} \/ d # day
          BY <3>3
        <5>2. Cost(calls', d, Generations(calls', {ws})) <= Cost(calls, d, Generations(calls, {ws}))
          BY <1>10, <2>1, <5>1
        <5>3. QED
          BY <1>1, <1>11, <2>1, <2>2, <2>4, <5>2
      <4>2. Recorded(calls', ws, d) \subseteq Recorded(calls, ws, d)
        BY <1>10, <3>3
      <4>3. Cardinality(Recorded(calls', ws, d)) <= Cardinality(Recorded(calls, ws, d))
        BY <3>1, <4>2, FS_Subset
      <4>4. QED
        BY <1>1, <2>2, <3>1, <4>1, <4>3
    <3>4. QED
      BY <3>2, <3>3
  <2>7. QED
    BY <2>5, <2>6
<1>15. QED
  BY <1>12, <1>13, <1>14 DEF CeilingInv

\* What the rest of the program spends is not generation's.
LEMMA SpendKeeps ==
    ASSUME TypeOK, CeilingInv, HoldsLock', NEW ws \in Workspaces, NEW cost \in Costs,
           OtherSpend(ws, cost)
    PROVE  CeilingInv'
<1> DEFINE row == [ws |-> ws, task |-> "other", made |-> day, recorded |-> day, cost |-> cost]
           n == Len(calls) + 1
<1>1. /\ day' = day /\ workers' = workers /\ calls' = Append(calls, row) /\ Len(calls) < MaxCalls
  BY DEF OtherSpend
<1>2. /\ Ledger(calls) /\ day \in Nat \ {0} /\ day \in 1..MaxDay
      /\ WorkspaceCeiling \in Nat /\ GlobalCeiling \in Nat /\ Worst \in Nat
      /\ \A w \in Workers : workers[w].pc = "calling" => workers[w].call \in DOMAIN calls
  BY CeilingTypes
<1>3. row \in Call /\ row.task = "other" /\ row.made = day /\ row.recorded = day
  BY <1>2, CostsAreBounded, BoundsAreCounts DEF Call
<1> HIDE DEF row, n
<1>4. /\ Ledger(calls') /\ DOMAIN calls' = DOMAIN calls \cup {n} /\ n \notin DOMAIN calls
      /\ \A i \in DOMAIN calls : calls'[i] = calls[i]
      /\ calls'[n] = row
  BY <1>1, <1>2, <1>3, Appended DEF n
<1>5. /\ \A wss : Generations(calls', wss) = Generations(calls, wss)
      /\ \A b, d : Recorded(calls', b, d) = Recorded(calls, b, d)
      /\ \A d \in Nat : \A S \in SUBSET DOMAIN calls : Cost(calls', d, S) <= Cost(calls, d, S)
  BY <1>1, <1>2, <1>3, OtherCalls
<1>6. \A d \in Nat : \A S \in SUBSET DOMAIN calls : Cost(calls, d, S) \in Nat /\ Cost(calls', d, S) \in Nat
  <2> SUFFICES ASSUME NEW d \in Nat, NEW S \in SUBSET DOMAIN calls
               PROVE  Cost(calls, d, S) \in Nat /\ Cost(calls', d, S) \in Nat
    OBVIOUS
  <2>1. S \in SUBSET Indexes
    BY <1>2, ChargeTypes
  <2>2. QED
    BY <1>2, <1>4, <2>1, CostIsNat
<1>7. \A wss : Generations(calls, wss) \in SUBSET DOMAIN calls
  BY DEF Generations
<1>8. CallsArePast'
  BY <1>1, <1>2, <1>3, <1>4 DEF CeilingInv, CallsArePast
<1>9. CallIsOwn'
  BY <1>1, <1>2, <1>4 DEF CeilingInv, CallIsOwn, Ws
<1>10. Within'
  <2> SUFFICES ASSUME NEW d \in 1..MaxDay
               PROVE  /\ Cost(calls', d, Generations(calls, Workspaces)) <= GlobalCeiling
                      /\ \A b \in Workspaces :
                           /\ Cost(calls', d, Generations(calls, {b})) <= WorkspaceCeiling
                           /\ Cardinality(Recorded(calls, b, d)) <= CallCeiling
    BY <1>5 DEF Within
  <2>1. d \in Nat
    OBVIOUS
  <2>2. /\ Cost(calls, d, Generations(calls, Workspaces)) <= GlobalCeiling
        /\ \A b \in Workspaces :
             /\ Cost(calls, d, Generations(calls, {b})) <= WorkspaceCeiling
             /\ Cardinality(Recorded(calls, b, d)) <= CallCeiling
    BY DEF CeilingInv, Within
  <2>3. \A wss : /\ Cost(calls', d, Generations(calls, wss)) <= Cost(calls, d, Generations(calls, wss))
                 /\ Cost(calls', d, Generations(calls, wss)) \in Nat
                 /\ Cost(calls, d, Generations(calls, wss)) \in Nat
    BY <1>5, <1>6, <1>7, <2>1
  <2>4. QED
    BY <1>2, <2>2, <2>3
<1>11. RoomLeft'
  <2> SUFFICES ASSUME NEW w \in Workers, workers[w].pc \in {"checked", "calling"}
               PROVE  Room(w)' /\ (At(w, "calling") => OneMore(Ws(w), calls[workers[w].call].made))'
    BY <1>1 DEF RoomLeft
  <2>1. Room(w) /\ (At(w, "calling") => OneMore(Ws(w), calls[workers[w].call].made))
    BY DEF CeilingInv, RoomLeft
  <2>2. Own(w)' = Own(w) /\ Ws(w)' = Ws(w) /\ At(w, "calling")' = At(w, "calling")
    BY <1>1 DEF Own, Ws, At
  <2>3. \A wss : /\ Cost(calls', day, Generations(calls, wss) \ Own(w))
                      <= Cost(calls, day, Generations(calls, wss) \ Own(w))
                 /\ Cost(calls', day, Generations(calls, wss) \ Own(w)) \in Nat
                 /\ Cost(calls, day, Generations(calls, wss) \ Own(w)) \in Nat
    <3>1. \A wss : Generations(calls, wss) \ Own(w) \in SUBSET DOMAIN calls
      BY <1>7
    <3>2. QED
      BY <1>2, <1>5, <1>6, <3>1
  <2>4. /\ Cost(calls', day, Generations(calls, Workspaces) \ Own(w)) + Worst <= GlobalCeiling
        /\ Cost(calls', day, Generations(calls, {Ws(w)}) \ Own(w)) + Worst <= WorkspaceCeiling
    <3>1. \A x, y \in Nat : \A c \in Nat : x <= y /\ y + Worst <= c => x + Worst <= c
      BY <1>2
    <3>2. QED
      BY <1>2, <2>1, <2>3, <3>1 DEF Room
  <2>5. Room(w)'
    BY <1>1, <1>5, <2>1, <2>2, <2>4 DEF Room, OneMore
  <2>6. At(w, "calling") => calls'[workers[w].call].made = calls[workers[w].call].made
    BY <1>2, <1>4 DEF At
  <2>7. QED
    BY <1>1, <1>5, <2>1, <2>2, <2>5, <2>6 DEF OneMore
<1>12. QED
  BY <1>8, <1>9, <1>10, <1>11 DEF CeilingInv

\* A new day begins with nothing charged to it.
LEMMA DayKeeps ==
    ASSUME TypeOK, CeilingInv, HoldsLock', NextDay
    PROVE  CeilingInv'
<1>1. calls' = calls /\ workers' = workers /\ day' = day + 1
  BY DEF NextDay
<1>2. /\ Ledger(calls) /\ day \in Nat \ {0} /\ Worst \in Nat
      /\ WorkspaceCeiling \in Nat /\ GlobalCeiling \in Nat
  BY CeilingTypes
<1>3. \A i \in DOMAIN calls : /\ calls[i].made \in Nat /\ calls[i].recorded \in Nat
                              /\ calls[i].made <= day /\ calls[i].recorded <= day
  <2>1. \A i \in DOMAIN calls : calls[i] \in Call
    BY <1>2, ChargeTypes
  <2>2. QED
    BY <2>1 DEF Call, CeilingInv, CallsArePast
<1>4. CallsArePast'
  BY <1>1, <1>2, <1>3 DEF CallsArePast
<1>5. CallIsOwn' /\ Within'
  BY <1>1 DEF CeilingInv, CallIsOwn, Within, Ws
<1>6. /\ \A S \in SUBSET DOMAIN calls : Cost(calls, day', S) = 0
      /\ \A ws : Recorded(calls, ws, day') = {}
  <2>1. \A i \in DOMAIN calls : calls[i].made < day + 1 /\ calls[i].recorded < day + 1
    BY <1>2, <1>3
  <2>2. day + 1 \in Nat \ {0}
    BY <1>2
  <2>3. \A S \in SUBSET DOMAIN calls : /\ Cost(calls, day + 1, S) = 0
                                       /\ \A ws : Recorded(calls, ws, day + 1) = {}
    BY <1>2, <2>1, <2>2, NothingAhead
  <2>4. {} \in SUBSET DOMAIN calls
    OBVIOUS
  <2>5. QED
    BY <1>1, <2>3, <2>4
<1>7. \A ws : OneMore(ws, day)'
  <2>1. Cardinality({}) = 0
    BY FS_EmptySet
  <2>2. QED
    BY <1>1, <1>6, <2>1, CeilingsArePositive DEF OneMore
<1>8. RoomLeft'
  <2> SUFFICES ASSUME NEW w \in Workers, workers[w].pc \in {"checked", "calling"}
               PROVE  Room(w)' /\ (At(w, "calling") => OneMore(Ws(w), calls[workers[w].call].made))'
    BY <1>1 DEF RoomLeft
  <2>1. Room(w) /\ (At(w, "calling") => OneMore(Ws(w), calls[workers[w].call].made))
    BY DEF CeilingInv, RoomLeft
  <2>2. \A wss : Generations(calls, wss) \ Own(w) \in SUBSET DOMAIN calls
    BY DEF Generations
  <2>3. \A wss : Cost(calls, day, Generations(calls, wss) \ Own(w)) \in Nat
    <3>1. \A wss : Generations(calls, wss) \ Own(w) \in SUBSET Indexes
      BY <1>2, <2>2, ChargeTypes
    <3>2. QED
      BY <1>2, <3>1, CostIsNat
  <2>4. Worst <= GlobalCeiling /\ Worst <= WorkspaceCeiling
    <3>1. \A x \in Nat : \A c \in Nat : x + Worst <= c => Worst <= c
      BY <1>2
    <3>2. QED
      BY <1>2, <2>1, <2>3, <3>1 DEF Room
  <2>5. Own(w)' = Own(w) /\ Ws(w)' = Ws(w) /\ At(w, "calling")' = At(w, "calling")
    BY <1>1 DEF Own, Ws, At
  <2>6. \A wss : Cost(calls, day', Generations(calls, wss) \ Own(w)) = 0
    BY <1>6, <2>2
  <2>7. Room(w)'
    BY <1>1, <1>2, <1>7, <2>4, <2>5, <2>6 DEF Room
  <2>8. QED
    BY <1>1, <2>1, <2>5, <2>7 DEF OneMore
<1>9. QED
  BY <1>4, <1>5, <1>8 DEF CeilingInv

LEMMA CeilingInit == Init => CeilingInv
<1> SUFFICES ASSUME Init PROVE CeilingInv
  OBVIOUS
<1>1. Ledger(calls) /\ DOMAIN calls = {} /\ \A w \in Workers : workers[w].pc = "idle"
  BY BoundsAreCounts DEF Init, Ledger, Idle
<1>2. \A d \in Nat : \A wss : /\ Generations(calls, wss) = {} /\ Cost(calls, d, {}) = 0
                              /\ \A ws : Recorded(calls, ws, d) = {}
  BY <1>1, IndexesFinite, SumOfNone DEF Generations, Recorded, Cost
<1>3. Within
  <2>1. Cardinality({}) = 0
    BY FS_EmptySet
  <2>2. QED
    BY <1>2, <2>1, CeilingsArePositive DEF Within
<1>4. HoldsLock /\ CallsArePast /\ CallIsOwn /\ RoomLeft
  BY <1>1 DEF HoldsLock, CallsArePast, CallIsOwn, RoomLeft, UnderLock
<1>5. QED
  BY <1>3, <1>4 DEF CeilingInv

LEMMA CeilingKept ==
    ASSUME TypeOK, TypeOK', CeilingInv, [Next]_vars
    PROVE  CeilingInv'
<1>1. HoldsLock'
  BY LockHeld DEF CeilingInv
<1>2. QED
  BY <1>1, CeilingSteps, StayingKeeps, PassKeeps, ReserveKeeps, SettleKeeps, SpendKeeps, DayKeeps

\* The calls in flight are at most the one of the thread that holds the lock.
LEMMA CeilingsFollow == ASSUME TypeOK, CeilingInv PROVE CeilingsHold
<1> SUFFICES ASSUME NEW d \in 1..MaxDay
             PROVE  /\ Generated(Workspaces, d) <= GlobalCeiling
                    /\ \A ws \in Workspaces :
                         /\ Generated({ws}, d) <= WorkspaceCeiling
                         /\ CallsMade(ws, d) + Cardinality(InFlight(ws, d)) <= CallCeiling
  BY Zenon DEF CeilingsHold
<1>1. Ledger(calls) /\ d \in Nat
  BY CeilingTypes
<1>2. ASSUME NEW wss PROVE Generated(wss, d) = Cost(calls, d, Generations(calls, wss))
  <2> DEFINE S == {i \in DOMAIN calls : calls[i].ws \in wss /\ calls[i].task = "generate"}
  <2>1. S \in SUBSET DOMAIN calls /\ S = Generations(calls, wss)
    BY DEF Generations
  <2>2. Generated(wss, d) = MapThenSumSet(LAMBDA i : Charge(calls[i], d), S)
    BY Zenon DEF Generated
  <2> HIDE DEF S
  <2>3. MapThenSumSet(LAMBDA i : Charge(calls[i], d), S) = Cost(calls, d, S)
    BY <1>1, <2>1, ChargesAddUp, Zenon
  <2>4. QED
    BY <2>1, <2>2, <2>3, Zenon
<1>3. /\ Cost(calls, d, Generations(calls, Workspaces)) <= GlobalCeiling
      /\ \A ws \in Workspaces :
           /\ Cost(calls, d, Generations(calls, {ws})) <= WorkspaceCeiling
           /\ Cardinality(Recorded(calls, ws, d)) <= CallCeiling
  BY DEF CeilingInv, Within
<1>4. ASSUME NEW ws \in Workspaces
      PROVE  CallsMade(ws, d) + Cardinality(InFlight(ws, d)) <= CallCeiling
  <2>1. CallsMade(ws, d) = Cardinality(Recorded(calls, ws, d)) /\ CallsMade(ws, d) \in Nat
    BY <1>1, RecordedIsFinite DEF CallsMade, Recorded
  <2>2. CASE InFlight(ws, d) = {}
    <3>1. Cardinality(InFlight(ws, d)) = 0
      BY <2>2, FS_EmptySet
    <3>2. CallsMade(ws, d) <= CallCeiling
      BY <1>3, <2>1
    <3>3. QED
      BY <2>1, <3>1, <3>2, CeilingsArePositive
  <2>3. CASE InFlight(ws, d) # {}
    <3>1. PICK w \in InFlight(ws, d) : TRUE
      BY <2>3
    <3>2. /\ w \in Workers /\ workers[w].pc = "calling" /\ At(w, "calling")
          /\ Ws(w) = ws /\ calls[workers[w].call].made = d
      BY DEF InFlight, At
    <3>3. \A v \in InFlight(ws, d) : v = globalLock
      BY DEF InFlight, At, CeilingInv, HoldsLock, UnderLock
    <3>4. InFlight(ws, d) = {w}
      BY <3>1, <3>3
    <3>5. Cardinality(InFlight(ws, d)) = 1
      BY <3>4, FS_Singleton
    <3>6. OneMore(ws, d)
      BY <3>2 DEF CeilingInv, RoomLeft
    <3>7. QED
      BY <2>1, <3>5, <3>6 DEF OneMore
  <2>4. QED
    BY <2>2, <2>3
<1>5. QED
  BY <1>2, <1>3, <1>4, Zenon

\* Generation stays within the daily ceilings, in money and in calls, for any workspaces,
\* threads, ceilings and costs, whatever else is spent and whenever the day changes.
THEOREM CeilingsAreKept == Spec => []CeilingsHold
<1>1. TypeOK /\ TypeOK' /\ CeilingInv /\ [Next]_vars => CeilingInv'
  BY CeilingKept
<1>2. TypeOK /\ CeilingInv => CeilingsHold
  BY CeilingsFollow
<1>3. QED
  BY <1>1, <1>2, CeilingInit, TypeCorrect, PTL DEF Spec

=============================================================================
