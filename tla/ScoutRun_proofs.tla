---------------------------- MODULE ScoutRun_proofs ----------------------------
(***************************************************************************)
(* Proofs about one Scout and its runs, for any set of jobs, threads and   *)
(* editors, any number of attempts, pauses and faults.                     *)
(***************************************************************************)
EXTENDS ScoutRunRefinement, TLAPS

-----------------------------------------------------------------------------
(***************************************************************************)
(* Rows of jobs and of the Scout.                                          *)
(***************************************************************************)

LEMMA NewRowType == NewRow \in Row
BY DEF NewRow, Row, Outcomes

LEMMA FreedRow ==
    ASSUME NEW r \in Row, NEW s \in JobStatuses, NEW o \in Outcomes
    PROVE  /\ Freed(r, s) \in Row /\ [Freed(r, s) EXCEPT !.outcome = o] \in Row
           /\ Freed(r, s).status = s /\ Freed(r, s).token = 0
           /\ Freed(r, s).claims = r.claims /\ Freed(r, s).fence = r.fence
           /\ Freed(r, s).outcome = r.outcome /\ Freed(r, s).attempt = r.attempt
           /\ [Freed(r, s) EXCEPT !.outcome = o].status = s
           /\ [Freed(r, s) EXCEPT !.outcome = o].token = 0
           /\ [Freed(r, s) EXCEPT !.outcome = o].claims = r.claims
           /\ [Freed(r, s) EXCEPT !.outcome = o].fence = r.fence
           /\ [Freed(r, s) EXCEPT !.outcome = o].outcome = o
BY DEF Freed, Row

LEMMA FreedIs ==
    ASSUME NEW r \in Row, NEW s \in JobStatuses
    PROVE  /\ Freed(r, s) \in Row /\ Freed(r, s).status = s /\ Freed(r, s).token = 0
           /\ Freed(r, s).claims = r.claims /\ Freed(r, s).fence = r.fence
           /\ Freed(r, s).outcome = r.outcome /\ Freed(r, s).attempt = r.attempt
BY DEF Freed, Row

LEMMA RequestEdits ==
    ASSUME NEW r \in Request, NEW s \in RequestStatuses, NEW o \in Owner
    PROVE  /\ [r EXCEPT !.status = s] \in Request
           /\ [r EXCEPT !.status = s].status = s
           /\ [r EXCEPT !.status = s].fence = r.fence
           /\ [r EXCEPT !.status = s].owner = r.owner
           /\ [r EXCEPT !.status = s, !.owner = o] \in Request
           /\ [r EXCEPT !.status = s, !.owner = o].status = s
           /\ [r EXCEPT !.status = s, !.owner = o].fence = r.fence
           /\ [r EXCEPT !.status = s, !.owner = o].owner = o
BY DEF Request

LEMMA NoOwnerType == NoOwner \in Owner /\ NoOwner.job = NoJob
BY DEF NoOwner, Owner

LEMMA NoOwnerNowIs ==
    ASSUME NEW r \in Request
    PROVE  /\ NoOwnerNow(r) \in Request /\ NoOwnerNow(r).status = r.status
           /\ NoOwnerNow(r).fence = r.fence /\ NoOwnerNow(r).owner = NoOwner
BY NoOwnerType DEF NoOwnerNow, Request

LEMMA SettleFailedIs ==
    ASSUME NEW r \in Request
    PROVE  /\ SettleFailed(r) \in Request /\ SettleFailed(r).status = "failed"
           /\ SettleFailed(r).fence = r.fence /\ SettleFailed(r).owner = NoOwner
<1> DEFINE x == [r EXCEPT !.status = "failed"]
<1>1. x \in Request /\ x.status = "failed" /\ x.fence = r.fence
  BY DEF Request, RequestStatuses, Settled
<1>2. SettleFailed(r) = NoOwnerNow(x)
  BY DEF SettleFailed
<1> HIDE DEF x
<1>3. QED
  BY <1>1, <1>2, NoOwnerNowIs

LEMMA SettleCancelledIs ==
    ASSUME TypeOK, NEW j \in Jobs
    PROVE  /\ SettleCancelled(j) \in Request /\ SettleCancelled(j).status \in Settled
           /\ SettleCancelled(j).fence = request.fence /\ SettleCancelled(j).owner = NoOwner
<1>1. PICK s \in Settled : s = IdleStatus(j)
  BY DEF IdleStatus, Settled
<1> DEFINE x == [request EXCEPT !.status = s]
<1>2. x \in Request /\ x.status = s /\ x.fence = request.fence
  BY DEF TypeOK, Request, RequestStatuses
<1>3. SettleCancelled(j) = NoOwnerNow(x)
  BY <1>1 DEF SettleCancelled
<1> HIDE DEF x
<1>4. QED
  BY <1>1, <1>2, <1>3, NoOwnerNowIs

LEMMA ReleaseOwnerIs ==
    ASSUME NEW t \in Threads, NEW r \in Request
    PROVE  /\ ReleaseOwner(t, r) \in Request /\ ReleaseOwner(t, r).status = r.status
           /\ ReleaseOwner(t, r).fence = r.fence
           /\ \/ ReleaseOwner(t, r).owner = r.owner
              \/ /\ ReleaseOwner(t, r).owner = NoOwner
                 /\ r.owner = Me(t) /\ HoldsJob(t)
           /\ r.owner = Me(t) /\ HoldsJob(t) => ReleaseOwner(t, r).owner = NoOwner
BY NoOwnerNowIs DEF ReleaseOwner

LEMMA RestoredIs ==
    ASSUME TypeOK, NEW t \in Threads, runs[t].pre # "none", runs[t] # Free
    PROVE  /\ Restored(t) \in Request /\ Restored(t).status = runs[t].pre
           /\ Restored(t).fence = request.fence /\ Restored(t).owner = NoOwner
<1>1. PICK s \in RequestStatuses : s = runs[t].pre
  BY DEF TypeOK, Run
<1> DEFINE x == [request EXCEPT !.status = s]
<1>2. x \in Request /\ x.status = s /\ x.fence = request.fence
  BY DEF TypeOK, Request
<1>3. Restored(t) = NoOwnerNow(x)
  BY <1>1 DEF Restored
<1> HIDE DEF x
<1>4. QED
  BY <1>1, <1>2, <1>3, NoOwnerNowIs

\* What an attempt has captured.
LEMMA RunFacts ==
    ASSUME TypeOK, NEW t \in Threads
    PROVE  /\ runs[t] = Free <=> runs[t].pc = "free"
           /\ runs[t] # Free => /\ runs[t] \in Run /\ runs[t].job \in Jobs
                                /\ runs[t].token \in Nat \ {0}
                                /\ Me(t) \in Owner /\ Me(t) # NoOwner
                                /\ Me(t).job = runs[t].job /\ Me(t).token = runs[t].token
BY DEF TypeOK, Run, Free, Me, Owner, NoOwner

-----------------------------------------------------------------------------
(***************************************************************************)
(* What every step does, whatever action it is of: to each job's row, each *)
(* attempt, the Scout's owner and each editor.                             *)
(***************************************************************************)

Early == {"mark", "start", "claim"}

\* A row is claimed under a new number or keeps its credential or loses it; its fence is
\* that of its enqueue; what ended has ended.
RowStep(j) ==
    /\ \/ jobs'[j].claims = jobs[j].claims /\ jobs'[j].token \in {jobs[j].token, 0}
       \/ jobs'[j].claims = jobs[j].claims + 1 /\ jobs'[j].token = jobs'[j].claims
    /\ jobs[j].status # "absent" => /\ jobs'[j].status # "absent"
                                    /\ jobs'[j].fence = jobs[j].fence
    /\ jobs[j].status \in TERMINAL_STATUSES => /\ jobs'[j].status = jobs[j].status
                                               /\ jobs'[j].outcome = jobs[j].outcome
    /\ jobs'[j].status \in ENQUEUED_STATUSES \cup {"absent"} => jobs'[j].token = 0
    /\ jobs'[j].outcome # "none" => jobs'[j].status = "succeeded"

StopOutcomes == {"skipped", "stopped", "lease_lost"}

\* An attempt goes on, ends, or begins with the claim just made.
RunStep(t) ==
    \/ runs'[t] \in {runs[t], Free}
    \/ /\ runs[t] # Free /\ runs'[t] # Free
       /\ runs'[t].job = runs[t].job /\ runs'[t].token = runs[t].token
       /\ runs'[t].pc \in Early => runs[t].pc \in Early
       /\ runs'[t].pc = "work" => runs[t].pc = "claim" /\ request'.owner = Me(t)
       /\ runs'[t].pc = "stop" => runs'[t].outcome \in StopOutcomes
    \/ /\ runs[t] = Free /\ runs'[t].pc = "mark" /\ runs'[t].job \in Jobs
       /\ jobs'[runs'[t].job].status # "absent"
       /\ runs'[t].token = jobs[runs'[t].job].claims + 1
       /\ runs'[t].token = jobs'[runs'[t].job].claims
       /\ request'.owner = request.owner
       /\ \A u \in Threads \ {t} : runs'[u] = runs[u]

\* The owner stays, goes, or is an attempt that claims the Scout under its fence.
OwnerStep ==
    \/ request'.owner = request.owner /\ request'.fence = request.fence
    \/ request'.owner = NoOwner
    \/ /\ request'.fence = request.fence
       /\ \E t \in Threads :
             /\ runs[t].pc = "claim" /\ runs'[t].pc = "work"
             /\ request'.owner = Me(t) /\ Holds(t) /\ ~Fenced(runs[t].job)
             /\ \A u \in Threads \ {t} : runs'[u] = runs[u]

EditorStep == \A e \in Editors : editors'[e].pc = "run" =>
                  \/ editors'[e] = editors[e]
                  \/ editors'[e].seen \in Settled

Moves == /\ TypeOK'
         /\ \A j \in Jobs : RowStep(j)
         /\ \A t \in Threads : RunStep(t)
         /\ OwnerStep /\ EditorStep

\* Each row: its credential is the number of a claim, an enqueued row has none, and only
\* a success has an outcome.
RowSound(r) == /\ r.token <= r.claims
               /\ r.status \in ENQUEUED_STATUSES \cup {"absent"} => r.token = 0
               /\ r.outcome # "none" => r.status = "succeeded"

RunSound(t) == runs[t] # Free =>
    /\ jobs[runs[t].job].status # "absent"
    /\ runs[t].token <= jobs[runs[t].job].claims
    /\ runs[t].pc = "stop" => runs[t].outcome \in StopOutcomes
    /\ runs[t].pc \in Early => request.owner # Me(t)

\* No two attempts have the same credential of one job.
CredentialsDiffer ==
    \A t, u \in Threads : t # u /\ runs[t] # Free /\ runs[u] # Free /\ runs[t].job = runs[u].job
        => runs[t].token # runs[u].token

\* The owner's job was enqueued under the Scout's fence.
OwnerInFence == request.owner # NoOwner =>
    /\ jobs[request.owner.job].status # "absent" /\ ~Fenced(request.owner.job)
    /\ request.owner.token <= jobs[request.owner.job].claims

EditorsSaw == \A e \in Editors : editors[e].pc = "run" => editors[e].seen \in Settled

Base == /\ TypeOK /\ (\A j \in Jobs : RowSound(jobs[j])) /\ (\A t \in Threads : RunSound(t))
        /\ CredentialsDiffer /\ OwnerInFence /\ EditorsSaw

LEMMA OwnerFacts ==
    ASSUME TypeOK
    PROVE  request.owner # NoOwner =>
              request.owner.job \in Jobs /\ request.owner.token \in Nat \ {0}
BY DEF TypeOK, Request, Owner

LEMMA BaseStep ==
    ASSUME Base, Moves
    PROVE  Base'
<1>1. ASSUME NEW j \in Jobs
      PROVE  /\ jobs[j] \in Row /\ jobs'[j] \in Row
             /\ jobs'[j].claims >= jobs[j].claims
             /\ jobs[j].claims \in Nat /\ jobs'[j].claims \in Nat
             /\ jobs[j].token \in Nat /\ jobs'[j].token \in Nat
  <2>1. jobs[j] \in Row /\ jobs'[j] \in Row
    BY DEF Base, Moves, TypeOK
  <2>2. QED
    BY <2>1 DEF Row, Moves, RowStep
<1>2. ASSUME NEW j \in Jobs PROVE RowSound(jobs[j])'
  BY <1>1 DEF Base, Moves, RowSound, RowStep
<1>3. ASSUME NEW t \in Threads
      PROVE  /\ runs[t] # Free => runs[t].job \in Jobs /\ runs[t].token \in Nat \ {0}
             /\ runs'[t] # Free => runs'[t].job \in Jobs /\ runs'[t].token \in Nat \ {0}
             /\ runs[t] = Free => runs[t].pc = "free"
             /\ runs'[t] = Free => runs'[t].pc = "free"
  BY DEF Base, Moves, TypeOK, Run, Free
<1>4. ASSUME NEW t \in Threads, runs'[t] # Free
      PROVE  /\ jobs'[runs'[t].job].status # "absent"
             /\ runs'[t].token <= jobs'[runs'[t].job].claims
             /\ runs'[t].pc = "stop" => runs'[t].outcome \in StopOutcomes
  <2>1. CASE /\ runs[t] # Free
             /\ runs'[t].job = runs[t].job /\ runs'[t].token = runs[t].token
    <3>1. /\ jobs[runs[t].job].status # "absent"
          /\ runs[t].token <= jobs[runs[t].job].claims
          /\ runs[t].pc = "stop" => runs[t].outcome \in StopOutcomes
      BY <2>1 DEF Base, RunSound
    <3>2. jobs'[runs[t].job].status # "absent"
      BY <1>3, <2>1, <3>1 DEF Moves, RowStep
    <3>3. runs[t].token <= jobs'[runs[t].job].claims
      BY <1>1, <1>3, <2>1, <3>1
    <3>4. QED
      BY <1>4, <2>1, <3>1, <3>2, <3>3 DEF Moves, RunStep
  <2>2. CASE ~(/\ runs[t] # Free
               /\ runs'[t].job = runs[t].job /\ runs'[t].token = runs[t].token)
    <3>1. /\ runs'[t].pc = "mark" /\ jobs'[runs'[t].job].status # "absent"
          /\ runs'[t].token = jobs'[runs'[t].job].claims
      BY <1>4, <2>2 DEF Moves, RunStep
    <3>2. QED
      BY <1>3, <1>4, <3>1
  <2>3. QED
    BY <2>1, <2>2
<1>5. ASSUME NEW t \in Threads, runs'[t] # Free, runs'[t].pc \in Early
      PROVE  request'.owner # Me(t)'
  <2>0. Me(t)' = [job |-> runs'[t].job, token |-> runs'[t].token]
    BY DEF Me
  <2>1. CASE runs[t] # Free
    <3>1. /\ runs'[t].job = runs[t].job /\ runs'[t].token = runs[t].token
          /\ runs[t].pc \in Early
      BY <1>5, <2>1 DEF Moves, RunStep
    <3>2. Me(t)' = Me(t) /\ request.owner # Me(t) /\ Me(t) # NoOwner
      BY <1>3, <2>0, <2>1, <3>1 DEF Me, NoOwner, Base, RunSound
    <3>3. ASSUME NEW u \in Threads, runs[u].pc = "claim", runs'[u].pc = "work",
                 request'.owner = Me(u)
          PROVE  request'.owner # Me(t)
      <4>1. u # t
        BY <1>5, <3>3 DEF Early
      <4>2. runs[u] # Free
        BY <1>3, <3>3
      <4>3. QED
        BY <2>1, <3>3, <4>1, <4>2 DEF Base, CredentialsDiffer, Me
    <3>4. QED
      BY <3>2, <3>3 DEF Moves, OwnerStep
  <2>2. CASE runs[t] = Free
    <3>1. /\ runs'[t].token = jobs[runs'[t].job].claims + 1
          /\ request'.owner = request.owner
      BY <1>5, <2>2 DEF Moves, RunStep
    <3>2. SUFFICES ASSUME request.owner = Me(t)' PROVE FALSE
      BY <3>1
    <3>3. request.owner # NoOwner
      BY <1>3, <1>5, <2>0, <3>2 DEF NoOwner
    <3>4. /\ request.owner.job = runs'[t].job /\ request.owner.token = runs'[t].token
      BY <2>0, <3>2
    <3>5. runs'[t].token <= jobs[runs'[t].job].claims
      BY <3>3, <3>4 DEF Base, OwnerInFence
    <3>6. QED
      BY <1>1, <1>3, <1>5, <3>1, <3>5
  <2>3. QED
    BY <2>1, <2>2
<1>6. \A t \in Threads : RunSound(t)'
  BY <1>4, <1>5 DEF RunSound
<1>7. CredentialsDiffer'
  <2> SUFFICES ASSUME NEW t \in Threads, NEW u \in Threads, t # u, runs'[t] # Free,
                      runs'[u] # Free, runs'[t].job = runs'[u].job
               PROVE  runs'[t].token # runs'[u].token
    BY DEF CredentialsDiffer
  <2>1. ASSUME NEW v \in Threads, runs'[v] # Free
        PROVE  \/ /\ runs[v] # Free
                  /\ runs'[v].job = runs[v].job /\ runs'[v].token = runs[v].token
               \/ /\ runs[v] = Free
                  /\ runs'[v].token = jobs[runs'[v].job].claims + 1
                  /\ \A w \in Threads \ {v} : runs'[w] = runs[w]
    BY <2>1 DEF Moves, RunStep
  <2>2. CASE runs[t] # Free /\ runs[u] # Free
    BY <2>1, <2>2 DEF Base, CredentialsDiffer
  <2>3. ASSUME NEW v \in Threads, NEW w \in Threads, v # w, runs'[v] # Free, runs'[w] # Free,
               runs'[v].job = runs'[w].job, runs[v] = Free
        PROVE  runs'[v].token # runs'[w].token
    <3>1. /\ runs'[v].token = jobs[runs'[v].job].claims + 1
          /\ runs'[w] = runs[w]
      BY <2>1, <2>3
    <3>2. runs[w].token <= jobs[runs'[v].job].claims
      BY <2>3, <3>1 DEF Base, RunSound
    <3>3. QED
      BY <1>1, <1>3, <2>3, <3>1, <3>2
  <2>4. QED
    BY <2>2, <2>3
<1>8. OwnerInFence'
  <2> SUFFICES ASSUME request'.owner # NoOwner
               PROVE  /\ jobs'[request'.owner.job].status # "absent"
                      /\ jobs'[request'.owner.job].fence = request'.fence
                      /\ request'.owner.token <= jobs'[request'.owner.job].claims
    BY DEF OwnerInFence, Fenced
  <2>1. CASE request'.owner = request.owner /\ request'.fence = request.fence
    <3>1. request.owner.job \in Jobs /\ request.owner.token \in Nat \ {0}
      BY <2>1, OwnerFacts DEF Base
    <3>2. QED
      BY <1>1, <2>1, <3>1 DEF Base, OwnerInFence, Fenced, Moves, RowStep
  <2>2. ASSUME NEW t \in Threads, runs[t].pc = "claim", request'.owner = Me(t),
               request'.fence = request.fence, ~Fenced(runs[t].job)
        PROVE  /\ jobs'[request'.owner.job].status # "absent"
               /\ jobs'[request'.owner.job].fence = request'.fence
               /\ request'.owner.token <= jobs'[request'.owner.job].claims
    <3>1. runs[t] # Free /\ Me(t).job = runs[t].job /\ Me(t).token = runs[t].token
      BY <1>3, <2>2 DEF Me
    <3>2. /\ jobs[runs[t].job].status # "absent"
          /\ runs[t].token <= jobs[runs[t].job].claims
      BY <3>1 DEF Base, RunSound
    <3>3. QED
      BY <1>1, <1>3, <2>2, <3>1, <3>2 DEF Fenced, Moves, RowStep
  <2>3. QED
    BY <2>1, <2>2 DEF Moves, OwnerStep
<1>9. EditorsSaw'
  BY DEF Base, Moves, EditorStep, EditorsSaw
<1>10. QED
  BY <1>2, <1>6, <1>7, <1>8, <1>9 DEF Base, Moves

-----------------------------------------------------------------------------
(***************************************************************************)
(* Every action is such a step.                                            *)
(***************************************************************************)

Pcs == {"mark", "start", "claim", "work", "stop", "cancel", "rollback", "fail"}

\* Attempt t becomes x: the same claim of the same job, at another point.
GoesOn(t, x) ==
    /\ x \in Run /\ runs' = [runs EXCEPT ![t] = x]
    /\ x.job = runs[t].job /\ x.token = runs[t].token

LEMMA ToIs ==
    ASSUME TypeOK, NEW t \in Threads, runs[t] # Free, NEW pc \in Pcs, To(t, pc)
    PROVE  \E x \in Run : /\ GoesOn(t, x) /\ x.pc = pc /\ x.pre = runs[t].pre
                          /\ x.outcome = runs[t].outcome /\ x.error = runs[t].error
<1> DEFINE x == [runs[t] EXCEPT !.pc = pc]
<1>1. runs[t] \in Run
  BY DEF TypeOK
<1>2. /\ x \in Run /\ x.pc = pc /\ x.job = runs[t].job /\ x.token = runs[t].token
      /\ x.pre = runs[t].pre /\ x.outcome = runs[t].outcome /\ x.error = runs[t].error
  BY <1>1 DEF Run, Pcs
<1>3. runs' = [runs EXCEPT ![t] = x]
  BY DEF To, TypeOK
<1> HIDE DEF x
<1>4. QED
  BY <1>2, <1>3 DEF GoesOn

LEMMA StopsWithIs ==
    ASSUME TypeOK, NEW t \in Threads, runs[t] # Free, NEW o \in StopOutcomes, StopsWith(t, o)
    PROVE  \E x \in Run : /\ GoesOn(t, x) /\ x.pc = "stop" /\ x.outcome = o
<1> DEFINE x == [runs[t] EXCEPT !.pc = "stop", !.outcome = o]
<1>1. runs[t] \in Run
  BY DEF TypeOK
<1>2. /\ x \in Run /\ x.pc = "stop" /\ x.job = runs[t].job /\ x.token = runs[t].token
      /\ x.outcome = o
  BY <1>1 DEF Run, StopOutcomes, Outcomes
<1>3. runs' = [runs EXCEPT ![t] = x]
  BY DEF StopsWith, TypeOK
<1> HIDE DEF x
<1>4. QED
  BY <1>2, <1>3 DEF GoesOn

Errs(t, pc, e) == runs' = [runs EXCEPT ![t].pc = pc, ![t].error = e]

LEMMA ErrsIs ==
    ASSUME TypeOK, NEW t \in Threads, runs[t] # Free, NEW e \in Errors,
           NEW pc \in {"rollback", "fail"}, Errs(t, pc, e)
    PROVE  \E x \in Run : /\ GoesOn(t, x) /\ x.pc = pc /\ x.error = e
<1> DEFINE x == [runs[t] EXCEPT !.pc = pc, !.error = e]
<1>1. runs[t] \in Run
  BY DEF TypeOK
<1>2. /\ x \in Run /\ x.pc = pc /\ x.job = runs[t].job /\ x.token = runs[t].token
      /\ x.error = e
  BY <1>1 DEF Run
<1>3. runs' = [runs EXCEPT ![t] = x]
  BY DEF Errs, TypeOK
<1> HIDE DEF x
<1>4. QED
  BY <1>2, <1>3 DEF GoesOn

LEMMA AdvanceMoves ==
    ASSUME Base, NEW t \in Threads, runs[t] # Free, NEW x \in Run, GoesOn(t, x),
           x.pc \in Early => runs[t].pc \in Early,
           x.pc = "work" => runs[t].pc = "claim" /\ request'.owner = Me(t),
           x.pc = "stop" => x.outcome \in StopOutcomes
    PROVE  runs' \in [Threads -> Run \cup {Free}] /\ \A u \in Threads : RunStep(u)
<1>1. /\ runs'[t] = x /\ \A u \in Threads \ {t} : runs'[u] = runs[u]
      /\ runs' \in [Threads -> Run \cup {Free}]
  BY DEF GoesOn, Base, TypeOK
<1>2. x # Free
  BY DEF Run, Free
<1>3. RunStep(t)
  BY <1>1, <1>2 DEF RunStep, GoesOn
<1>4. QED
  BY <1>1, <1>3 DEF RunStep

LEMMA EndMoves ==
    ASSUME Base, NEW t \in Threads, runs' = [runs EXCEPT ![t] = Free]
    PROVE  runs' \in [Threads -> Run \cup {Free}] /\ \A u \in Threads : RunStep(u)
BY DEF Base, TypeOK, RunStep

LEMMA SameRunsMove ==
    ASSUME Base, runs' = runs
    PROVE  runs' \in [Threads -> Run \cup {Free}] /\ \A u \in Threads : RunStep(u)
BY DEF Base, TypeOK, RunStep

LEMMA SameRowsMove ==
    ASSUME Base, jobs' = jobs
    PROVE  jobs' \in [Jobs -> Row] /\ \A k \in Jobs : RowStep(k)
<1>1. \A k \in Jobs : jobs[k] \in Row /\ RowSound(jobs[k])
  BY DEF Base, TypeOK
<1>2. QED
  BY <1>1 DEF RowSound, RowStep, Base, TypeOK

\* One row is written.
RowMove(r, n) ==
    /\ \/ n.claims = r.claims /\ n.token \in {r.token, 0}
       \/ n.claims = r.claims + 1 /\ n.token = n.claims
    /\ r.status # "absent" => n.status # "absent" /\ n.fence = r.fence
    /\ r.status \in TERMINAL_STATUSES => n.status = r.status /\ n.outcome = r.outcome
    /\ n.status \in ENQUEUED_STATUSES \cup {"absent"} => n.token = 0
    /\ n.outcome # "none" => n.status = "succeeded"

LEMMA OneRowMoves ==
    ASSUME Base, NEW j \in Jobs, NEW row \in Row, jobs' = [jobs EXCEPT ![j] = row],
           RowMove(jobs[j], row)
    PROVE  jobs' \in [Jobs -> Row] /\ \A k \in Jobs : RowStep(k)
<1>1. jobs'[j] = row /\ \A k \in Jobs \ {j} : jobs'[k] = jobs[k]
  BY DEF Base, TypeOK
<1>2. \A k \in Jobs : RowSound(jobs[k])
  BY DEF Base
<1>3. RowStep(j)
  BY <1>1 DEF RowStep, RowMove
<1>4. \A k \in Jobs \ {j} : RowStep(k)
  BY <1>1, <1>2 DEF RowStep, RowSound
<1>5. QED
  BY <1>3, <1>4 DEF Base, TypeOK

LEMMA SameEditors ==
    ASSUME Base, editors' = editors
    PROVE  EditorStep /\ editors' \in [Editors -> Editor]
BY DEF EditorStep, Base, TypeOK

LEMMA OneEditor ==
    ASSUME Base, NEW e \in Editors, NEW x \in Editor, editors' = [editors EXCEPT ![e] = x],
           x.pc = "run" => x.seen \in Settled
    PROVE  EditorStep /\ editors' \in [Editors -> Editor]
BY DEF EditorStep, Base, TypeOK

LEMMA IdleEditor == Idle \in Editor /\ Idle.pc # "run"
BY DEF Idle, Editor

\* The row an enqueue writes.
LEMMA EnqueuedRowIs ==
    ASSUME Base, NEW j \in Jobs, jobs[j].status = "absent", NEW f \in Nat,
           NEW p \in Settled \cup {"none"}, jobs' = EnqueuedRow(j, f, p)
    PROVE  \E row \in Row :
              /\ jobs' = [jobs EXCEPT ![j] = row] /\ RowMove(jobs[j], row)
              /\ row.status = "pending" /\ row.token = 0 /\ row.fence = f
              /\ row.attempt = jobs[j].attempt
<1> DEFINE row == [jobs[j] EXCEPT !.status = "pending", !.fence = f, !.prior = p]
<1>1. jobs[j] \in Row /\ RowSound(jobs[j])
  BY DEF Base, TypeOK
<1>2. /\ row \in Row /\ row.status = "pending" /\ row.fence = f /\ row.token = jobs[j].token
      /\ row.claims = jobs[j].claims /\ row.outcome = jobs[j].outcome
      /\ row.attempt = jobs[j].attempt
  BY <1>1 DEF Row, JobStatuses, ENQUEUED_STATUSES
<1>3. jobs' = [jobs EXCEPT ![j] = row]
  BY DEF EnqueuedRow
<1> HIDE DEF row
<1>4. RowMove(jobs[j], row) /\ row.token = 0
  BY <1>1, <1>2 DEF RowMove, RowSound, TERMINAL_STATUSES, ENQUEUED_STATUSES
<1>5. QED
  BY <1>2, <1>3, <1>4

LEMMA PauseMoves == ASSUME Base, Pause PROVE Moves
<1>1. request' = [status |-> "paused", fence |-> request.fence + 1, owner |-> NoOwner]
  BY DEF Pause
<1>2. request' \in Request
  BY <1>1, NoOwnerType DEF Base, TypeOK, Request, RequestStatuses
<1>3. OwnerStep
  BY <1>1 DEF OwnerStep
<1>4. QED
  BY <1>2, <1>3, SameRowsMove, SameRunsMove, SameEditors DEF Pause, Moves, TypeOK, Base

LEMMA ResumeReadMoves == ASSUME Base, NEW e \in Editors, ResumeRead(e) PROVE Moves
<1>1. PICK s \in RequestStatuses : s = request.status
  BY DEF Base, TypeOK, Request
<1>2. editors' = [editors EXCEPT ![e] = [pc |-> "resume", seen |-> s]]
  BY <1>1 DEF ResumeRead
<1>3. [pc |-> "resume", seen |-> s] \in Editor
  BY DEF Editor
<1>4. EditorStep /\ editors' \in [Editors -> Editor]
  BY <1>2, <1>3, OneEditor
<1>5. QED
  BY <1>4, SameRowsMove, SameRunsMove DEF ResumeRead, Moves, OwnerStep, TypeOK, Base

LEMMA RunReadMoves == ASSUME Base, NEW e \in Editors, RunRead(e) PROVE Moves
<1>1. PICK s \in RequestStatuses : s = request.status /\ s \in Settled
  BY DEF RunRead, RequestStatuses
<1>2. editors' = [editors EXCEPT ![e] = [pc |-> "run", seen |-> s]]
  BY <1>1 DEF RunRead
<1>3. [pc |-> "run", seen |-> s] \in Editor
  BY DEF Editor
<1>4. EditorStep /\ editors' \in [Editors -> Editor]
  BY <1>1, <1>2, <1>3, OneEditor
<1>5. QED
  BY <1>4, SameRowsMove, SameRunsMove DEF RunRead, Moves, OwnerStep, TypeOK, Base

LEMMA ResumeWriteMoves == ASSUME Base, NEW e \in Editors, ResumeWrite(e) PROVE Moves
<1>1. /\ request' \in Request /\ request'.owner = request.owner
      /\ request'.fence = request.fence
  BY RequestEdits, NoOwnerType DEF ResumeWrite, Base, TypeOK, RequestStatuses, Settled
<1>2. EditorStep /\ editors' \in [Editors -> Editor]
  BY IdleEditor, OneEditor DEF ResumeWrite
<1>3. QED
  BY <1>1, <1>2, SameRowsMove, SameRunsMove DEF ResumeWrite, Moves, OwnerStep, TypeOK, Base

LEMMA RunWriteMoves == ASSUME Base, NEW e \in Editors, RunWrite(e) PROVE Moves
<1>1. EditorStep /\ editors' \in [Editors -> Editor]
  BY IdleEditor, OneEditor DEF RunWrite
<1>2. runs' = runs /\ tick' = tick /\ faults' = faults /\ overwritten' = overwritten
  BY DEF RunWrite
<1>3. CASE UNCHANGED <<request, jobs>>
  BY <1>1, <1>2, <1>3, SameRowsMove, SameRunsMove DEF Moves, OwnerStep, TypeOK, Base
<1>4. CASE ~UNCHANGED <<request, jobs>>
  <2>1. PICK j \in Jobs : /\ jobs[j].status = "absent"
                          /\ jobs' = EnqueuedRow(j, request.fence, editors[e].seen)
    BY <1>4 DEF RunWrite
  <2>2. editors[e].seen \in Settled \cup {"none"} /\ request.fence \in Nat
    BY DEF RunWrite, Base, EditorsSaw, TypeOK, Request
  <2>3. jobs' \in [Jobs -> Row] /\ \A k \in Jobs : RowStep(k)
    BY <2>1, <2>2, EnqueuedRowIs, OneRowMoves
  <2>4. request' = [request EXCEPT !.status = "queued"]
    BY <1>4 DEF RunWrite
  <2>5. /\ request' \in Request /\ request'.owner = request.owner
        /\ request'.fence = request.fence
    BY <2>4, RequestEdits, NoOwnerType DEF Base, TypeOK, RequestStatuses, InFlight
  <2>6. QED
    BY <1>1, <1>2, <2>3, <2>5, SameRunsMove DEF Moves, OwnerStep, TypeOK, Base
<1>5. QED
  BY <1>3, <1>4

LEMMA TickReadMoves == ASSUME Base, TickRead PROVE Moves
<1>1. tick' \in Tick
  BY DEF TickRead, Tick, Base, TypeOK, Request
<1>2. QED
  BY <1>1, SameRowsMove, SameRunsMove, SameEditors DEF TickRead, Moves, OwnerStep, TypeOK, Base

LEMMA TickWriteMoves == ASSUME Base, TickWrite PROVE Moves
<1>1. PICK j \in Jobs : /\ jobs[j].status = "absent"
                        /\ jobs' = EnqueuedRow(j, tick.fence, "none")
  BY DEF TickWrite
<1>2. tick.fence \in Nat /\ tick' \in Tick
  BY DEF TickWrite, Base, TypeOK, Tick, NoTick
<1>3. jobs' \in [Jobs -> Row] /\ \A k \in Jobs : RowStep(k)
  BY <1>1, <1>2, EnqueuedRowIs, OneRowMoves
<1>4. QED
  BY <1>2, <1>3, SameRunsMove, SameEditors DEF TickWrite, Moves, OwnerStep, TypeOK, Base

\* The row a Cancel writes.
LEMMA CancelDoes ==
    ASSUME Base, NEW j \in Jobs, Cancel(j)
    PROVE  \E row \in Row :
              /\ jobs' = [jobs EXCEPT ![j] = row] /\ RowMove(jobs[j], row)
              /\ row.token \in {jobs[j].token, 0} /\ row.fence = jobs[j].fence
              /\ \/ /\ jobs[j].status \in ENQUEUED_STATUSES /\ row.status = "cancelled"
                    /\ request' = IF CancelSettles(j) THEN SettleCancelled(j) ELSE request
                 \/ /\ jobs[j].status \in {"claimed", "running"}
                    /\ row.status = "cancel_requested" /\ request' = request
<1>1. jobs[j] \in Row /\ RowSound(jobs[j])
  BY DEF Base, TypeOK
<1>2. CASE jobs[j].status \in ENQUEUED_STATUSES
  <2> DEFINE row == [Freed(jobs[j], "cancelled") EXCEPT !.cancelAsked = TRUE]
  <2>1. /\ row \in Row /\ row.status = "cancelled" /\ row.token = 0
        /\ row.claims = jobs[j].claims /\ row.fence = jobs[j].fence
        /\ row.outcome = jobs[j].outcome
    BY <1>1 DEF Freed, Row, JobStatuses, TERMINAL_STATUSES
  <2>2. /\ jobs' = [jobs EXCEPT ![j] = row]
        /\ request' = IF CancelSettles(j) THEN SettleCancelled(j) ELSE request
    BY <1>2 DEF Cancel
  <2> HIDE DEF row
  <2>3. RowMove(jobs[j], row)
    BY <1>1, <1>2, <2>1 DEF RowMove, RowSound, TERMINAL_STATUSES, ENQUEUED_STATUSES
  <2>4. QED
    BY <1>2, <2>1, <2>2, <2>3
<1>3. CASE jobs[j].status \notin ENQUEUED_STATUSES
  <2> DEFINE row == [jobs[j] EXCEPT !.status = "cancel_requested", !.cancelAsked = TRUE]
  <2>1. /\ row \in Row /\ row.status = "cancel_requested" /\ row.token = jobs[j].token
        /\ row.claims = jobs[j].claims /\ row.fence = jobs[j].fence
        /\ row.outcome = jobs[j].outcome
    BY <1>1 DEF Row, JobStatuses, ACTIVE_STATUSES
  <2>2. /\ jobs' = [jobs EXCEPT ![j] = row] /\ request' = request
        /\ jobs[j].status \in {"claimed", "running"}
    BY <1>3 DEF Cancel
  <2> HIDE DEF row
  <2>3. RowMove(jobs[j], row)
    BY <1>1, <2>1, <2>2 DEF RowMove, RowSound, TERMINAL_STATUSES, ENQUEUED_STATUSES
  <2>4. QED
    BY <2>1, <2>2, <2>3
<1>4. QED
  BY <1>2, <1>3

LEMMA CancelMoves == ASSUME Base, NEW j \in Jobs, Cancel(j) PROVE Moves
<1>1. jobs' \in [Jobs -> Row] /\ \A k \in Jobs : RowStep(k)
  BY CancelDoes, OneRowMoves
<1>2. request' \in Request /\ OwnerStep
  BY CancelDoes, SettleCancelledIs DEF Base, TypeOK, OwnerStep
<1>3. QED
  BY <1>1, <1>2, SameRunsMove, SameEditors DEF Cancel, Moves, TypeOK, Base

LEMMA ClaimJobDoes ==
    ASSUME Base, NEW t \in Threads, ClaimJob(t)
    PROVE  \E j \in Jobs, row \in Row, x \in Run :
              /\ jobs[j].status \in ENQUEUED_STATUSES
              /\ jobs' = [jobs EXCEPT ![j] = row] /\ RowMove(jobs[j], row)
              /\ row.status = "claimed" /\ row.claims = jobs[j].claims + 1
              /\ row.token = row.claims /\ row.fence = jobs[j].fence
              /\ runs[t] = Free /\ runs' = [runs EXCEPT ![t] = x] /\ x.pc = "mark"
              /\ x.job = j /\ x.token = jobs[j].claims + 1
<1>1. PICK j \in Jobs :
        /\ jobs[j].status \in ENQUEUED_STATUSES
        /\ jobs' = [jobs EXCEPT ![j] =
                      [@ EXCEPT !.status = "claimed", !.claims = jobs[j].claims + 1,
                                !.token = jobs[j].claims + 1, !.lease = "live"]]
        /\ runs' = [runs EXCEPT ![t] = [Free EXCEPT !.pc = "mark", !.job = j,
                                                    !.token = jobs[j].claims + 1]]
  BY DEF ClaimJob
<1>2. jobs[j] \in Row /\ RowSound(jobs[j])
  BY DEF Base, TypeOK
<1>3. jobs[j].claims + 1 \in Nat \ {0}
  BY <1>2 DEF Row
<1> DEFINE row == [jobs[j] EXCEPT !.status = "claimed", !.claims = jobs[j].claims + 1,
                                  !.token = jobs[j].claims + 1, !.lease = "live"]
           x == [Free EXCEPT !.pc = "mark", !.job = j, !.token = jobs[j].claims + 1]
<1>4. /\ row \in Row /\ row.status = "claimed" /\ row.claims = jobs[j].claims + 1
      /\ row.token = jobs[j].claims + 1
      /\ row.fence = jobs[j].fence /\ row.outcome = jobs[j].outcome
  BY <1>2, <1>3 DEF Row, JobStatuses, ACTIVE_STATUSES
<1>5. x \in Run /\ x.pc = "mark" /\ x.job = j /\ x.token = jobs[j].claims + 1
  BY <1>3 DEF Free, Run, Errors, Outcomes
<1>6. jobs' = [jobs EXCEPT ![j] = row]
  BY <1>1
<1>14. runs' = [runs EXCEPT ![t] = x]
  BY <1>1
<1>7. runs[t] = Free
  BY DEF ClaimJob
<1> HIDE DEF row, x
<1>8. row.status \notin TERMINAL_STATUSES \cup ENQUEUED_STATUSES \cup {"absent"}
  BY <1>4 DEF TERMINAL_STATUSES, ENQUEUED_STATUSES
<1>9. jobs[j].outcome = "none"
  BY <1>1, <1>2 DEF RowSound, ENQUEUED_STATUSES
<1>10. jobs[j].status \notin TERMINAL_STATUSES
  BY <1>1 DEF TERMINAL_STATUSES, ENQUEUED_STATUSES
<1>11. RowMove(jobs[j], row)
  BY <1>4, <1>8, <1>9, <1>10 DEF RowMove
<1>12. row.claims = jobs[j].claims + 1 /\ row.token = row.claims
  BY <1>4
<1>13. /\ jobs[j].status \in ENQUEUED_STATUSES /\ row.status = "claimed"
       /\ row.fence = jobs[j].fence /\ x.pc = "mark" /\ x.job = j
       /\ x.token = jobs[j].claims + 1 /\ row \in Row /\ x \in Run
  BY <1>1, <1>4, <1>5
<1> row \in Row /\ x \in Run
  BY <1>13
<1> WITNESS j \in Jobs, row \in Row, x \in Run
<1>15. QED
  BY <1>6, <1>14, <1>7, <1>11, <1>12, <1>13

LEMMA ClaimJobMoves == ASSUME Base, NEW t \in Threads, ClaimJob(t) PROVE Moves
<1>1. PICK j \in Jobs, row \in Row, x \in Run :
        /\ jobs' = [jobs EXCEPT ![j] = row] /\ RowMove(jobs[j], row)
        /\ row.status = "claimed" /\ row.claims = jobs[j].claims + 1
        /\ runs[t] = Free /\ runs' = [runs EXCEPT ![t] = x] /\ x.pc = "mark"
        /\ x.job = j /\ x.token = jobs[j].claims + 1
  BY ClaimJobDoes
<1>2. jobs' \in [Jobs -> Row] /\ \A k \in Jobs : RowStep(k)
  BY <1>1, OneRowMoves
<1>3. /\ request' = request /\ editors' = editors /\ tick' = tick /\ faults' = faults
      /\ overwritten' = overwritten
  BY DEF ClaimJob
<1>4. /\ runs' \in [Threads -> Run \cup {Free}] /\ runs'[t] = x
      /\ \A u \in Threads \ {t} : runs'[u] = runs[u]
      /\ jobs'[j] = row
  BY <1>1 DEF Base, TypeOK
<1>5. RunStep(t)
  BY <1>1, <1>3, <1>4 DEF RunStep
<1>6. \A u \in Threads : RunStep(u)
  BY <1>4, <1>5 DEF RunStep
<1>7. QED
  BY <1>2, <1>3, <1>4, <1>6, SameEditors DEF Moves, OwnerStep, TypeOK, Base

LEMMA RecoverDoes ==
    ASSUME Base, Recover, NEW j \in Jobs
    PROVE  /\ jobs'[j] \in Row /\ jobs'[j].fence = jobs[j].fence
           /\ jobs'[j].claims = jobs[j].claims /\ jobs'[j].outcome = jobs[j].outcome
           /\ jobs'[j].status = IF DeadLetters(j) THEN "dead_lettered"
                                ELSE IF Lapsed(j) THEN "pending" ELSE jobs[j].status
           /\ jobs'[j].token = IF Lapsed(j) THEN 0 ELSE jobs[j].token
<1>1. jobs[j] \in Row /\ "dead_lettered" \in JobStatuses /\ "pending" \in JobStatuses
  BY DEF Base, TypeOK, JobStatuses, TERMINAL_STATUSES, ENQUEUED_STATUSES
<1>2. jobs'[j] = IF DeadLetters(j) THEN Freed(jobs[j], "dead_lettered")
                 ELSE IF Lapsed(j) THEN Freed(jobs[j], "pending") ELSE jobs[j]
  BY DEF Recover
<1>3. DeadLetters(j) => Lapsed(j)
  BY DEF DeadLetters
<1>5. CASE DeadLetters(j)
  <2>1. jobs'[j] = Freed(jobs[j], "dead_lettered")
    BY <1>2, <1>5
  <2>2. QED
    BY <1>1, <1>3, <1>5, <2>1, FreedIs
<1>6. CASE ~DeadLetters(j) /\ Lapsed(j)
  <2>1. jobs'[j] = Freed(jobs[j], "pending")
    BY <1>2, <1>6
  <2>2. QED
    BY <1>1, <1>6, <2>1, FreedIs
<1>7. CASE ~DeadLetters(j) /\ ~Lapsed(j)
  BY <1>1, <1>2, <1>7
<1>8. QED
  BY <1>5, <1>6, <1>7

LEMMA RecoverMoves == ASSUME Base, Recover PROVE Moves
<1>1. jobs' \in [Jobs -> Row]
  BY RecoverDoes DEF Recover
<1>2. ASSUME NEW j \in Jobs PROVE RowStep(j)
  <2>1. jobs[j] \in Row /\ RowSound(jobs[j])
    BY DEF Base, TypeOK
  <2>2. QED
    BY <2>1, RecoverDoes
       DEF RowStep, RowSound, Lapsed, DeadLetters, TERMINAL_STATUSES, ENQUEUED_STATUSES
<1>3. request' \in {request, SettleFailed(request)}
  BY DEF Recover
<1>4. request' \in Request /\ OwnerStep
  BY <1>3, SettleFailedIs DEF Base, TypeOK, OwnerStep
<1>5. QED
  BY <1>1, <1>2, <1>4, SameRunsMove, SameEditors DEF Recover, Moves, TypeOK, Base

\* Only the lease of one row changes.
LEMMA LeaseDoes ==
    ASSUME Base, NEW j \in Jobs, NEW l \in {"live", "lapsed"},
           jobs' = [jobs EXCEPT ![j].lease = l]
    PROVE  /\ jobs' \in [Jobs -> Row]
           /\ \A k \in Jobs : /\ jobs'[k].status = jobs[k].status
                              /\ jobs'[k].fence = jobs[k].fence
                              /\ jobs'[k].token = jobs[k].token
                              /\ jobs'[k].claims = jobs[k].claims
                              /\ jobs'[k].outcome = jobs[k].outcome
BY DEF Base, TypeOK, Row

LEMMA LeaseMoves ==
    ASSUME Base, NEW j \in Jobs, NEW l \in {"live", "lapsed"},
           jobs' = [jobs EXCEPT ![j].lease = l]
    PROVE  jobs' \in [Jobs -> Row] /\ \A k \in Jobs : RowStep(k)
<1>1. ASSUME NEW k \in Jobs PROVE RowStep(k)
  <2>1. RowSound(jobs[k])
    BY DEF Base
  <2>2. QED
    BY <2>1, LeaseDoes DEF RowStep, RowSound
<1>2. QED
  BY <1>1, LeaseDoes

LEMMA LeaseLapsesMoves == ASSUME Base, NEW j \in Jobs, LeaseLapses(j) PROVE Moves
<1>1. jobs' \in [Jobs -> Row] /\ \A k \in Jobs : RowStep(k)
  BY LeaseMoves DEF LeaseLapses
<1>2. faults' \in Nat
  BY DEF LeaseLapses, Base, TypeOK
<1>3. QED
  BY <1>1, <1>2, SameRunsMove, SameEditors DEF LeaseLapses, Moves, OwnerStep, TypeOK, Base

LEMMA HeartbeatMoves == ASSUME Base, NEW t \in Threads, Heartbeat(t) PROVE Moves
<1>1. runs[t].job \in Jobs
  BY RunFacts DEF Heartbeat, Beating, Base
<1>2. jobs' \in [Jobs -> Row] /\ \A k \in Jobs : RowStep(k)
  BY <1>1, LeaseMoves DEF Heartbeat
<1>3. QED
  BY <1>2, SameRunsMove, SameEditors DEF Heartbeat, Moves, OwnerStep, TypeOK, Base

LEMMA CrashMoves == ASSUME Base, NEW t \in Threads, Crash(t) PROVE Moves
<1>1. faults' \in Nat
  BY DEF Crash, Base, TypeOK
<1>2. QED
  BY <1>1, SameRowsMove, EndMoves, SameEditors DEF Crash, Moves, OwnerStep, TypeOK, Base

-----------------------------------------------------------------------------
(***************************************************************************)
(* The steps of an attempt.                                                *)
(***************************************************************************)

LEMMA MarkRunningMoves == ASSUME Base, NEW t \in Threads, MarkRunning(t) PROVE Moves
<1>1. /\ request' = request /\ editors' = editors /\ tick' = tick /\ faults' = faults
      /\ overwritten' = overwritten /\ runs[t].pc = "mark"
  BY DEF MarkRunning
<1>2. TypeOK /\ runs[t] # Free
  BY <1>1 DEF Base, Free
<1>3. runs[t].job \in Jobs
  BY <1>2, RunFacts
<1>4. jobs[runs[t].job] \in Row /\ RowSound(jobs[runs[t].job])
  BY <1>2, <1>3 DEF Base, TypeOK
<1>5. PICK j \in Jobs : j = runs[t].job
  BY <1>3
<1>6. CASE Holds(t) /\ jobs[j].status \in {"claimed", "cancel_requested"}
  <2> DEFINE row == [jobs[j] EXCEPT !.status = "running", !.attempt = jobs[j].attempt + 1]
  <2>1. jobs' = [jobs EXCEPT ![j] = row] /\ To(t, "start")
    BY <1>5, <1>6 DEF MarkRunning
  <2>2. jobs[j] \in Row
    BY <1>4, <1>5
  <2>3. jobs[j].attempt + 1 \in Nat
    BY <2>2 DEF Row
  <2>4. /\ row \in Row /\ row.status = "running" /\ row.token = jobs[j].token
        /\ row.claims = jobs[j].claims /\ row.fence = jobs[j].fence
        /\ row.outcome = jobs[j].outcome
    BY <2>2, <2>3 DEF Row, JobStatuses, ACTIVE_STATUSES
  <2> HIDE DEF row
  <2>5. jobs[j].outcome = "none"
    BY <1>4, <1>5, <1>6 DEF RowSound
  <2>6. RowMove(jobs[j], row)
    BY <1>6, <2>4, <2>5 DEF RowMove, TERMINAL_STATUSES, ENQUEUED_STATUSES
  <2>7. jobs' \in [Jobs -> Row] /\ \A k \in Jobs : RowStep(k)
    BY <2>1, <2>4, <2>6, OneRowMoves
  <2>8. PICK x \in Run : GoesOn(t, x) /\ x.pc = "start"
    BY <1>2, <2>1, ToIs DEF Pcs
  <2>9. runs' \in [Threads -> Run \cup {Free}] /\ \A u \in Threads : RunStep(u)
    BY <1>1, <1>2, <2>8, AdvanceMoves DEF Early
  <2>10. QED
    BY <1>1, <2>7, <2>9, SameEditors DEF Moves, OwnerStep, TypeOK, Base
<1>7. CASE ~(Holds(t) /\ jobs[j].status \in {"claimed", "cancel_requested"})
  <2>1. jobs' = jobs /\ runs' = [runs EXCEPT ![t] = Free]
    BY <1>5, <1>7 DEF MarkRunning, Ends
  <2>2. QED
    BY <1>1, <2>1, SameRowsMove, EndMoves, SameEditors DEF Moves, OwnerStep, TypeOK, Base
<1>8. QED
  BY <1>6, <1>7

LEMMA StartMoves == ASSUME Base, NEW t \in Threads, Start(t) PROVE Moves
<1>1. TypeOK /\ runs[t] # Free /\ runs[t].pc \in Early
  BY DEF Base, Start, Free, Early
<1>2. PICK pc \in {"cancel", "claim"} : To(t, pc)
  BY DEF Start
<1>3. PICK x \in Run : GoesOn(t, x) /\ x.pc = pc
  BY <1>1, <1>2, ToIs DEF Pcs
<1>4. runs' \in [Threads -> Run \cup {Free}] /\ \A u \in Threads : RunStep(u)
  BY <1>1, <1>3, AdvanceMoves
<1>5. QED
  BY <1>4, SameRowsMove, SameEditors DEF Start, Moves, OwnerStep, TypeOK, Base

\* A claim of the Scout: refused, or the attempt becomes its owner.
LEMMA ClaimScoutDoes ==
    ASSUME Base, NEW t \in Threads, ClaimScout(t)
    PROVE  \/ /\ request' = request
              /\ \/ StopsWith(t, "lease_lost")
                 \/ /\ StopsWith(t, "skipped")
                    /\ \/ request.status = "paused" \/ Fenced(runs[t].job)
                       \/ OwnerValid /\ Holds(t)
           \/ /\ request' = [request EXCEPT !.status = "running", !.owner = Me(t)]
              /\ runs' = [runs EXCEPT ![t].pc = "work", ![t].pre = request.status]
              /\ request.status # "paused" /\ ~Fenced(runs[t].job) /\ ~OwnerValid
              /\ jobs[runs[t].job].status \in {"claimed", "running"} /\ Holds(t)
              /\ jobs[runs[t].job].lease = "live"
BY DEF ClaimScout

LEMMA ClaimScoutRows ==
    ASSUME Base, NEW t \in Threads, ClaimScout(t)
    PROVE  /\ jobs' \in [Jobs -> Row]
           /\ \A k \in Jobs : /\ jobs'[k].status = jobs[k].status
                              /\ jobs'[k].fence = jobs[k].fence
                              /\ jobs'[k].token = jobs[k].token
                              /\ jobs'[k].claims = jobs[k].claims
                              /\ jobs'[k].outcome = jobs[k].outcome
<1>1. CASE jobs' = jobs
  BY <1>1 DEF Base, TypeOK
<1>2. CASE jobs' # jobs
  <2>1. /\ request.status \in Settled
        /\ jobs' = [jobs EXCEPT ![runs[t].job].prior = request.status]
    BY <1>2 DEF ClaimScout
  <2>2. PICK s \in Settled : s = request.status
    BY <2>1
  <2>3. jobs' = [jobs EXCEPT ![runs[t].job].prior = s]
    BY <2>1, <2>2
  <2>4. jobs \in [Jobs -> Row]
    BY DEF Base, TypeOK
  <2>5. \A k \in Jobs : jobs'[k] \in {jobs[k], [jobs[k] EXCEPT !.prior = s]}
    BY <2>3, <2>4
  <2>6. \A row \in Row : /\ [row EXCEPT !.prior = s] \in Row
                         /\ [row EXCEPT !.prior = s].status = row.status
                         /\ [row EXCEPT !.prior = s].fence = row.fence
                         /\ [row EXCEPT !.prior = s].token = row.token
                         /\ [row EXCEPT !.prior = s].claims = row.claims
                         /\ [row EXCEPT !.prior = s].outcome = row.outcome
    BY DEF Row
  <2>7. \A k \in Jobs : jobs'[k] \in Row
    BY <2>4, <2>5, <2>6
  <2>8. jobs' \in [Jobs -> Row]
    BY <2>3, <2>4, <2>7
  <2>9. QED
    BY <2>4, <2>5, <2>6, <2>8
<1>3. QED
  BY <1>1, <1>2

LEMMA ClaimScoutMoves == ASSUME Base, NEW t \in Threads, ClaimScout(t) PROVE Moves
<1>1. /\ editors' = editors /\ tick' = tick /\ faults' = faults
      /\ overwritten' = overwritten /\ runs[t].pc = "claim"
  BY DEF ClaimScout
<1>2. TypeOK /\ runs[t] # Free /\ runs[t].pc \in Early
  BY <1>1 DEF Base, Free, Early
<1>3. ASSUME NEW k \in Jobs PROVE RowStep(k)
  <2>1. RowSound(jobs[k])
    BY DEF Base
  <2>2. QED
    BY <2>1, ClaimScoutRows DEF RowStep, RowSound
<1>4. ASSUME NEW o \in {"skipped", "lease_lost"}, StopsWith(t, o), request' = request
      PROVE  Moves
  <2>1. PICK x \in Run : GoesOn(t, x) /\ x.pc = "stop" /\ x.outcome = o
    BY <1>2, <1>4, StopsWithIs DEF StopOutcomes
  <2>2. runs' \in [Threads -> Run \cup {Free}] /\ \A u \in Threads : RunStep(u)
    BY <1>2, <1>4, <2>1, AdvanceMoves DEF StopOutcomes, Early
  <2>3. QED
    BY <1>1, <1>3, <1>4, <2>2, ClaimScoutRows, SameEditors
       DEF Moves, OwnerStep, TypeOK, Base
<1>5. ASSUME request' = [request EXCEPT !.status = "running", !.owner = Me(t)],
             runs' = [runs EXCEPT ![t].pc = "work", ![t].pre = request.status],
             Holds(t), ~Fenced(runs[t].job)
      PROVE  Moves
  <2>1. PICK o \in Owner : o = Me(t)
    BY <1>2, RunFacts
  <2>2. request' = [request EXCEPT !.status = "running", !.owner = o]
    BY <1>5, <2>1
  <2>3. /\ request' \in Request /\ request'.owner = Me(t)
        /\ request'.fence = request.fence
    BY <1>2, <2>1, <2>2 DEF TypeOK, Request, RequestStatuses, InFlight
  <2>4. PICK s \in RequestStatuses : s = request.status
    BY <1>2 DEF TypeOK, Request
  <2> DEFINE x == [runs[t] EXCEPT !.pc = "work", !.pre = s]
  <2>5. runs[t] \in Run
    BY <1>2 DEF TypeOK
  <2>6. /\ x \in Run /\ x.pc = "work" /\ x.job = runs[t].job /\ x.token = runs[t].token
    BY <2>5 DEF Run
  <2>7. runs' = [runs EXCEPT ![t] = x]
    BY <1>2, <1>5, <2>4 DEF TypeOK
  <2> HIDE DEF x
  <2>8. GoesOn(t, x)
    BY <2>6, <2>7 DEF GoesOn
  <2>9. runs' \in [Threads -> Run \cup {Free}] /\ \A u \in Threads : RunStep(u)
    BY <1>1, <1>2, <2>3, <2>6, <2>8, AdvanceMoves DEF Early
  <2>10. runs'[t] = x /\ \A u \in Threads \ {t} : runs'[u] = runs[u]
    BY <1>2, <2>7 DEF TypeOK
  <2>11. OwnerStep
    BY <1>1, <1>5, <2>3, <2>6, <2>10 DEF OwnerStep
  <2>12. QED
    BY <1>1, <1>3, <2>3, <2>9, <2>11, ClaimScoutRows, SameEditors DEF Moves, TypeOK, Base
<1>6. QED
  BY <1>4, <1>5, ClaimScoutDoes

LEMMA AdmissionMoves == ASSUME Base, NEW t \in Threads, Admission(t) PROVE Moves
<1>1. TypeOK /\ runs[t] # Free
  BY DEF Base, Admission, Free
<1>2. \/ To(t, "cancel")
      \/ Errs(t, "rollback", "retryable")
      \/ StopsWith(t, "lease_lost") \/ StopsWith(t, "stopped")
  BY DEF Admission, Errs
<1>3. PICK x \in Run : /\ GoesOn(t, x) /\ x.pc \in {"cancel", "rollback", "stop"}
                       /\ x.pc = "stop" => x.outcome \in StopOutcomes
  <2>1. CASE To(t, "cancel")
    BY <1>1, <2>1, ToIs DEF Pcs
  <2>2. CASE Errs(t, "rollback", "retryable")
    BY <1>1, <2>2, ErrsIs DEF Errors
  <2>3. CASE StopsWith(t, "lease_lost") \/ StopsWith(t, "stopped")
    BY <1>1, <2>3, StopsWithIs DEF StopOutcomes
  <2>4. QED
    BY <1>2, <2>1, <2>2, <2>3
<1>4. runs' \in [Threads -> Run \cup {Free}] /\ \A u \in Threads : RunStep(u)
  BY <1>1, <1>3, AdvanceMoves DEF Early
<1>5. QED
  BY <1>4, SameRowsMove, SameEditors DEF Admission, Moves, OwnerStep, TypeOK, Base

LEMMA RaiseMoves == ASSUME Base, NEW t \in Threads, Raise(t) PROVE Moves
<1>1. TypeOK /\ runs[t] # Free
  BY DEF Base, Raise, Free
<1>2. PICK e \in {"retryable", "fatal", "unresolved", "refused"} :
        Errs(t, "rollback", e)
  BY DEF Raise, Errs
<1>3. PICK x \in Run : GoesOn(t, x) /\ x.pc = "rollback"
  BY <1>1, <1>2, ErrsIs DEF Errors
<1>4. runs' \in [Threads -> Run \cup {Free}] /\ \A u \in Threads : RunStep(u)
  BY <1>1, <1>3, AdvanceMoves DEF Early
<1>5. QED
  BY <1>4, SameRowsMove, SameEditors DEF Raise, Moves, OwnerStep, TypeOK, Base

\* What the transaction after a rolled-back run leaves of the Scout.
LEMMA RollbackDoes ==
    ASSUME Base, NEW t \in Threads, Rollback(t)
    PROVE  /\ request' \in Request /\ request'.fence = request.fence
           /\ \/ request' = request
              \/ /\ request'.owner = NoOwner /\ IsMe(t) /\ HoldsJob(t)
                 /\ \/ request'.status = request.status
                    \/ Restores(t) /\ request'.status = runs[t].pre
<1>1. TypeOK /\ runs[t] # Free /\ request \in Request
  BY DEF Base, Rollback, Free, TypeOK
<1>2. \/ request' = request \/ request' = ReleaseOwner(t, request)
      \/ request' = Restored(t) /\ Restores(t) /\ runs[t].pre # "none"
  BY DEF Rollback
<1>3. CASE request' = ReleaseOwner(t, request)
  <2>1. CASE request.owner = Me(t) /\ HoldsJob(t)
    <3>1. IsMe(t) /\ HoldsJob(t) /\ request' = NoOwnerNow(request)
      BY <1>3, <2>1 DEF ReleaseOwner, IsMe
    <3>2. QED
      BY <1>1, <3>1, NoOwnerNowIs
  <2>2. CASE ~(request.owner = Me(t) /\ HoldsJob(t))
    BY <1>1, <1>3, <2>2 DEF ReleaseOwner
  <2>3. QED
    BY <2>1, <2>2
<1>4. CASE request' = Restored(t) /\ Restores(t) /\ runs[t].pre # "none"
  <2>1. IsMe(t) /\ HoldsJob(t)
    BY <1>4 DEF Restores, HoldsJob, ACTIVE_STATUSES
  <2>2. QED
    BY <1>1, <1>4, <2>1, RestoredIs
<1>5. QED
  BY <1>1, <1>2, <1>3, <1>4

LEMMA RollbackMoves == ASSUME Base, NEW t \in Threads, Rollback(t) PROVE Moves
<1>1. TypeOK /\ runs[t] # Free
  BY DEF Base, Rollback, Free
<1>2. PICK x \in Run : GoesOn(t, x) /\ x.pc = "fail"
  <2>1. CASE To(t, "fail")
    BY <1>1, <2>1, ToIs DEF Pcs
  <2>2. CASE Errs(t, "fail", "unrecorded")
    BY <1>1, <2>2, ErrsIs DEF Errors
  <2>3. QED
    BY <2>1, <2>2 DEF Rollback, Errs
<1>3. runs' \in [Threads -> Run \cup {Free}] /\ \A u \in Threads : RunStep(u)
  BY <1>1, <1>2, AdvanceMoves DEF Early
<1>4. OwnerStep
  BY RollbackDoes DEF OwnerStep
<1>5. QED
  BY <1>3, <1>4, RollbackDoes, SameRowsMove, SameEditors DEF Rollback, Moves, TypeOK, Base

\* The last transaction of an attempt moves its job's row on, or changes nothing.
LEMMA FinalMoves ==
    ASSUME Base, NEW t \in Threads, runs[t] # Free, NEW source, source \subseteq ACTIVE_STATUSES,
           NEW row \in Row, NEW req \in Request, FinalWrite(t, source, row, req),
           row.status \in {"succeeded", "cancelled", "failed", "dead_lettered", "retry_wait"},
           row.token = 0, row.claims = jobs[runs[t].job].claims,
           row.fence = jobs[runs[t].job].fence,
           row.outcome # "none" => \/ row.status = "succeeded"
                                   \/ row.outcome = jobs[runs[t].job].outcome,
           req.fence = request.fence, req.owner \in {request.owner, NoOwner}
    PROVE  Moves
<1>1. /\ editors' = editors /\ tick' = tick /\ faults' = faults
      /\ overwritten' = overwritten /\ runs' = [runs EXCEPT ![t] = Free]
  BY DEF FinalWrite, Ends
<1>2. PICK j \in Jobs : j = runs[t].job
  BY RunFacts DEF Base
<1>3. jobs[j] \in Row /\ RowSound(jobs[j])
  BY DEF Base, TypeOK
<1>4. CASE jobs' = jobs /\ request' = request
  BY <1>1, <1>4, SameRowsMove, EndMoves, SameEditors DEF Moves, OwnerStep, TypeOK, Base
<1>5. CASE ~(jobs' = jobs /\ request' = request)
  <2>1. /\ jobs[j].status \in ACTIVE_STATUSES /\ jobs' = [jobs EXCEPT ![j] = row]
        /\ request' = req
    BY <1>2, <1>5 DEF FinalWrite
  <2>2. jobs[j].outcome = "none"
    BY <1>3, <2>1 DEF RowSound, ACTIVE_STATUSES
  <2>3. jobs[j].status \notin TERMINAL_STATUSES \cup {"absent"}
    BY <2>1 DEF ACTIVE_STATUSES, TERMINAL_STATUSES
  <2>4. row.outcome # "none" => row.status = "succeeded"
    BY <1>2, <2>2
  <2>5. row.status # "absent"
    OBVIOUS
  <2>6. RowMove(jobs[j], row)
    BY <1>2, <2>3, <2>4, <2>5 DEF RowMove
  <2>7. jobs' \in [Jobs -> Row] /\ \A k \in Jobs : RowStep(k)
    BY <2>1, <2>6, OneRowMoves
  <2>8. request' \in Request /\ OwnerStep
    BY <2>1 DEF OwnerStep
  <2>9. QED
    BY <1>1, <2>7, <2>8, EndMoves, SameEditors DEF Moves, TypeOK, Base
<1>6. QED
  BY <1>4, <1>5

LEMMA FinishMoves == ASSUME Base, NEW t \in Threads, Finish(t) PROVE Moves
<1>1. TypeOK /\ runs[t] # Free
  BY DEF Base, Finish, Free
<1>2. jobs[runs[t].job] \in Row /\ request \in Request
  BY <1>1, RunFacts DEF TypeOK
<1> DEFINE row == [Freed(jobs[runs[t].job], "succeeded") EXCEPT !.outcome = "completed"]
           done == [request EXCEPT !.status = "completed"]
           req == NoOwnerNow(done)
<1>3. FinalWrite(t, {"running"}, row, req)
  BY DEF Finish
<1>4. "succeeded" \in JobStatuses /\ "completed" \in Outcomes
  BY DEF JobStatuses, TERMINAL_STATUSES, Outcomes
<1>5. /\ row \in Row /\ row.status = "succeeded" /\ row.token = 0
      /\ row.claims = jobs[runs[t].job].claims /\ row.fence = jobs[runs[t].job].fence
  BY <1>2, <1>4, FreedRow
<1>6. done \in Request /\ done.fence = request.fence
  BY <1>2 DEF Request, RequestStatuses, Settled
<1> HIDE DEF done
<1>7. req \in Request /\ req.fence = request.fence /\ req.owner = NoOwner
  BY <1>6, NoOwnerNowIs
<1> HIDE DEF row, req
<1>8. {"running"} \subseteq ACTIVE_STATUSES
  BY DEF ACTIVE_STATUSES
<1>9. QED
  BY <1>1, <1>3, <1>5, <1>7, <1>8, FinalMoves

\* What a failure leaves of the Scout.
FailRequest(t) ==
    LET j == runs[t].job
        refused == IF /\ runs[t].error = "refused"
                      /\ request.status # "paused" /\ ~Fenced(j) /\ IsMe(t) /\ HoldsJob(t)
                   THEN SettleFailed(request)
                   ELSE request
    IN  IF ~(runs[t].error = "retryable" /\ jobs[j].attempt < MaxAttempts)
           /\ FailureSettles(j, refused)
        THEN SettleFailed(refused)
        ELSE refused

LEMMA FailRequestIs ==
    ASSUME Base, NEW t \in Threads
    PROVE  \/ FailRequest(t) = request
           \/ /\ FailRequest(t) \in Request /\ FailRequest(t).fence = request.fence
              /\ FailRequest(t).owner = NoOwner /\ FailRequest(t).status = "failed"
<1>1. request \in Request
  BY DEF Base, TypeOK
<1>2. PICK refused \in {request, SettleFailed(request)} :
        FailRequest(t) \in {refused, SettleFailed(refused)}
  BY DEF FailRequest
<1>3. /\ SettleFailed(request) \in Request /\ SettleFailed(request).fence = request.fence
      /\ SettleFailed(request).owner = NoOwner /\ SettleFailed(request).status = "failed"
  BY <1>1, SettleFailedIs
<1>4. /\ SettleFailed(refused) \in Request /\ SettleFailed(refused).fence = refused.fence
      /\ SettleFailed(refused).owner = NoOwner /\ SettleFailed(refused).status = "failed"
  BY <1>1, <1>2, <1>3, SettleFailedIs
<1>5. QED
  BY <1>1, <1>2, <1>3, <1>4

LEMMA FailMoves == ASSUME Base, NEW t \in Threads, Fail(t) PROVE Moves
<1>1. TypeOK /\ runs[t] # Free
  BY DEF Base, Fail, Free
<1>2. jobs[runs[t].job] \in Row /\ request \in Request
  BY <1>1, RunFacts DEF TypeOK
<1>3. PICK s \in {"retry_wait", "dead_lettered", "failed"} :
        FinalWrite(t, {"running", "cancel_requested"}, Freed(jobs[runs[t].job], s),
                   FailRequest(t))
  BY DEF Fail, FailRequest
<1>4. s \in JobStatuses
  BY DEF JobStatuses, TERMINAL_STATUSES, ENQUEUED_STATUSES
<1> DEFINE row == Freed(jobs[runs[t].job], s)
           req == FailRequest(t)
<1>5. /\ row \in Row /\ row.status = s /\ row.token = 0
      /\ row.claims = jobs[runs[t].job].claims /\ row.fence = jobs[runs[t].job].fence
      /\ row.outcome = jobs[runs[t].job].outcome
  BY <1>2, <1>4, FreedIs
<1>6. /\ req \in Request /\ req.fence = request.fence
      /\ req.owner \in {request.owner, NoOwner}
  BY <1>2, FailRequestIs
<1>7. FinalWrite(t, {"running", "cancel_requested"}, row, req)
  BY <1>3
<1> HIDE DEF row, req
<1>8. {"running", "cancel_requested"} \subseteq ACTIVE_STATUSES
  BY DEF ACTIVE_STATUSES
<1>9. QED
  BY <1>1, <1>5, <1>6, <1>7, <1>8, FinalMoves

LEMMA StopMoves == ASSUME Base, NEW t \in Threads, Stop(t) PROVE Moves
<1>1. TypeOK /\ runs[t] # Free
  BY DEF Base, Stop, Free
<1>2. /\ jobs[runs[t].job] \in Row /\ request \in Request /\ runs[t] \in Run
  BY <1>1, RunFacts DEF TypeOK
<1> DEFINE row == [Freed(jobs[runs[t].job], "succeeded") EXCEPT !.outcome = runs[t].outcome]
           req == ReleaseOwner(t, request)
<1>3. FinalWrite(t, {"running", "cancel_requested"}, row, req)
  BY DEF Stop
<1>4. "succeeded" \in JobStatuses /\ runs[t].outcome \in Outcomes
  BY <1>2 DEF JobStatuses, TERMINAL_STATUSES, Run
<1>5. /\ row \in Row /\ row.status = "succeeded" /\ row.token = 0
      /\ row.claims = jobs[runs[t].job].claims /\ row.fence = jobs[runs[t].job].fence
  BY <1>2, <1>4, FreedRow
<1>6. /\ req \in Request /\ req.fence = request.fence
      /\ req.owner \in {request.owner, NoOwner}
  BY <1>2, ReleaseOwnerIs
<1> HIDE DEF row, req
<1>7. {"running", "cancel_requested"} \subseteq ACTIVE_STATUSES
  BY DEF ACTIVE_STATUSES
<1>8. QED
  BY <1>1, <1>3, <1>5, <1>6, <1>7, FinalMoves

LEMMA AcknowledgeCancelMoves ==
    ASSUME Base, NEW t \in Threads, AcknowledgeCancel(t) PROVE Moves
<1>1. TypeOK /\ runs[t] # Free
  BY DEF Base, AcknowledgeCancel, Free
<1>2. /\ runs[t].job \in Jobs /\ jobs[runs[t].job] \in Row /\ request \in Request
  BY <1>1, RunFacts DEF TypeOK
<1>3. PICK settled \in {request, SettleCancelled(runs[t].job)} :
        \E req \in {settled, ReleaseOwner(t, settled)} :
           FinalWrite(t, ACTIVE_STATUSES, Freed(jobs[runs[t].job], "cancelled"), req)
  BY DEF AcknowledgeCancel
<1>4. PICK req \in {settled, ReleaseOwner(t, settled)} :
        FinalWrite(t, ACTIVE_STATUSES, Freed(jobs[runs[t].job], "cancelled"), req)
  BY <1>3
<1>5. /\ settled \in Request /\ settled.fence = request.fence
      /\ settled.owner \in {request.owner, NoOwner}
  BY <1>1, <1>2, SettleCancelledIs
<1>6. /\ req \in Request /\ req.fence = request.fence
      /\ req.owner \in {request.owner, NoOwner}
  BY <1>5, ReleaseOwnerIs
<1> DEFINE row == Freed(jobs[runs[t].job], "cancelled")
<1>7. "cancelled" \in JobStatuses
  BY DEF JobStatuses, TERMINAL_STATUSES
<1>8. /\ row \in Row /\ row.status = "cancelled" /\ row.token = 0
      /\ row.claims = jobs[runs[t].job].claims /\ row.fence = jobs[runs[t].job].fence
      /\ row.outcome = jobs[runs[t].job].outcome
  BY <1>2, <1>7, FreedIs
<1>9. FinalWrite(t, ACTIVE_STATUSES, row, req)
  BY <1>4
<1> HIDE DEF row
<1>10. QED
  BY <1>1, <1>6, <1>8, <1>9, FinalMoves

-----------------------------------------------------------------------------
(***************************************************************************)
(* The theorems.                                                           *)
(***************************************************************************)

LEMMA InitBase == Init => Base
<1> SUFFICES ASSUME Init PROVE Base
  OBVIOUS
<1>1. request \in Request /\ request.owner = NoOwner
  BY NoOwnerType DEF Init, Request, RequestStatuses, Settled
<1>2. TypeOK
  BY <1>1, NewRowType, IdleEditor DEF Init, TypeOK, Tick, NoTick
<1>3. ASSUME NEW j \in Jobs PROVE RowSound(jobs[j])
  BY DEF Init, NewRow, RowSound
<1>4. \A t \in Threads : RunSound(t)
  BY DEF Init, RunSound
<1>5. CredentialsDiffer /\ OwnerInFence
  BY <1>1 DEF Init, CredentialsDiffer, OwnerInFence
<1>6. EditorsSaw
  BY IdleEditor DEF Init, EditorsSaw
<1>7. QED
  BY <1>2, <1>3, <1>4, <1>5, <1>6 DEF Base

LEMMA StutterMoves == ASSUME Base, UNCHANGED vars PROVE Moves
BY SameRowsMove, SameRunsMove, SameEditors DEF vars, Moves, OwnerStep, TypeOK, Base

LEMMA AttemptMoves == ASSUME Base, NEW t \in Threads, Attempt(t) PROVE Moves
BY MarkRunningMoves, StartMoves, ClaimScoutMoves, AdmissionMoves, FinishMoves, RaiseMoves,
   RollbackMoves, FailMoves, StopMoves, AcknowledgeCancelMoves DEF Attempt

LEMMA NextMoves == ASSUME Base, Next PROVE Moves
<1>1. CASE Pause \/ TickRead \/ TickWrite \/ Recover
  BY <1>1, PauseMoves, TickReadMoves, TickWriteMoves, RecoverMoves
<1>2. ASSUME NEW e \in Editors, Edit(e) PROVE Moves
  BY <1>2, ResumeReadMoves, ResumeWriteMoves, RunReadMoves, RunWriteMoves DEF Edit
<1>3. ASSUME NEW j \in Jobs, Cancel(j) \/ LeaseLapses(j) PROVE Moves
  BY <1>3, CancelMoves, LeaseLapsesMoves
<1>4. ASSUME NEW t \in Threads, ClaimJob(t) \/ Attempt(t) \/ Heartbeat(t) \/ Crash(t)
      PROVE  Moves
  BY <1>4, ClaimJobMoves, AttemptMoves, HeartbeatMoves, CrashMoves
<1>5. QED
  BY <1>1, <1>2, <1>3, <1>4 DEF Next

LEMMA NextBase == Base /\ [Next]_vars => Base'
BY NextMoves, StutterMoves, BaseStep

LEMMA Invariance == Spec => []Base
BY InitBase, NextBase, PTL DEF Spec

\* The rows, attempts and calls hold values the code can store, in any number of runs.
THEOREM TypeCorrect == Spec => []TypeOK
<1>1. Base => TypeOK
  BY DEF Base
<1>2. QED
  BY <1>1, Invariance, PTL

-----------------------------------------------------------------------------
(***************************************************************************)
(* Who changes the Scout's row, and when.                                  *)
(***************************************************************************)

ByPause == request'.fence = request.fence + 1 /\ request'.status = "paused" /\ runs' = runs

ByEditor == \E e \in Editors :
    /\ request'.owner = request.owner /\ runs' = runs
    /\ \/ editors[e].pc = "resume" /\ editors'[e] = Idle
       \/ request.status \in Settled

\* The hook of a job that nobody holds under a live lease.
ByHook == \E j \in Jobs :
    /\ request.status \in InFlight /\ OwnedBy(j) /\ runs' = runs
    /\ jobs[j].status \in ENQUEUED_STATUSES \/ jobs[j].lease = "lapsed"

\* An attempt that still holds its job, under the Scout's fence.
ByAttempt == \E t \in Threads :
    /\ runs[t] # Free /\ runs'[t] # runs[t]
    /\ \A u \in Threads \ {t} : runs'[u] = runs[u]
    /\ Holds(t) /\ ~Fenced(runs[t].job)
    /\ request.status # "paused" \/ request'.status = request.status
    /\ \/ request'.owner = request.owner \/ ~OwnerValid
       \/ IsMe(t) \/ OwnedBy(runs[t].job)

RequestStep == request' = request \/ ByPause \/ ByEditor \/ ByHook \/ ByAttempt

LEMMA PauseChanges == ASSUME Base, Pause PROVE RequestStep
BY DEF Pause, RequestStep, ByPause

LEMMA EditChanges == ASSUME Base, NEW e \in Editors, Edit(e) PROVE RequestStep
<1>1. CASE ResumeRead(e) \/ RunRead(e)
  BY <1>1 DEF ResumeRead, RunRead, RequestStep
<1>2. CASE ResumeWrite(e)
  <2>1. editors'[e] = Idle /\ request'.owner = request.owner
    BY <1>2 DEF ResumeWrite, Base, TypeOK, Request
  <2>2. QED
    BY <1>2, <2>1 DEF ResumeWrite, RequestStep, ByEditor
<1>3. CASE RunWrite(e)
  <2>1. CASE request' = request
    BY <2>1 DEF RequestStep
  <2>2. CASE request' # request
    <3>1. /\ request.status = editors[e].seen /\ editors[e].pc = "run"
          /\ request' = [request EXCEPT !.status = "queued"] /\ runs' = runs
      BY <1>3, <2>2 DEF RunWrite, StillAsRead
    <3>2. request.status \in Settled /\ request'.owner = request.owner
      BY <3>1 DEF Base, EditorsSaw, TypeOK, Request
    <3>3. QED
      BY <3>1, <3>2 DEF RequestStep, ByEditor
  <2>3. QED
    BY <2>1, <2>2
<1>4. QED
  BY <1>1, <1>2, <1>3 DEF Edit

LEMMA CancelChanges == ASSUME Base, NEW j \in Jobs, Cancel(j) PROVE RequestStep
<1>1. CASE request' = request
  BY <1>1 DEF RequestStep
<1>2. CASE request' # request
  BY <1>2 DEF Cancel, CancelSettles, RequestStep, ByHook
<1>3. QED
  BY <1>1, <1>2

LEMMA RecoverChanges == ASSUME Base, Recover PROVE RequestStep
<1>1. CASE request' = request
  BY <1>1 DEF RequestStep
<1>2. CASE request' # request
  <2>1. PICK j \in Jobs : DeadLetters(j) /\ FailureSettles(j, request)
    BY <1>2 DEF Recover
  <2>2. /\ jobs[j].lease = "lapsed" /\ request.status \in InFlight /\ OwnedBy(j)
        /\ runs' = runs
    BY <2>1 DEF Recover, DeadLetters, Lapsed, FailureSettles, OwnedBy
  <2>3. QED
    BY <2>2 DEF RequestStep, ByHook
<1>3. QED
  BY <1>1, <1>2

\* An attempt whose Scout's owner it is runs under the Scout's fence.
LEMMA MineIsInFence ==
    ASSUME Base, NEW t \in Threads, runs[t] # Free, IsMe(t)
    PROVE  ~Fenced(runs[t].job)
<1>1. request.owner # NoOwner /\ request.owner.job = runs[t].job
  BY RunFacts DEF Base, IsMe
<1>2. QED
  BY <1>1 DEF Base, OwnerInFence

LEMMA FinalChanges ==
    ASSUME Base, NEW t \in Threads, runs[t] # Free, NEW source, NEW row, NEW req,
           FinalWrite(t, source, row, req),
           req # request => /\ ~Fenced(runs[t].job)
                            /\ request.status # "paused" \/ req.status = request.status
                            /\ \/ req.owner = request.owner
                               \/ IsMe(t) \/ OwnedBy(runs[t].job)
    PROVE  RequestStep
<1>1. CASE request' = request
  BY <1>1 DEF RequestStep
<1>2. CASE request' # request
  <2>1. Holds(t) /\ request' = req
    BY <1>2 DEF FinalWrite
  <2>2. runs'[t] # runs[t] /\ \A u \in Threads \ {t} : runs'[u] = runs[u]
    BY DEF FinalWrite, Ends, Base, TypeOK
  <2>3. QED
    BY <1>2, <2>1, <2>2 DEF RequestStep, ByAttempt
<1>3. QED
  BY <1>1, <1>2

LEMMA FinishChanges == ASSUME Base, NEW t \in Threads, Finish(t) PROVE RequestStep
<1>1. runs[t] # Free
  BY DEF Finish, Free
<1>2. IsMe(t) /\ request.status # "paused"
  BY DEF Finish, Cause
<1>3. ~Fenced(runs[t].job)
  BY <1>1, <1>2, MineIsInFence
<1>4. QED
  BY <1>1, <1>2, <1>3, FinalChanges DEF Finish

LEMMA FailChanges == ASSUME Base, NEW t \in Threads, Fail(t) PROVE RequestStep
<1>1. runs[t] # Free
  BY DEF Fail, Free
<1>2. PICK row : FinalWrite(t, {"running", "cancel_requested"}, row, FailRequest(t))
  BY DEF Fail, FailRequest
<1>3. ASSUME FailRequest(t) # request
      PROVE  /\ ~Fenced(runs[t].job) /\ request.status # "paused"
             /\ IsMe(t) \/ OwnedBy(runs[t].job)
  <2>1. \/ request.status # "paused" /\ ~Fenced(runs[t].job) /\ IsMe(t)
        \/ FailureSettles(runs[t].job, request)
    BY <1>3 DEF FailRequest
  <2>2. QED
    BY <2>1 DEF FailureSettles, InFlight, OwnedBy
<1>4. QED
  BY <1>1, <1>2, <1>3, FinalChanges

LEMMA StopChanges == ASSUME Base, NEW t \in Threads, Stop(t) PROVE RequestStep
<1>1. runs[t] # Free /\ request \in Request
  BY DEF Stop, Free, Base, TypeOK
<1>2. PICK row : FinalWrite(t, {"running", "cancel_requested"}, row, ReleaseOwner(t, request))
  BY DEF Stop
<1>3. ASSUME ReleaseOwner(t, request) # request
      PROVE  IsMe(t) /\ ReleaseOwner(t, request).status = request.status
  BY <1>1, <1>3, ReleaseOwnerIs DEF ReleaseOwner, IsMe
<1>4. QED
  BY <1>1, <1>2, <1>3, MineIsInFence, FinalChanges

LEMMA AcknowledgeCancelChanges ==
    ASSUME Base, NEW t \in Threads, AcknowledgeCancel(t) PROVE RequestStep
<1>1. runs[t] # Free /\ request \in Request /\ runs[t].job \in Jobs
  BY RunFacts DEF AcknowledgeCancel, Free, Base, TypeOK
<1>2. PICK settled, req :
        /\ \/ settled = request
           \/ CancelSettles(runs[t].job) /\ settled = SettleCancelled(runs[t].job)
        /\ req \in {settled, ReleaseOwner(t, settled)}
        /\ \E row : FinalWrite(t, ACTIVE_STATUSES, row, req)
  BY DEF AcknowledgeCancel
<1>3. CASE CancelSettles(runs[t].job)
  BY <1>1, <1>2, <1>3, FinalChanges DEF CancelSettles, InFlight
<1>4. CASE ~CancelSettles(runs[t].job)
  <2>1. req \in {request, ReleaseOwner(t, request)}
    BY <1>2, <1>4
  <2>2. ASSUME req # request
        PROVE  IsMe(t) /\ req.status = request.status
    BY <1>1, <2>1, <2>2, ReleaseOwnerIs DEF ReleaseOwner, IsMe
  <2>3. QED
    BY <1>1, <1>2, <2>2, MineIsInFence, FinalChanges
<1>5. QED
  BY <1>3, <1>4

LEMMA ClaimScoutChanges == ASSUME Base, NEW t \in Threads, ClaimScout(t) PROVE RequestStep
<1>1. CASE request' = request
  BY <1>1 DEF RequestStep
<1>2. CASE request' # request
  <2>1. /\ runs' = [runs EXCEPT ![t].pc = "work", ![t].pre = request.status]
        /\ request.status # "paused" /\ ~Fenced(runs[t].job) /\ ~OwnerValid /\ Holds(t)
    BY <1>2, ClaimScoutDoes
  <2>2. runs[t].pc = "claim"
    BY DEF ClaimScout
  <2>3. runs[t] # Free /\ runs[t] \in Run
    BY <2>2 DEF Free, Base, TypeOK
  <2>4. runs'[t].pc = "work" /\ \A u \in Threads \ {t} : runs'[u] = runs[u]
    BY <2>1, <2>3 DEF Base, TypeOK, Run
  <2>5. QED
    BY <2>1, <2>2, <2>3, <2>4 DEF RequestStep, ByAttempt
<1>3. QED
  BY <1>1, <1>2

LEMMA RollbackChanges == ASSUME Base, NEW t \in Threads, Rollback(t) PROVE RequestStep
<1>1. CASE request' = request
  BY <1>1 DEF RequestStep
<1>2. CASE request' # request
  <2>1. runs[t].pc = "rollback" /\ runs[t] # Free /\ runs[t] \in Run
    BY DEF Rollback, Free, Base, TypeOK
  <2>2. /\ IsMe(t) /\ Holds(t)
        /\ request'.status = request.status \/ request.status = "running"
    BY <1>2, RollbackDoes DEF Restores, HoldsJob
  <2>3. runs'[t].pc = "fail" /\ \A u \in Threads \ {t} : runs'[u] = runs[u]
    BY <2>1 DEF Rollback, To, Base, TypeOK, Run
  <2>4. ~Fenced(runs[t].job)
    BY <2>1, <2>2, MineIsInFence
  <2>5. QED
    BY <2>1, <2>2, <2>3, <2>4 DEF RequestStep, ByAttempt
<1>3. QED
  BY <1>1, <1>2

LEMMA AttemptChanges == ASSUME Base, NEW t \in Threads, Attempt(t) PROVE RequestStep
<1>1. CASE MarkRunning(t) \/ Start(t) \/ Admission(t) \/ Raise(t)
  BY <1>1 DEF MarkRunning, Start, Admission, Raise, RequestStep
<1>2. QED
  BY <1>1, ClaimScoutChanges, FinishChanges, RollbackChanges, FailChanges, StopChanges,
     AcknowledgeCancelChanges DEF Attempt

LEMMA NextChanges == Base /\ [Next]_vars => RequestStep
<1> SUFFICES ASSUME Base, [Next]_vars PROVE RequestStep
  OBVIOUS
<1>1. CASE Pause \/ TickRead \/ TickWrite \/ Recover \/ UNCHANGED vars
  BY <1>1, PauseChanges, RecoverChanges DEF TickRead, TickWrite, vars, RequestStep
<1>2. ASSUME NEW j \in Jobs, Cancel(j) \/ LeaseLapses(j) PROVE RequestStep
  BY <1>2, CancelChanges DEF LeaseLapses, RequestStep
<1>3. ASSUME NEW t \in Threads, ClaimJob(t) \/ Attempt(t) \/ Heartbeat(t) \/ Crash(t)
      PROVE  RequestStep
  BY <1>3, AttemptChanges DEF ClaimJob, Heartbeat, Crash, RequestStep
<1>4. QED
  BY <1>1, <1>2, <1>3, EditChanges DEF Next

\* A paused Scout stays paused until somebody resumes it (pause_scout_request and every
\* guarded writer of admission.py and handlers.py), with any number of stale runs.
THEOREM PausesHold == Spec => PauseHolds
<1>1. Base /\ [Next]_vars
        => [request.status = "paused" /\ request'.status # "paused"
             => \E e \in Editors : editors[e].pc = "resume" /\ editors'[e] = Idle]_vars
  BY NextChanges DEF RequestStep, ByPause, ByEditor, ByHook, ByAttempt, InFlight, Settled
<1>2. QED
  BY <1>1, Invariance, PTL DEF Spec, PauseHolds

\* A run enqueued before a pause changes nothing of the Scout after a resume.
THEOREM OldRunsAreInert == Spec => OldRunsChangeNothing
<1>1. Base /\ [Next]_vars
        => [\A t \in Threads :
             runs[t] # Free /\ runs'[t] # runs[t] /\ request' # request
               => jobs[runs[t].job].fence = request.fence]_vars
  BY NextChanges DEF RequestStep, ByPause, ByEditor, ByHook, ByAttempt, Fenced
<1>2. QED
  BY <1>1, Invariance, PTL DEF Spec, OldRunsChangeNothing

\* Nothing but a pause or the owner's own attempt takes the Scout from an owner that
\* holds its job under a live lease (_owner_valid and every writer that clears the owner).
THEOREM OwnersKeepTheirScout == Spec => ValidOwnerKeepsScout
<1>1. Base /\ [Next]_vars
        => [OwnerValid /\ request'.owner # request.owner
             => \/ request'.fence > request.fence
                \/ \E t \in Threads : IsMe(t) /\ runs'[t] # runs[t]]_vars
  <2> SUFFICES ASSUME Base, [Next]_vars, OwnerValid, request'.owner # request.owner
               PROVE  \/ request'.fence > request.fence
                      \/ \E t \in Threads : IsMe(t) /\ runs'[t] # runs[t]
    OBVIOUS
  <2>1. request.fence \in Nat /\ request.owner \in Owner
    BY DEF Base, TypeOK, Request
  <2>2. /\ request.owner # NoOwner /\ request.owner.job \in Jobs
        /\ jobs[request.owner.job].status \in {"claimed", "running"}
        /\ jobs[request.owner.job].token = request.owner.token
        /\ jobs[request.owner.job].lease = "live"
    BY OwnerFacts DEF Base, OwnerValid
  <2>3. ASSUME NEW j \in Jobs, OwnedBy(j) PROVE request.owner.job = j
    BY <2>2, <2>3, JobAssumption DEF OwnedBy
  <2>4. CASE ByPause
    BY <2>1, <2>4 DEF ByPause
  <2>5. CASE ByHook
    BY <2>2, <2>3, <2>5 DEF ByHook, ENQUEUED_STATUSES
  <2>6. ASSUME NEW t \in Threads, runs[t] # Free, Holds(t), OwnedBy(runs[t].job)
        PROVE  IsMe(t)
    <3>1. runs[t].job \in Jobs /\ request.owner.job = runs[t].job
      BY <2>3, <2>6, RunFacts DEF Base
    <3>2. request.owner.token = runs[t].token
      BY <2>2, <2>6, <3>1 DEF Holds
    <3>3. request.owner \in [job: Jobs, token: Nat \ {0}]
      BY <2>1, <2>2 DEF Owner
    <3>4. QED
      BY <3>1, <3>2, <3>3 DEF IsMe, Me
  <2>7. CASE ByAttempt
    BY <2>6, <2>7 DEF ByAttempt
  <2>8. QED
    BY <2>4, <2>5, <2>7, NextChanges DEF RequestStep, ByEditor
<1>2. QED
  BY <1>1, Invariance, PTL DEF Spec, ValidOwnerKeepsScout

-----------------------------------------------------------------------------
(***************************************************************************)
(* What drives a Scout that is in flight.                                  *)
(***************************************************************************)

\* What StrandedOnlyByStops excuses.
Excused == \/ overwritten
           \/ \E j \in Jobs : /\ ~Fenced(j)
                              /\ jobs[j].status = "cancelled" \/ jobs[j].outcome = "lease_lost"

\* An attempt that has taken the Scout, or has given it up without losing its job.
Spent(x) == x.pc = "work" \/ (x.pc = "stop" /\ x.outcome \in {"skipped", "stopped"})

\* A job of the Scout's fence whose holder, if it has one, has not claimed the Scout yet,
\* or will record a failure.
Fresh(j) ==
    /\ Live(j) /\ ~Fenced(j)
    /\ \A t \in Threads :
          runs[t] # Free /\ runs[t].job = j /\ Holds(t) => ~Spent(runs[t])

\* Where the owner is the holder's job, a holder that works is the owner, and none has
\* given the Scout up.
Away(t) ==
    runs[t] # Free /\ Holds(t) /\ request.owner.job = runs[t].job
      => /\ runs[t].pc = "work" => IsMe(t)
         /\ runs[t].pc = "stop" /\ runs[t].outcome \in {"skipped", "stopped"}
              => Fenced(runs[t].job) \/ overwritten

OwnerDrives ==
    request.owner # NoOwner => /\ Excused \/ Live(request.owner.job)
                               /\ overwritten \/ request.status = "running"

Driven == request.status \in InFlight /\ ~Excused
            => request.owner # NoOwner \/ \E j \in Jobs : Fresh(j)

Drive == OwnerDrives /\ (\A t \in Threads : Away(t)) /\ Driven

LEMMA ExcusedStays ==
    ASSUME Base, Moves, request'.fence = request.fence, overwritten => overwritten', Excused
    PROVE  Excused'
<1>1. CASE overwritten
  BY <1>1 DEF Excused
<1>2. CASE ~overwritten
  <2>1. PICK j \in Jobs :
          ~Fenced(j) /\ (jobs[j].status = "cancelled" \/ jobs[j].outcome = "lease_lost")
    BY <1>2 DEF Excused
  <2>2. jobs[j].status \in TERMINAL_STATUSES /\ jobs[j].status # "absent"
    BY <2>1 DEF Base, RowSound, TERMINAL_STATUSES
  <2>3. /\ jobs'[j].status = jobs[j].status /\ jobs'[j].outcome = jobs[j].outcome
        /\ jobs'[j].fence = jobs[j].fence
    BY <2>2 DEF Moves, RowStep
  <2>4. QED
    BY <2>1, <2>3 DEF Excused, Fenced
<1>3. QED
  BY <1>1, <1>2

\* An attempt that does not hold its job never holds it again.
LEMMA HoldsBefore ==
    ASSUME Base, Moves, NEW t \in Threads, runs[t] # Free, runs'[t] # Free,
           runs'[t].job = runs[t].job, runs'[t].token = runs[t].token, Holds(t)'
    PROVE  Holds(t)
<1>1. /\ runs[t].job \in Jobs /\ runs[t].token \in Nat \ {0}
      /\ jobs[runs[t].job] \in Row /\ RowStep(runs[t].job)
      /\ runs[t].token <= jobs[runs[t].job].claims
  BY RunFacts DEF Base, TypeOK, Moves, RunSound
<1>2. jobs'[runs[t].job].token = runs[t].token
  BY DEF Holds
<1>3. jobs[runs[t].job].claims \in Nat
  BY <1>1 DEF Row
<1>4. QED
  BY <1>1, <1>2, <1>3 DEF RowStep, Holds

\* Of one job there is one holder.
LEMMA OneHolder ==
    ASSUME Base, NEW t \in Threads, NEW u \in Threads, runs[t] # Free, runs[u] # Free,
           runs[t].job = runs[u].job, Holds(t), Holds(u)
    PROVE  t = u
BY DEF Base, CredentialsDiffer, Holds

\* An attempt that stays as it was leaves a fresh job fresh.
LEMMA FreshStays ==
    ASSUME Base, Moves, NEW j \in Jobs, Fresh(j), Live(j)', request'.fence = request.fence,
           \A t \in Threads : runs'[t] \in {runs[t], Free} \/ ~Spent(runs'[t])
                              \/ runs'[t].job # j
    PROVE  Fresh(j)'
<1>1. ~Fenced(j)'
  BY DEF Fresh, Live, LIVE_JOB_STATUSES, ENQUEUED_STATUSES, ACTIVE_STATUSES, Fenced, Moves,
         RowStep
<1>2. ASSUME NEW t \in Threads, runs'[t] # Free, runs'[t].job = j, Holds(t)'
      PROVE  ~Spent(runs'[t])
  <2>1. CASE runs'[t] = runs[t]
    <3>1. Holds(t)
      BY <1>2, <2>1, HoldsBefore
    <3>2. QED
      BY <1>2, <2>1, <3>1 DEF Fresh
  <2>2. QED
    BY <1>2, <2>1
<1>3. QED
  BY <1>1, <1>2 DEF Fresh

\* The owner is another job, and the Scout does not rest on this one.
Spares(j) == /\ request.owner.job # j
             /\ Fresh(j) /\ request.status \in InFlight => request.owner # NoOwner

\* A step that leaves the Scout's row alone.
LEMMA QuietDrive ==
    ASSUME Base, Moves, Drive, request' = request, overwritten' = overwritten,
           \A j \in Jobs : Live(j) /\ ~Fenced(j) => Live(j)' \/ Excused' \/ Spares(j),
           \A t \in Threads :
              \/ runs'[t] \in {runs[t], Free} \/ ~Spent(runs'[t])
              \/ /\ Away(t)' /\ runs[t] # Free /\ runs'[t].job = runs[t].job
                 /\ Fresh(runs[t].job) /\ request.status \in InFlight
                      => request.owner # NoOwner
    PROVE  Drive'
<1>1. Excused => Excused'
  BY ExcusedStays
<1>2. OwnerDrives'
  <2> SUFFICES ASSUME request.owner # NoOwner
               PROVE  /\ Excused' \/ Live(request.owner.job)'
                      /\ overwritten \/ request.status = "running"
    BY DEF OwnerDrives
  <2>1. /\ request.owner.job \in Jobs /\ ~Fenced(request.owner.job)
    BY OwnerFacts DEF Base, OwnerInFence
  <2>2. /\ Excused \/ Live(request.owner.job)
        /\ overwritten \/ request.status = "running"
    BY DEF Drive, OwnerDrives
  <2>3. QED
    BY <1>1, <2>1, <2>2 DEF Spares
<1>3. ASSUME NEW t \in Threads PROVE Away(t)'
  <2>1. CASE runs'[t] = Free \/ ~Spent(runs'[t])
    BY <2>1 DEF Away, Spent
  <2>2. CASE runs'[t] = runs[t] /\ runs[t] # Free
    <3> SUFFICES ASSUME Holds(t)', request.owner.job = runs[t].job
                 PROVE  /\ runs[t].pc = "work" => IsMe(t)'
                        /\ runs[t].pc = "stop" /\ runs[t].outcome \in {"skipped", "stopped"}
                             => Fenced(runs[t].job)' \/ overwritten
      BY <2>2 DEF Away, Fenced
    <3>1. Holds(t)
      BY <2>2, HoldsBefore
    <3>2. IsMe(t)' <=> IsMe(t)
      BY <2>2 DEF IsMe, Me
    <3>3. Fenced(runs[t].job) => Fenced(runs[t].job)'
      <4>1. runs[t].job \in Jobs /\ jobs[runs[t].job].status # "absent"
        BY <2>2, RunFacts DEF Base, RunSound
      <4>2. QED
        BY <2>2, <4>1 DEF Moves, RowStep, Fenced
    <3>4. QED
      BY <2>2, <3>1, <3>2, <3>3 DEF Drive, Away
  <2>3. QED
    BY <2>1, <2>2
<1>4. Driven'
  <2> SUFFICES ASSUME request.status \in InFlight, ~Excused', request.owner = NoOwner
               PROVE  \E j \in Jobs : Fresh(j)'
    BY DEF Driven
  <2>1. PICK j \in Jobs : Fresh(j)
    BY <1>1 DEF Drive, Driven
  <2>2. Live(j)'
    BY <2>1 DEF Fresh, Spares
  <2>3. \A t \in Threads : runs'[t] \in {runs[t], Free} \/ ~Spent(runs'[t])
                           \/ runs'[t].job # j
    BY <2>1
  <2>4. QED
    BY <2>1, <2>2, <2>3, FreshStays
<1>5. QED
  BY <1>2, <1>3, <1>4 DEF Drive

\* A step after which the Scout has no owner.
LEMMA OwnerlessDrive ==
    ASSUME Base, Moves, request'.owner = NoOwner,
           request'.status \notin InFlight \/ Excused' \/ \E j \in Jobs : Fresh(j)'
    PROVE  Drive'
<1>1. OwnerDrives' /\ Driven'
  BY DEF OwnerDrives, Driven
<1>2. ASSUME NEW t \in Threads PROVE Away(t)'
  <2>1. runs'[t] # Free => runs'[t].job \in Jobs
    BY DEF Moves, TypeOK, Run
  <2>2. request'.owner.job = NoJob
    BY NoOwnerType
  <2>3. QED
    BY <2>1, <2>2, JobAssumption DEF Away
<1>3. QED
  BY <1>1, <1>2 DEF Drive

-----------------------------------------------------------------------------
(***************************************************************************)
(* Each action keeps what drives the Scout.                                *)
(***************************************************************************)

LEMMA PauseDrive == ASSUME Base, Moves, Pause PROVE Drive'
BY OwnerlessDrive DEF Pause, InFlight

\* The Scout's row, the rows' liveness and the attempts stay.
LEMMA IdleDrive ==
    ASSUME Base, Moves, Drive, request' = request, overwritten' = overwritten,
           \A t \in Threads : runs'[t] \in {runs[t], Free} \/ ~Spent(runs'[t]),
           \A j \in Jobs : Live(j) => Live(j)'
    PROVE  Drive'
BY QuietDrive

LEMMA ReadsDrive ==
    ASSUME Base, Moves, Drive, TickRead \/ \E e \in Editors : ResumeRead(e) \/ RunRead(e)
    PROVE  Drive'
<1>1. /\ request' = request /\ overwritten' = overwritten /\ runs' = runs /\ jobs' = jobs
  BY DEF TickRead, ResumeRead, RunRead
<1>2. \A j \in Jobs : Live(j) => Live(j)'
  BY <1>1 DEF Live
<1>3. QED
  BY <1>1, <1>2, IdleDrive

LEMMA StutterDrive == ASSUME Base, Moves, Drive, UNCHANGED vars PROVE Drive'
<1>1. /\ request' = request /\ overwritten' = overwritten /\ runs' = runs /\ jobs' = jobs
  BY DEF vars
<1>2. \A j \in Jobs : Live(j) => Live(j)'
  BY <1>1 DEF Live
<1>3. QED
  BY <1>1, <1>2, IdleDrive

LEMMA ResumeWriteDrive ==
    ASSUME Base, Moves, Drive, NEW e \in Editors, ResumeWrite(e) PROVE Drive'
<1>1. /\ request'.status = "draft" /\ request'.owner = request.owner
      /\ request'.fence = request.fence /\ jobs' = jobs /\ runs' = runs
      /\ overwritten => overwritten'
      /\ request.status # "paused" => overwritten'
  BY DEF ResumeWrite, Base, TypeOK, Request
<1>2. Excused => Excused'
  BY <1>1, ExcusedStays
<1>3. OwnerDrives'
  <2>1. request.status = "running" => overwritten'
    BY <1>1
  <2>2. QED
    BY <1>1, <1>2, <2>1 DEF Drive, OwnerDrives, Live
<1>4. \A t \in Threads : Away(t)'
  BY <1>1 DEF Drive, Away, Holds, IsMe, Me, Fenced
<1>5. Driven'
  BY <1>1 DEF Driven, InFlight
<1>6. QED
  BY <1>3, <1>4, <1>5 DEF Drive

LEMMA RunWriteDrive ==
    ASSUME Base, Moves, Drive, NEW e \in Editors, RunWrite(e) PROVE Drive'
<1>1. runs' = runs /\ overwritten' = overwritten
  BY DEF RunWrite
<1>2. CASE request' = request /\ jobs' = jobs
  <2>1. \A j \in Jobs : Live(j) => Live(j)'
    BY <1>2 DEF Live
  <2>2. QED
    BY <1>1, <1>2, <2>1, IdleDrive
<1>3. CASE ~(request' = request /\ jobs' = jobs)
  <2>1. PICK j \in Jobs : /\ jobs[j].status = "absent"
                          /\ jobs' = EnqueuedRow(j, request.fence, editors[e].seen)
    BY <1>3 DEF RunWrite
  <2>2. request.status = editors[e].seen /\ editors[e].pc = "run"
    BY <1>3 DEF RunWrite, StillAsRead
  <2>3. editors[e].seen \in Settled \cup {"none"} /\ request.fence \in Nat
    BY <2>2 DEF Base, EditorsSaw, TypeOK, Request
  <2>14. /\ j \in Jobs /\ jobs[j].status = "absent"
         /\ jobs' = EnqueuedRow(j, request.fence, editors[e].seen)
    BY <2>1
  <2>4. PICK row \in Row : /\ jobs' = [jobs EXCEPT ![j] = row]
                           /\ row.status = "pending" /\ row.token = 0
                           /\ row.fence = request.fence
    <3>1. PICK f \in Nat, p \in Settled \cup {"none"} : f = request.fence /\ p = editors[e].seen
      BY <2>3
    <3>2. jobs' = EnqueuedRow(j, f, p)
      BY <2>14, <3>1
    <3>3. \E row \in Row : /\ jobs' = [jobs EXCEPT ![j] = row] /\ RowMove(jobs[j], row)
                           /\ row.status = "pending" /\ row.token = 0 /\ row.fence = f
                           /\ row.attempt = jobs[j].attempt
      BY <2>14, <3>2, EnqueuedRowIs
    <3>4. QED
      BY <3>1, <3>3
  <2>5. jobs'[j] = row /\ \A k \in Jobs \ {j} : jobs'[k] = jobs[k]
    BY <2>4 DEF Base, TypeOK
  <2>6. request' = [request EXCEPT !.status = "queued"]
    BY <1>3 DEF RunWrite
  <2>7. /\ request'.owner = request.owner /\ request'.fence = request.fence
        /\ request.status \in Settled
    BY <2>2, <2>6 DEF Base, EditorsSaw, TypeOK, Request
  <2>8. \A k \in Jobs : Live(k) => Live(k)'
    BY <2>1, <2>4, <2>5 DEF Live, LIVE_JOB_STATUSES, ENQUEUED_STATUSES, ACTIVE_STATUSES
  <2>9. Excused => Excused'
    BY <1>1, <2>7, ExcusedStays
  <2>10. OwnerDrives'
    BY <1>1, <2>7, <2>8, <2>9, OwnerFacts DEF Base, Drive, OwnerDrives, Settled
  <2>11. ASSUME NEW t \in Threads PROVE Away(t)'
    <3>1. CASE runs[t] = Free
      BY <1>1, <3>1 DEF Away
    <3>2. CASE runs[t] # Free
      <4>1. Holds(t)' => Holds(t)
        BY <1>1, <3>2, HoldsBefore
      <4>2. runs[t].job # j
        BY <2>1, <3>2 DEF Base, RunSound
      <4>3. runs[t].job \in Jobs
        BY <3>2, RunFacts DEF Base
      <4>4. QED
        BY <1>1, <2>5, <2>7, <4>1, <4>2, <4>3 DEF Drive, Away, IsMe, Me, Fenced
    <3>3. QED
      BY <3>1, <3>2
  <2>12. Fresh(j)'
    <3>1. Live(j)' /\ ~Fenced(j)'
      BY <2>4, <2>5, <2>7 DEF Live, LIVE_JOB_STATUSES, ENQUEUED_STATUSES, Fenced
    <3>2. \A t \in Threads : runs[t] # Free => runs[t].job # j
      BY <2>1 DEF Base, RunSound
    <3>3. QED
      BY <1>1, <3>1, <3>2 DEF Fresh
  <2>13. QED
    BY <2>10, <2>11, <2>12 DEF Drive, Driven
<1>4. QED
  BY <1>2, <1>3

LEMMA TickWriteDrive == ASSUME Base, Moves, Drive, TickWrite PROVE Drive'
<1>1. request' = request /\ overwritten' = overwritten /\ runs' = runs
  BY DEF TickWrite
<1>2. PICK j \in Jobs : /\ jobs[j].status = "absent"
                        /\ jobs' = EnqueuedRow(j, tick.fence, "none")
  BY DEF TickWrite
<1>3. \A k \in Jobs : Live(k) => Live(k)'
  BY <1>2 DEF Live, LIVE_JOB_STATUSES, ENQUEUED_STATUSES, ACTIVE_STATUSES, EnqueuedRow,
              Base, TypeOK
<1>4. QED
  BY <1>1, <1>3, IdleDrive

LEMMA CancelDrive == ASSUME Base, Moves, Drive, NEW j \in Jobs, Cancel(j) PROVE Drive'
<1>1. runs' = runs /\ overwritten' = overwritten
  BY DEF Cancel
<1>2. PICK row \in Row :
        /\ jobs' = [jobs EXCEPT ![j] = row] /\ row.fence = jobs[j].fence
        /\ \/ /\ row.status = "cancelled"
              /\ request' = IF CancelSettles(j) THEN SettleCancelled(j) ELSE request
           \/ row.status = "cancel_requested" /\ request' = request
  BY CancelDoes
<1>3. jobs'[j] = row /\ \A k \in Jobs \ {j} : jobs'[k] = jobs[k]
  BY <1>2 DEF Base, TypeOK
<1>4. CASE request' = request
  <2>1. ASSUME NEW k \in Jobs, Live(k), ~Fenced(k) PROVE Live(k)' \/ Excused'
    BY <1>2, <1>3, <1>4, <2>1
       DEF Live, LIVE_JOB_STATUSES, ACTIVE_STATUSES, Excused, Fenced
  <2>2. QED
    BY <1>1, <1>4, <2>1, QuietDrive
<1>5. CASE request' = SettleCancelled(j)
  BY <1>5, OwnerlessDrive, SettleCancelledIs DEF Base, InFlight, Settled
<1>6. QED
  BY <1>2, <1>4, <1>5

LEMMA ClaimJobDrive ==
    ASSUME Base, Moves, Drive, NEW t \in Threads, ClaimJob(t) PROVE Drive'
<1>1. PICK j \in Jobs, row \in Row, x \in Run :
        /\ jobs' = [jobs EXCEPT ![j] = row] /\ row.status = "claimed"
        /\ runs' = [runs EXCEPT ![t] = x] /\ x.pc = "mark"
  BY ClaimJobDoes
<1>2. request' = request /\ overwritten' = overwritten
  BY DEF ClaimJob
<1>3. \A k \in Jobs : Live(k) => Live(k)'
  BY <1>1 DEF Live, LIVE_JOB_STATUSES, ACTIVE_STATUSES, Base, TypeOK
<1>4. \A u \in Threads : runs'[u] \in {runs[u], Free} \/ ~Spent(runs'[u])
  BY <1>1 DEF Spent, Base, TypeOK
<1>5. QED
  BY <1>2, <1>3, <1>4, IdleDrive

\* What a final failure's hook does not settle, another job owns.
LEMMA Unsettled ==
    ASSUME Base, Drive, NEW j \in Jobs, ~Fenced(j), ~FailureSettles(j, request)
    PROVE  Excused \/ Spares(j)
<1>1. CASE request.status \in InFlight
  <2>1. request.owner.job # j /\ request.owner # NoOwner
    BY <1>1, NoOwnerType DEF FailureSettles
  <2>2. QED
    BY <2>1 DEF Spares
<1>2. CASE request.status \notin InFlight
  <2>1. request.owner # NoOwner => overwritten
    BY <1>2 DEF Drive, OwnerDrives, InFlight
  <2>2. request.owner = NoOwner => request.owner.job # j
    BY NoOwnerType, JobAssumption
  <2>3. QED
    BY <1>2, <2>1, <2>2 DEF Spares, Excused
<1>3. QED
  BY <1>1, <1>2

LEMMA RecoverDrive == ASSUME Base, Moves, Drive, Recover PROVE Drive'
<1>1. runs' = runs /\ overwritten' = overwritten /\ request \in Request
  BY DEF Recover, Base, TypeOK
<1>2. CASE \E j \in Jobs : DeadLetters(j) /\ FailureSettles(j, request)
  <2>1. request' = SettleFailed(request)
    BY <1>2 DEF Recover
  <2>2. QED
    BY <1>1, <2>1, OwnerlessDrive, SettleFailedIs DEF InFlight
<1>3. CASE ~\E j \in Jobs : DeadLetters(j) /\ FailureSettles(j, request)
  <2>1. request' = request
    BY <1>3 DEF Recover
  <2>2. Excused => Excused'
    BY <1>1, <2>1, ExcusedStays
  <2>3. ASSUME NEW j \in Jobs, Live(j), ~Fenced(j) PROVE Live(j)' \/ Excused' \/ Spares(j)
    <3>1. CASE DeadLetters(j)
      BY <1>3, <2>2, <2>3, <3>1, Unsettled
    <3>2. CASE ~DeadLetters(j)
      BY <2>3, <3>2, RecoverDoes DEF Live, LIVE_JOB_STATUSES, ENQUEUED_STATUSES
    <3>3. QED
      BY <3>1, <3>2
  <2>4. QED
    BY <1>1, <2>1, <2>3, QuietDrive
<1>4. QED
  BY <1>2, <1>3

LEMMA LeaseDrive ==
    ASSUME Base, Moves, Drive,
           \/ \E j \in Jobs : LeaseLapses(j)
           \/ \E t \in Threads : Heartbeat(t)
    PROVE  Drive'
<1>1. request' = request /\ overwritten' = overwritten /\ runs' = runs
  BY DEF LeaseLapses, Heartbeat
<1>2. PICK j \in Jobs, l \in {"live", "lapsed"} : jobs' = [jobs EXCEPT ![j].lease = l]
  <2>1. ASSUME NEW t \in Threads, Heartbeat(t) PROVE runs[t].job \in Jobs
    BY <2>1, RunFacts DEF Heartbeat, Beating, Base
  <2>2. QED
    BY <2>1 DEF LeaseLapses, Heartbeat
<1>3. \A k \in Jobs : Live(k) => Live(k)'
  BY <1>2, LeaseDoes DEF Live
<1>4. QED
  BY <1>1, <1>3, IdleDrive

LEMMA CrashDrive == ASSUME Base, Moves, Drive, NEW t \in Threads, Crash(t) PROVE Drive'
<1>1. request' = request /\ overwritten' = overwritten /\ jobs' = jobs
  BY DEF Crash
<1>2. \A u \in Threads : runs'[u] \in {runs[u], Free}
  BY DEF Crash, Base, TypeOK
<1>3. \A k \in Jobs : Live(k) => Live(k)'
  BY <1>1 DEF Live
<1>4. QED
  BY <1>1, <1>2, <1>3, IdleDrive

LEMMA MarkRunningDrive ==
    ASSUME Base, Moves, Drive, NEW t \in Threads, MarkRunning(t) PROVE Drive'
<1>1. request' = request /\ overwritten' = overwritten /\ runs[t].pc = "mark"
  BY DEF MarkRunning
<1>2. runs[t] # Free /\ runs[t] \in Run /\ runs[t].job \in Jobs
  BY <1>1, RunFacts DEF Free, Base, TypeOK
<1>3. \A u \in Threads : runs'[u] \in {runs[u], Free} \/ ~Spent(runs'[u])
  BY <1>2 DEF MarkRunning, To, Ends, Spent, Base, TypeOK, Run
<1>4. \A k \in Jobs : Live(k) => Live(k)'
  <2>1. CASE jobs' = jobs
    BY <2>1 DEF Live
  <2>2. CASE jobs' # jobs
    <3>1. jobs' = [jobs EXCEPT ![runs[t].job] =
                      [@ EXCEPT !.status = "running", !.attempt = jobs[runs[t].job].attempt + 1]]
      BY <2>2 DEF MarkRunning
    <3>2. \A k \in Jobs : jobs'[k].status \in {jobs[k].status, "running"}
      BY <1>2, <3>1 DEF Base, TypeOK, Row
    <3>3. "running" \in LIVE_JOB_STATUSES
      BY DEF LIVE_JOB_STATUSES, ACTIVE_STATUSES
    <3>4. QED
      BY <3>2, <3>3 DEF Live
  <2>3. QED
    BY <2>1, <2>2
<1>5. QED
  BY <1>1, <1>3, <1>4, IdleDrive

\* An attempt goes on to a point where it is not spent, and writes nothing.
LEMMA GoesOnDrive ==
    ASSUME Base, Moves, Drive, NEW t \in Threads, NEW x \in Run, GoesOn(t, x), ~Spent(x),
           request' = request, overwritten' = overwritten, jobs' = jobs
    PROVE  Drive'
<1>1. \A u \in Threads : runs'[u] \in {runs[u], Free} \/ ~Spent(runs'[u])
  BY DEF GoesOn, Base, TypeOK
<1>2. \A k \in Jobs : Live(k) => Live(k)'
  BY DEF Live
<1>3. QED
  BY <1>1, <1>2, IdleDrive

LEMMA StartDrive ==
    ASSUME Base, Moves, Drive, NEW t \in Threads, Start(t) PROVE Drive'
<1>1. TypeOK /\ runs[t] # Free
  BY DEF Base, Start, Free
<1>2. PICK pc \in {"cancel", "claim"} : To(t, pc)
  BY DEF Start
<1>3. PICK x \in Run : GoesOn(t, x) /\ x.pc = pc
  BY <1>1, <1>2, ToIs DEF Pcs
<1>4. ~Spent(x)
  BY <1>3 DEF Spent
<1>5. request' = request /\ overwritten' = overwritten /\ jobs' = jobs
  BY DEF Start
<1>6. QED
  BY <1>3, <1>4, <1>5, GoesOnDrive

LEMMA RaiseDrive ==
    ASSUME Base, Moves, Drive, NEW t \in Threads, Raise(t) PROVE Drive'
<1>1. TypeOK /\ runs[t] # Free
  BY DEF Base, Raise, Free
<1>2. PICK e \in {"retryable", "fatal", "unresolved", "refused"} : Errs(t, "rollback", e)
  BY DEF Raise, Errs
<1>3. PICK x \in Run : GoesOn(t, x) /\ x.pc = "rollback"
  BY <1>1, <1>2, ErrsIs DEF Errors
<1>4. ~Spent(x)
  BY <1>3 DEF Spent
<1>5. request' = request /\ overwritten' = overwritten /\ jobs' = jobs
  BY DEF Raise
<1>6. QED
  BY <1>3, <1>4, <1>5, GoesOnDrive

\* An attempt gives the Scout up.
LEMMA GivesUpDrive ==
    ASSUME Base, Moves, Drive, NEW t \in Threads, runs[t] # Free, NEW x \in Run,
           GoesOn(t, x), x.pc = "stop", request' = request, overwritten' = overwritten,
           \A k \in Jobs : Live(k) => Live(k)',
           Holds(t) /\ request.owner.job = runs[t].job => Fenced(runs[t].job) \/ overwritten,
           Fresh(runs[t].job) /\ request.status \in InFlight => request.owner # NoOwner
    PROVE  Drive'
<1>1. runs'[t] = x /\ (\A u \in Threads \ {t} : runs'[u] = runs[u]) /\ x # Free
  BY DEF GoesOn, Base, TypeOK, Run, Free
<1>2. /\ runs[t].job \in Jobs /\ jobs[runs[t].job].status # "absent"
      /\ x.job = runs[t].job /\ x.token = runs[t].token
  BY RunFacts DEF Base, RunSound, GoesOn
<1>3. jobs'[runs[t].job].fence = jobs[runs[t].job].fence
  BY <1>2 DEF Moves, RowStep
<1>4. Holds(t)' => Holds(t)
  BY <1>1, <1>2, HoldsBefore
<1>5. Away(t)'
  BY <1>1, <1>2, <1>3, <1>4 DEF Away, Fenced
<1>6. QED
  BY <1>1, <1>2, <1>5, QuietDrive

\* An attempt that is yet to claim the Scout is not its owner, under any credential it holds.
LEMMA EarlyIsNotOwner ==
    ASSUME Base, NEW t \in Threads, runs[t] # Free, runs[t].pc \in Early, Holds(t), OwnerValid
    PROVE  request.owner.job # runs[t].job
<1>1. request.owner # Me(t) /\ request.owner # NoOwner
  BY DEF Base, RunSound, OwnerValid
<1>2. request.owner \in [job: Jobs, token: Nat \ {0}]
  BY <1>1 DEF Base, TypeOK, Request, Owner
<1>3. QED
  BY <1>1, <1>2 DEF OwnerValid, Holds, Me

LEMMA ClaimScoutDrive ==
    ASSUME Base, Moves, Drive, NEW t \in Threads, ClaimScout(t) PROVE Drive'
<1>1. runs[t].pc = "claim" /\ overwritten' = overwritten
  BY DEF ClaimScout
<1>2. TypeOK /\ runs[t] # Free /\ runs[t].pc \in Early /\ runs[t] \in Run
  BY <1>1 DEF Base, TypeOK, Free, Early
<1>3. runs[t].job \in Jobs
  BY <1>2, RunFacts
<1>4. \A k \in Jobs : Live(k) => Live(k)'
  BY ClaimScoutRows DEF Live
<1>5. CASE request' = request /\ StopsWith(t, "lease_lost")
  <2>1. PICK x \in Run : GoesOn(t, x) /\ x.pc = "stop" /\ x.outcome = "lease_lost"
    BY <1>2, <1>5, StopsWithIs DEF StopOutcomes
  <2>2. \A u \in Threads : runs'[u] \in {runs[u], Free} \/ ~Spent(runs'[u])
    BY <2>1 DEF GoesOn, Spent, Base, TypeOK
  <2>3. QED
    BY <1>1, <1>4, <1>5, <2>2, IdleDrive
<1>6. CASE /\ request' = request /\ StopsWith(t, "skipped")
           /\ \/ request.status = "paused" \/ Fenced(runs[t].job)
              \/ OwnerValid /\ Holds(t)
  <2>1. PICK x \in Run : GoesOn(t, x) /\ x.pc = "stop"
    BY <1>2, <1>6, StopsWithIs DEF StopOutcomes
  <2>2. \/ request.status = "paused" \/ Fenced(runs[t].job)
        \/ OwnerValid /\ Holds(t)
    BY <1>6
  <2>3. Holds(t) /\ request.owner.job = runs[t].job => Fenced(runs[t].job) \/ overwritten
    <3>1. CASE request.status = "paused"
      <4>1. request.owner # NoOwner => overwritten
        BY <3>1 DEF Drive, OwnerDrives
      <4>2. QED
        BY <1>3, <4>1, NoOwnerType, JobAssumption
    <3>2. CASE OwnerValid /\ Holds(t)
      BY <1>2, <3>2, EarlyIsNotOwner
    <3>3. QED
      BY <2>2, <3>1, <3>2
  <2>4. Fresh(runs[t].job) /\ request.status \in InFlight => request.owner # NoOwner
    BY <2>2 DEF Fresh, InFlight, OwnerValid
  <2>5. QED
    BY <1>1, <1>2, <1>4, <1>6, <2>1, <2>3, <2>4, GivesUpDrive
<1>7. CASE /\ request' = [request EXCEPT !.status = "running", !.owner = Me(t)]
           /\ runs' = [runs EXCEPT ![t].pc = "work", ![t].pre = request.status]
           /\ jobs[runs[t].job].status \in {"claimed", "running"} /\ Holds(t)
  <2>1. request'.status = "running" /\ request'.owner = Me(t) /\ Me(t) # NoOwner
    BY <1>2, <1>7, RunFacts DEF TypeOK, Request
  <2>2. /\ runs'[t].pc = "work" /\ runs'[t].job = runs[t].job
        /\ runs'[t].token = runs[t].token /\ \A u \in Threads \ {t} : runs'[u] = runs[u]
    BY <1>2, <1>7 DEF TypeOK, Run
  <2>3. Me(t).job = runs[t].job
    BY DEF Me
  <2>4. Live(runs[t].job)'
    BY <1>3, <1>7, <2>2, ClaimScoutRows DEF Live, LIVE_JOB_STATUSES, ACTIVE_STATUSES
  <2>5. OwnerDrives' /\ Driven'
    BY <1>3, <2>1, <2>2, <2>3, <2>4 DEF OwnerDrives, Driven, Live
  <2>6. Away(t)'
    BY <2>1, <2>2 DEF Away, IsMe, Me
  <2>7. ASSUME NEW u \in Threads, u # t PROVE Away(u)'
    <3>1. CASE runs[u] # Free /\ Holds(u)' /\ runs[u].job = runs[t].job
      <4>1. Holds(u)
        BY <2>2, <2>7, <3>1, HoldsBefore
      <4>2. QED
        BY <1>2, <1>7, <2>7, <3>1, <4>1, OneHolder
    <3>2. QED
      BY <2>1, <2>2, <2>3, <2>7, <3>1 DEF Away
  <2>8. QED
    BY <2>5, <2>6, <2>7 DEF Drive
<1>8. QED
  BY <1>5, <1>6, <1>7, ClaimScoutDoes

LEMMA AdmissionDoes ==
    ASSUME NEW t \in Threads, Admission(t)
    PROVE  \/ To(t, "cancel") \/ Errs(t, "rollback", "retryable") \/ StopsWith(t, "lease_lost")
           \/ /\ StopsWith(t, "stopped")
              /\ \/ request.status = "paused" \/ Fenced(runs[t].job)
                 \/ Holds(t) /\ (~IsMe(t) \/ request.status # "running")
<1>1. CASE Cause(t) \in {"none", "cancel_requested", "lease_lapsed", "lease_lost"}
  BY <1>1 DEF Admission, Errs
<1>2. CASE Cause(t) \notin {"none", "cancel_requested", "lease_lapsed", "lease_lost"}
  <2>1. StopsWith(t, "stopped")
    BY <1>2 DEF Admission
  <2>2. \/ request.status = "paused" \/ Fenced(runs[t].job)
        \/ Holds(t) /\ (~IsMe(t) \/ request.status # "running")
    <3>1. CASE request.status = "paused" \/ Fenced(runs[t].job)
      BY <3>1
    <3>2. CASE /\ ~(request.status = "paused" \/ Fenced(runs[t].job))
               /\ jobs[runs[t].job].status = "cancel_requested"
      BY <1>2, <3>2 DEF Cause, Holds, Fenced, IsMe
    <3>3. CASE /\ ~(request.status = "paused" \/ Fenced(runs[t].job))
               /\ jobs[runs[t].job].status # "cancel_requested"
               /\ jobs[runs[t].job].status \notin {"claimed", "running"} \/ ~Holds(t)
      BY <1>2, <3>3 DEF Cause, Holds, Fenced, IsMe
    <3>4. CASE /\ ~(request.status = "paused" \/ Fenced(runs[t].job))
               /\ jobs[runs[t].job].status # "cancel_requested"
               /\ ~(jobs[runs[t].job].status \notin {"claimed", "running"} \/ ~Holds(t))
               /\ IsMe(t) /\ request.status = "running"
      BY <1>2, <3>4 DEF Cause
    <3>5. QED
      BY <3>1, <3>2, <3>3, <3>4
  <2>3. QED
    BY <2>1, <2>2
<1>3. QED
  BY <1>1, <1>2

LEMMA AdmissionDrive ==
    ASSUME Base, Moves, Drive, NEW t \in Threads, Admission(t) PROVE Drive'
<1>1. TypeOK /\ runs[t] # Free /\ runs[t].pc = "work"
  BY DEF Base, Admission, Free
<1>2. request' = request /\ overwritten' = overwritten /\ jobs' = jobs
  BY DEF Admission
<1>3. runs[t].job \in Jobs
  BY <1>1, RunFacts
<1>4. CASE To(t, "cancel") \/ Errs(t, "rollback", "retryable") \/ StopsWith(t, "lease_lost")
  <2>1. PICK x \in Run :
          /\ GoesOn(t, x)
          /\ x.pc \in {"cancel", "rollback"} \/ (x.pc = "stop" /\ x.outcome = "lease_lost")
    <3>1. CASE To(t, "cancel")
      BY <1>1, <3>1, ToIs DEF Pcs
    <3>2. CASE Errs(t, "rollback", "retryable")
      BY <1>1, <3>2, ErrsIs DEF Errors
    <3>3. CASE StopsWith(t, "lease_lost")
      BY <1>1, <3>3, StopsWithIs DEF StopOutcomes
    <3>4. QED
      BY <1>4, <3>1, <3>2, <3>3
  <2>2. ~Spent(x)
    BY <2>1 DEF Spent
  <2>3. QED
    BY <1>2, <2>1, <2>2, GoesOnDrive
<1>5. CASE /\ StopsWith(t, "stopped")
           /\ \/ request.status = "paused" \/ Fenced(runs[t].job)
              \/ Holds(t) /\ (~IsMe(t) \/ request.status # "running")
  <2>1. PICK x \in Run : GoesOn(t, x) /\ x.pc = "stop"
    BY <1>1, <1>5, StopsWithIs DEF StopOutcomes
  <2>2. \A k \in Jobs : Live(k) => Live(k)'
    BY <1>2 DEF Live
  <2>3. ASSUME Holds(t), request.owner.job = runs[t].job
        PROVE  Fenced(runs[t].job) \/ overwritten
    <3>1. IsMe(t) /\ request.owner # NoOwner
      BY <1>1, <1>3, <2>3, NoOwnerType, JobAssumption DEF Drive, Away
    <3>2. overwritten \/ request.status = "running"
      BY <3>1 DEF Drive, OwnerDrives
    <3>3. QED
      BY <1>5, <3>1, <3>2
  <2>4. Fresh(runs[t].job) /\ request.status \in InFlight => request.owner # NoOwner
    BY <1>1, <1>5 DEF Fresh, Spent, InFlight
  <2>5. QED
    BY <1>1, <1>2, <2>1, <2>2, <2>3, <2>4, GivesUpDrive
<1>6. QED
  BY <1>4, <1>5, AdmissionDoes

LEMMA RollbackDrive ==
    ASSUME Base, Moves, Drive, NEW t \in Threads, Rollback(t) PROVE Drive'
<1>1. TypeOK /\ runs[t] # Free /\ runs[t] \in Run /\ runs[t].job \in Jobs
  BY RunFacts DEF Base, Rollback, Free, TypeOK
<1>2. jobs' = jobs /\ overwritten' = overwritten
  BY DEF Rollback
<1>3. /\ runs'[t].pc = "fail" /\ \A u \in Threads \ {t} : runs'[u] = runs[u]
  BY <1>1 DEF Rollback, To, TypeOK, Run
<1>4. CASE request' = request
  <2>1. \A u \in Threads : runs'[u] \in {runs[u], Free} \/ ~Spent(runs'[u])
    BY <1>3 DEF Spent
  <2>2. \A k \in Jobs : Live(k) => Live(k)'
    BY <1>2 DEF Live
  <2>3. QED
    BY <1>2, <1>4, <2>1, <2>2, IdleDrive
<1>5. CASE request' # request
  <2>1. /\ request'.owner = NoOwner /\ IsMe(t) /\ HoldsJob(t)
        /\ request'.fence = request.fence
    BY <1>5, RollbackDoes
  <2>2. ~Fenced(runs[t].job) /\ Holds(t) /\ Live(runs[t].job)
    BY <1>1, <2>1, MineIsInFence DEF HoldsJob, Live, LIVE_JOB_STATUSES
  <2>3. PICK j \in Jobs : j = runs[t].job
    BY <1>1
  <2>4. ASSUME NEW u \in Threads, runs'[u] # Free, runs'[u].job = j, Holds(u)'
        PROVE  ~Spent(runs'[u])
    <3>1. CASE u = t
      BY <1>3, <3>1 DEF Spent
    <3>2. CASE u # t
      <4>1. runs'[u] = runs[u] /\ Holds(u)
        BY <1>2, <1>3, <2>4, <3>2 DEF Holds
      <4>2. QED
        BY <1>1, <2>2, <2>3, <2>4, <3>2, <4>1, OneHolder
    <3>3. QED
      BY <3>1, <3>2
  <2>5. Live(j)' /\ ~Fenced(j)'
    BY <1>2, <2>1, <2>2, <2>3 DEF Live, Fenced
  <2>6. Fresh(j)'
    BY <2>4, <2>5 DEF Fresh
  <2>7. QED
    BY <2>1, <2>6, OwnerlessDrive
<1>6. QED
  BY <1>4, <1>5

\* An attempt that lost its fence ends and changes nothing.
LEMMA EndsDrive ==
    ASSUME Base, Moves, Drive, NEW t \in Threads, Ends(t), request' = request, jobs' = jobs,
           overwritten' = overwritten
    PROVE  Drive'
<1>1. \A u \in Threads : runs'[u] \in {runs[u], Free}
  BY DEF Ends, Base, TypeOK
<1>2. \A k \in Jobs : Live(k) => Live(k)'
  BY DEF Live
<1>3. QED
  BY <1>1, <1>2, IdleDrive

\* The last transaction of an attempt: what has to hold where it writes.
LEMMA FinalDrive ==
    ASSUME Base, Moves, Drive, NEW t \in Threads, runs[t] # Free, NEW source, NEW row \in Row,
           NEW req \in Request, FinalWrite(t, source, row, req),
           row.fence = jobs[runs[t].job].fence, req.fence = request.fence,
           Holds(t) /\ jobs[runs[t].job].status \in source =>
              \/ req.owner = NoOwner /\ req.status \notin InFlight
              \/ req.owner = NoOwner /\ Excused
              \/ req.owner = NoOwner /\ ~Fenced(runs[t].job) /\ row.outcome = "lease_lost"
              \/ req.owner = NoOwner /\ ~Fenced(runs[t].job) /\ row.status = "cancelled"
              \/ req = request /\ Fenced(runs[t].job)
              \/ req = request /\ row.outcome = "lease_lost"
              \/ req = request /\ row.status \in LIVE_JOB_STATUSES \cup {"cancelled"}
              \/ req = request /\ (Excused \/ Spares(runs[t].job))
    PROVE  Drive'
<1>1. overwritten' = overwritten /\ Ends(t)
  BY DEF FinalWrite
<1>2. PICK j \in Jobs : j = runs[t].job
  BY RunFacts DEF Base
<1>3. CASE ~(Holds(t) /\ jobs[runs[t].job].status \in source)
  BY <1>1, <1>3, EndsDrive DEF FinalWrite
<1>4. CASE Holds(t) /\ jobs[runs[t].job].status \in source
  <2>1. jobs' = [jobs EXCEPT ![j] = row] /\ request' = req
    BY <1>2, <1>4 DEF FinalWrite
  <2>2. jobs'[j] = row /\ \A k \in Jobs \ {j} : jobs'[k] = jobs[k]
    BY <2>1 DEF Base, TypeOK
  <2>3. Excused => Excused'
    BY <1>1, <2>1, ExcusedStays
  <2>4. ~Fenced(j) /\ (row.outcome = "lease_lost" \/ row.status = "cancelled") => Excused'
    BY <1>2, <2>1, <2>2 DEF Excused, Fenced
  <2>5. CASE req = request
    <3>1. ASSUME NEW k \in Jobs, Live(k), ~Fenced(k)
          PROVE  Live(k)' \/ Excused' \/ Spares(k)
      <4>1. CASE k # j
        BY <2>2, <3>1, <4>1 DEF Live
      <4>2. CASE k = j
        <5>1. row.status \in LIVE_JOB_STATUSES => Live(j)'
          BY <2>2 DEF Live
        <5>2. CASE req.owner = NoOwner /\ req.status \notin InFlight
          <6>1. Spares(j)
            BY <2>5, <5>2, NoOwnerType, JobAssumption DEF Spares
          <6>2. QED
            BY <4>2, <6>1
        <5>3. QED
          BY <1>2, <1>4, <2>3, <2>4, <3>1, <4>2, <5>1, <5>2
      <4>3. QED
        BY <4>1, <4>2
    <3>2. \A u \in Threads : runs'[u] \in {runs[u], Free}
      BY <1>1 DEF Ends, Base, TypeOK
    <3>3. QED
      BY <1>1, <2>1, <2>5, <3>1, <3>2, QuietDrive
  <2>6. CASE req # request
    BY <1>2, <1>4, <2>1, <2>3, <2>4, <2>6, OwnerlessDrive
  <2>7. QED
    BY <2>5, <2>6
<1>5. QED
  BY <1>3, <1>4

LEMMA FinishDrive ==
    ASSUME Base, Moves, Drive, NEW t \in Threads, Finish(t) PROVE Drive'
<1>1. runs[t] # Free /\ overwritten' = overwritten /\ Ends(t)
  BY DEF Finish, FinalWrite, Free
<1>2. CASE jobs' = jobs /\ request' = request
  BY <1>1, <1>2, EndsDrive
<1>3. CASE ~(jobs' = jobs /\ request' = request)
  <2> DEFINE done == [request EXCEPT !.status = "completed"]
  <2>1. request' = NoOwnerNow(done)
    BY <1>3 DEF Finish, FinalWrite
  <2>2. done \in Request /\ done.status = "completed"
    BY DEF Base, TypeOK, Request, RequestStatuses, Settled
  <2> HIDE DEF done
  <2>3. request'.owner = NoOwner /\ request'.status \notin InFlight
    BY <2>1, <2>2, NoOwnerNowIs DEF InFlight
  <2>4. QED
    BY <2>3, OwnerlessDrive
<1>4. QED
  BY <1>2, <1>3

LEMMA FailDrive ==
    ASSUME Base, Moves, Drive, NEW t \in Threads, Fail(t) PROVE Drive'
<1>1. TypeOK /\ runs[t] # Free
  BY DEF Base, Fail, Free
<1>2. /\ jobs[runs[t].job] \in Row /\ request \in Request /\ runs[t].job \in Jobs
  BY <1>1, RunFacts DEF TypeOK
<1>3. PICK s \in {"retry_wait", "dead_lettered", "failed"} :
        /\ FinalWrite(t, {"running", "cancel_requested"}, Freed(jobs[runs[t].job], s),
                      FailRequest(t))
        /\ s = "retry_wait" <=>
              runs[t].error = "retryable" /\ jobs[runs[t].job].attempt < MaxAttempts
  BY DEF Fail, FailRequest
<1> DEFINE row == Freed(jobs[runs[t].job], s)
           req == FailRequest(t)
<1>4. s \in JobStatuses
  BY DEF JobStatuses, TERMINAL_STATUSES, ENQUEUED_STATUSES
<1>5. row \in Row /\ row.status = s /\ row.fence = jobs[runs[t].job].fence
  BY <1>2, <1>4, FreedIs
<1>6. req = request
        \/ (req \in Request /\ req.fence = request.fence
            /\ req.owner = NoOwner /\ req.status = "failed")
  BY FailRequestIs
<1>7. ASSUME req = request, s # "retry_wait", ~Fenced(runs[t].job)
      PROVE  Excused \/ Spares(runs[t].job)
  <2>1. CASE FailureSettles(runs[t].job, request)
    <3>1. req \in {SettleFailed(request), SettleFailed(SettleFailed(request))}
      BY <1>3, <1>7, <2>1 DEF FailRequest
    <3>2. SettleFailed(request) \in Request /\ SettleFailed(request).status = "failed"
      BY <1>2, SettleFailedIs
    <3>3. req.status = "failed"
      BY <3>1, <3>2, SettleFailedIs
    <3>4. QED
      BY <1>7, <2>1, <3>3 DEF FailureSettles, InFlight
  <2>2. CASE ~FailureSettles(runs[t].job, request)
    BY <1>2, <1>7, <2>2, Unsettled
  <2>3. QED
    BY <2>1, <2>2
<1>8. FinalWrite(t, {"running", "cancel_requested"}, row, req)
  BY <1>3
<1>9. s = "retry_wait" => row.status \in LIVE_JOB_STATUSES
  BY <1>5 DEF LIVE_JOB_STATUSES, ENQUEUED_STATUSES
<1> HIDE DEF row, req
<1>10. req \in Request /\ req.fence = request.fence
  BY <1>2, <1>6
<1>11. \/ req.owner = NoOwner /\ req.status \notin InFlight
       \/ req = request /\ Fenced(runs[t].job)
       \/ req = request /\ row.status \in LIVE_JOB_STATUSES \cup {"cancelled"}
       \/ req = request /\ (Excused \/ Spares(runs[t].job))
  BY <1>6, <1>7, <1>9 DEF InFlight
<1>12. QED
  BY <1>1, <1>5, <1>8, <1>10, <1>11, FinalDrive

LEMMA StopDrive ==
    ASSUME Base, Moves, Drive, NEW t \in Threads, Stop(t) PROVE Drive'
<1>1. TypeOK /\ runs[t] # Free /\ runs[t].pc = "stop"
  BY DEF Base, Stop, Free
<1>2. /\ jobs[runs[t].job] \in Row /\ request \in Request /\ runs[t] \in Run
      /\ runs[t].outcome \in StopOutcomes
  BY <1>1, RunFacts DEF TypeOK, Base, RunSound
<1> DEFINE row == [Freed(jobs[runs[t].job], "succeeded") EXCEPT !.outcome = runs[t].outcome]
           req == ReleaseOwner(t, request)
<1>3. FinalWrite(t, {"running", "cancel_requested"}, row, req)
  BY DEF Stop
<1>4. "succeeded" \in JobStatuses /\ runs[t].outcome \in Outcomes
  BY <1>2 DEF JobStatuses, TERMINAL_STATUSES, Run
<1>5. /\ row \in Row /\ row.outcome = runs[t].outcome
      /\ row.fence = jobs[runs[t].job].fence
  BY <1>2, <1>4, FreedRow
<1>6. req \in Request /\ req.fence = request.fence
  BY <1>2, ReleaseOwnerIs
<1>7. req = request \/ (req.owner = NoOwner /\ IsMe(t))
  BY <1>2, ReleaseOwnerIs DEF ReleaseOwner, IsMe
<1> HIDE DEF row, req
<1>8. ASSUME Holds(t), request.owner.job = runs[t].job, ~Fenced(runs[t].job),
             runs[t].outcome # "lease_lost"
      PROVE  Excused
  BY <1>1, <1>2, <1>8 DEF Drive, Away, StopOutcomes, Excused
<1>9. ASSUME Holds(t), ~Fenced(runs[t].job), runs[t].outcome # "lease_lost"
      PROVE  Excused \/ Spares(runs[t].job)
  <2>1. ~Fresh(runs[t].job)
    BY <1>1, <1>2, <1>9 DEF Fresh, Spent, StopOutcomes
  <2>2. QED
    BY <1>8, <1>9, <2>1 DEF Spares
<1>10. IsMe(t) => ~Fenced(runs[t].job) /\ request.owner.job = runs[t].job
  BY <1>1, MineIsInFence DEF IsMe, Me
<1>11. Holds(t) =>
          \/ req.owner = NoOwner /\ Excused
          \/ req.owner = NoOwner /\ ~Fenced(runs[t].job) /\ row.outcome = "lease_lost"
          \/ req = request /\ Fenced(runs[t].job)
          \/ req = request /\ row.outcome = "lease_lost"
          \/ req = request /\ (Excused \/ Spares(runs[t].job))
  BY <1>5, <1>7, <1>8, <1>9, <1>10
<1>12. QED
  BY <1>1, <1>3, <1>5, <1>6, <1>11, FinalDrive

LEMMA AcknowledgeCancelDrive ==
    ASSUME Base, Moves, Drive, NEW t \in Threads, AcknowledgeCancel(t) PROVE Drive'
<1>1. TypeOK /\ runs[t] # Free
  BY DEF Base, AcknowledgeCancel, Free
<1>2. /\ runs[t].job \in Jobs /\ jobs[runs[t].job] \in Row /\ request \in Request
  BY <1>1, RunFacts DEF TypeOK
<1>3. PICK settled \in {request, SettleCancelled(runs[t].job)} :
        \E req \in {settled, ReleaseOwner(t, settled)} :
           FinalWrite(t, ACTIVE_STATUSES, Freed(jobs[runs[t].job], "cancelled"), req)
  BY DEF AcknowledgeCancel
<1>4. PICK req \in {settled, ReleaseOwner(t, settled)} :
        FinalWrite(t, ACTIVE_STATUSES, Freed(jobs[runs[t].job], "cancelled"), req)
  BY <1>3
<1>5. /\ SettleCancelled(runs[t].job) \in Request
      /\ SettleCancelled(runs[t].job).status \in Settled
      /\ SettleCancelled(runs[t].job).fence = request.fence
      /\ SettleCancelled(runs[t].job).owner = NoOwner
  BY <1>1, <1>2, SettleCancelledIs
<1>6. settled \in Request /\ settled.fence = request.fence
  BY <1>2, <1>5
<1>7. /\ req \in Request /\ req.fence = request.fence /\ req.status = settled.status
      /\ \/ req.owner = settled.owner
         \/ req.owner = NoOwner
  BY <1>6, ReleaseOwnerIs
<1>8. CASE settled = SettleCancelled(runs[t].job)
  <2>1. req.owner = NoOwner /\ req.status \notin InFlight
    BY <1>5, <1>7, <1>8 DEF Settled, InFlight
  <2> DEFINE row == Freed(jobs[runs[t].job], "cancelled")
  <2>2. "cancelled" \in JobStatuses
    BY DEF JobStatuses, TERMINAL_STATUSES
  <2>3. row \in Row /\ row.fence = jobs[runs[t].job].fence
    BY <1>2, <2>2, FreedIs
  <2>4. FinalWrite(t, ACTIVE_STATUSES, row, req)
    BY <1>4
  <2> HIDE DEF row
  <2>5. QED
    BY <1>1, <1>7, <2>1, <2>3, <2>4, FinalDrive
<1>9. CASE settled = request
  <2>1. req = request \/ (req.owner = NoOwner /\ IsMe(t))
    BY <1>2, <1>4, <1>9, ReleaseOwnerIs DEF ReleaseOwner, IsMe
  <2>2. IsMe(t) => ~Fenced(runs[t].job)
    BY <1>1, MineIsInFence
  <2> DEFINE row == Freed(jobs[runs[t].job], "cancelled")
  <2>3. "cancelled" \in JobStatuses
    BY DEF JobStatuses, TERMINAL_STATUSES
  <2>4. row \in Row /\ row.fence = jobs[runs[t].job].fence /\ row.status = "cancelled"
    BY <1>2, <2>3, FreedIs
  <2>5. FinalWrite(t, ACTIVE_STATUSES, row, req)
    BY <1>4
  <2> HIDE DEF row
  <2>6. QED
    BY <1>1, <1>7, <2>1, <2>2, <2>4, <2>5, FinalDrive
<1>10. QED
  BY <1>3, <1>8, <1>9

LEMMA NextDrive == Base /\ Drive /\ [Next]_vars => Drive'
<1> SUFFICES ASSUME Base, Drive, [Next]_vars PROVE Drive'
  OBVIOUS
<1>1. Moves
  BY NextMoves, StutterMoves
<1>2. CASE Pause \/ TickRead \/ TickWrite \/ Recover \/ UNCHANGED vars
  BY <1>1, <1>2, PauseDrive, ReadsDrive, TickWriteDrive, RecoverDrive, StutterDrive
<1>3. ASSUME NEW e \in Editors, Edit(e) PROVE Drive'
  BY <1>1, <1>3, ReadsDrive, ResumeWriteDrive, RunWriteDrive DEF Edit
<1>4. ASSUME NEW j \in Jobs, Cancel(j) \/ LeaseLapses(j) PROVE Drive'
  BY <1>1, <1>4, CancelDrive, LeaseDrive
<1>5. ASSUME NEW t \in Threads, ClaimJob(t) \/ Heartbeat(t) \/ Crash(t) PROVE Drive'
  BY <1>1, <1>5, ClaimJobDrive, LeaseDrive, CrashDrive
<1>6. ASSUME NEW t \in Threads, Attempt(t) PROVE Drive'
  BY <1>1, <1>6, MarkRunningDrive, StartDrive, ClaimScoutDrive, AdmissionDrive, FinishDrive,
     RaiseDrive, RollbackDrive, FailDrive, StopDrive, AcknowledgeCancelDrive DEF Attempt
<1>7. QED
  BY <1>2, <1>3, <1>4, <1>5, <1>6 DEF Next

LEMMA InitDrive == Init => Drive
BY DEF Init, Drive, OwnerDrives, Away, Driven, InFlight

\* However its runs crash, fail, are superseded or dead-lettered, a Scout in flight has a
\* job of its fence to drive it, unless a Cancel ended one, a job was recorded as
\* succeeded after its lease was lost, or a stale resume overwrote the row.
THEOREM OnlyStopsStrand == Spec => []StrandedOnlyByStops
<1>1. Base /\ Drive => StrandedOnlyByStops
  <2> SUFFICES ASSUME Base, Drive, Stranded, ~Excused PROVE FALSE
    BY DEF StrandedOnlyByStops, Excused
  <2>1. ASSUME NEW j \in Jobs, Fresh(j) PROVE FALSE
    BY <2>1 DEF Fresh, Stranded
  <2>2. request.owner # NoOwner
    BY <2>1 DEF Stranded, Drive, Driven
  <2>3. Live(request.owner.job) /\ request.owner.job \in Jobs /\ ~Fenced(request.owner.job)
    BY <2>2, OwnerFacts DEF Drive, OwnerDrives, Base, OwnerInFence
  <2>4. QED
    BY <2>3 DEF Stranded
<1>2. Spec => [](Base /\ Drive)
  BY InitBase, InitDrive, NextBase, NextDrive, PTL DEF Spec
<1>3. QED
  BY <1>1, <1>2, PTL

-----------------------------------------------------------------------------
(***************************************************************************)
(* The Scout implements ScoutLifecycle.  First, what its row becomes.      *)
(***************************************************************************)

\* Job j, of the Scout's fence, settles it: the row becomes r.
SettlesTo(j, r) ==
    /\ request.status \in InFlight /\ jobs[j].status # "absent" /\ ~Fenced(j) /\ OwnedBy(j)
    /\ r.status \in Settled /\ r.owner = NoOwner /\ r.fence = request.fence

\* The owner leaves the Scout, in one of the ways it may.
LeavesTo(r) ==
    /\ request.owner # NoOwner
    /\ r.owner = NoOwner /\ r.fence = request.fence
    /\ \/ r.status = request.status
       \/ request.status = "running" /\ r.status = "queued"
       \/ request.status # "paused" /\ r.status = "failed"

\* Attempt t takes the Scout over.
TakesOver(t) ==
    /\ request.status # "paused" /\ request'.status = "running"
    /\ runs[t] # Free /\ request.owner # Me(t) /\ request'.owner = Me(t)
    /\ jobs[runs[t].job].status # "absent" /\ ~Fenced(runs[t].job)
    /\ request'.fence = request.fence

ByRun == \/ request' = request \/ LeavesTo(request')
         \/ \E j \in Jobs : SettlesTo(j, request')
         \/ \E t \in Threads : TakesOver(t)

\* What a failure leaves is what its job settles or its owner leaves.
LEMMA HookSettles ==
    ASSUME Base, NEW j \in Jobs, FailureSettles(j, request), jobs[j].status # "absent"
    PROVE  SettlesTo(j, SettleFailed(request))
BY SettleFailedIs DEF Base, TypeOK, FailureSettles, SettlesTo, OwnedBy, Settled

LEMMA CancelHookSettles ==
    ASSUME Base, NEW j \in Jobs, CancelSettles(j), jobs[j].status # "absent"
    PROVE  SettlesTo(j, SettleCancelled(j))
BY SettleCancelledIs DEF Base, CancelSettles, SettlesTo

LEMMA ReleaseLeaves ==
    ASSUME Base, NEW t \in Threads, runs[t] # Free
    PROVE  ReleaseOwner(t, request) = request \/ LeavesTo(ReleaseOwner(t, request))
<1>1. request \in Request /\ Me(t) # NoOwner
  BY RunFacts DEF Base, TypeOK
<1>2. CASE request.owner = Me(t) /\ HoldsJob(t)
  BY <1>1, <1>2, ReleaseOwnerIs DEF LeavesTo
<1>3. CASE ~(request.owner = Me(t) /\ HoldsJob(t))
  BY <1>3 DEF ReleaseOwner
<1>4. QED
  BY <1>2, <1>3

LEMMA CancelScout == ASSUME Base, NEW j \in Jobs, Cancel(j) PROVE ByRun
<1>1. CASE request' = request
  BY <1>1 DEF ByRun
<1>2. CASE request' # request
  <2>1. /\ CancelSettles(j) /\ request' = SettleCancelled(j)
        /\ jobs[j].status # "absent"
    BY <1>2 DEF Cancel, ENQUEUED_STATUSES
  <2>2. SettlesTo(j, request')
    BY <2>1, CancelHookSettles
  <2>3. QED
    BY <2>2 DEF ByRun
<1>3. QED
  BY <1>1, <1>2

LEMMA RecoverScout == ASSUME Base, Recover PROVE ByRun
<1>1. CASE request' = request
  BY <1>1 DEF ByRun
<1>2. CASE request' # request
  <2>1. PICK j \in Jobs : DeadLetters(j) /\ FailureSettles(j, request)
    BY <1>2 DEF Recover
  <2>2. request' = SettleFailed(request)
    BY <1>2 DEF Recover
  <2>3. jobs[j].status # "absent"
    BY <2>1 DEF DeadLetters, Lapsed
  <2>4. SettlesTo(j, request')
    BY <2>1, <2>2, <2>3, HookSettles
  <2>5. QED
    BY <2>4 DEF ByRun
<1>3. QED
  BY <1>1, <1>2

LEMMA ClaimScoutScout == ASSUME Base, NEW t \in Threads, ClaimScout(t) PROVE ByRun
<1>1. CASE request' = request
  BY <1>1 DEF ByRun
<1>2. CASE request' # request
  <2>1. /\ request' = [request EXCEPT !.status = "running", !.owner = Me(t)]
        /\ request.status # "paused" /\ ~Fenced(runs[t].job)
        /\ jobs[runs[t].job].status \in {"claimed", "running"}
    BY <1>2, ClaimScoutDoes
  <2>2. runs[t].pc = "claim" /\ runs[t] # Free
    BY DEF ClaimScout, Free
  <2>3. request.owner # Me(t) /\ Me(t) \in Owner /\ request \in Request
    BY <2>2, RunFacts DEF Base, RunSound, Early, TypeOK
  <2>4. /\ request'.status = "running" /\ request'.owner = Me(t)
        /\ request'.fence = request.fence
    <3>1. PICK o \in Owner : o = Me(t)
      BY <2>3
    <3>2. request' = [request EXCEPT !.status = "running", !.owner = o]
      BY <2>1, <3>1
    <3>3. QED
      BY <2>3, <3>1, <3>2 DEF Request
  <2>5. TakesOver(t)
    BY <2>1, <2>2, <2>3, <2>4 DEF TakesOver
  <2>6. QED
    BY <2>5 DEF ByRun
<1>3. QED
  BY <1>1, <1>2

\* The last transaction of an attempt.
LEMMA FinalScout ==
    ASSUME Base, NEW t \in Threads, runs[t] # Free, NEW source, NEW row, NEW req,
           FinalWrite(t, source, row, req),
           req = request \/ LeavesTo(req) \/ SettlesTo(runs[t].job, req)
    PROVE  ByRun
<1>1. request' = request \/ request' = req
  BY DEF FinalWrite
<1>2. PICK j \in Jobs : j = runs[t].job
  BY RunFacts DEF Base
<1>3. req = request \/ LeavesTo(req) \/ SettlesTo(j, req)
  BY <1>2
<1>4. QED
  BY <1>1, <1>3 DEF ByRun

LEMMA FinishScout == ASSUME Base, NEW t \in Threads, Finish(t) PROVE ByRun
<1> DEFINE done == [request EXCEPT !.status = "completed"]
           req == NoOwnerNow(done)
<1>1. runs[t] # Free /\ request \in Request
  BY DEF Finish, Free, Base, TypeOK
<1>2. PICK row : FinalWrite(t, {"running"}, row, req)
  BY DEF Finish
<1>3. done \in Request /\ done.fence = request.fence /\ done.status = "completed"
  BY <1>1 DEF Request, RequestStatuses, Settled
<1> HIDE DEF done
<1>4. /\ req.fence = request.fence /\ req.owner = NoOwner /\ req.status = "completed"
  BY <1>3, NoOwnerNowIs
<1> HIDE DEF req
<1>5. IsMe(t) /\ request.status = "running"
  BY DEF Finish, Cause
<1>6. ~Fenced(runs[t].job) /\ jobs[runs[t].job].status # "absent"
  BY <1>1, <1>5, MineIsInFence DEF Base, RunSound
<1>7. OwnedBy(runs[t].job)
  BY <1>5 DEF IsMe, Me, OwnedBy
<1>8. SettlesTo(runs[t].job, req)
  BY <1>4, <1>5, <1>6, <1>7 DEF SettlesTo, Settled, InFlight
<1>9. QED
  BY <1>1, <1>2, <1>8, FinalScout

LEMMA FailScout == ASSUME Base, NEW t \in Threads, Fail(t) PROVE ByRun
<1>1. runs[t] # Free /\ request \in Request /\ Me(t) # NoOwner
  BY RunFacts DEF Fail, Free, Base, TypeOK
<1>2. PICK row : FinalWrite(t, {"running", "cancel_requested"}, row, FailRequest(t))
  BY DEF Fail, FailRequest
<1>3. jobs[runs[t].job].status # "absent" /\ runs[t].job \in Jobs
  BY <1>1, RunFacts DEF Base, RunSound
<1>4. CASE runs[t].error = "refused" /\ request.status # "paused" /\ IsMe(t)
  <2>1. FailRequest(t) = request \/ LeavesTo(FailRequest(t))
    BY <1>1, <1>4, FailRequestIs DEF LeavesTo, IsMe
  <2>2. QED
    BY <1>1, <1>2, <2>1, FinalScout
<1>5. CASE ~(runs[t].error = "refused" /\ request.status # "paused" /\ IsMe(t))
  <2>1. FailRequest(t) = IF ~(runs[t].error = "retryable" /\ jobs[runs[t].job].attempt < MaxAttempts)
                            /\ FailureSettles(runs[t].job, request)
                         THEN SettleFailed(request) ELSE request
    BY <1>5 DEF FailRequest
  <2>2. FailRequest(t) = request \/ SettlesTo(runs[t].job, FailRequest(t))
    BY <1>3, <2>1, HookSettles
  <2>3. QED
    BY <1>1, <1>2, <2>2, FinalScout
<1>6. QED
  BY <1>4, <1>5

LEMMA StopScout == ASSUME Base, NEW t \in Threads, Stop(t) PROVE ByRun
<1>1. runs[t] # Free
  BY DEF Stop, Free
<1>2. PICK row : FinalWrite(t, {"running", "cancel_requested"}, row, ReleaseOwner(t, request))
  BY DEF Stop
<1>3. QED
  BY <1>1, <1>2, ReleaseLeaves, FinalScout

LEMMA AcknowledgeCancelScout ==
    ASSUME Base, NEW t \in Threads, AcknowledgeCancel(t) PROVE ByRun
<1>1. runs[t] # Free /\ request \in Request
  BY DEF AcknowledgeCancel, Free, Base, TypeOK
<1>2. Me(t) # NoOwner /\ runs[t].job \in Jobs /\ jobs[runs[t].job].status # "absent"
  BY <1>1, RunFacts DEF Base, RunSound
<1>3. PICK settled, req :
        /\ \/ settled = request
           \/ CancelSettles(runs[t].job) /\ settled = SettleCancelled(runs[t].job)
        /\ req \in {settled, ReleaseOwner(t, settled)}
        /\ \E row : FinalWrite(t, ACTIVE_STATUSES, row, req)
  BY DEF AcknowledgeCancel
<1>4. CASE settled = request
  BY <1>1, <1>3, <1>4, ReleaseLeaves, FinalScout
<1>5. CASE CancelSettles(runs[t].job) /\ settled = SettleCancelled(runs[t].job)
  <2>1. SettlesTo(runs[t].job, settled) /\ settled.owner = NoOwner
    BY <1>2, <1>5, CancelHookSettles DEF SettlesTo
  <2>2. req = settled
    BY <1>2, <1>3, <2>1 DEF ReleaseOwner
  <2>3. QED
    BY <1>1, <1>3, <2>1, <2>2, FinalScout
<1>6. QED
  BY <1>3, <1>4, <1>5

\* What an attempt restores is never "paused": it took the Scout over from another status.
NotFromPaused == \A t \in Threads : runs[t].pre # "paused"

KeepsPre(t) == \/ runs'[t].pre \in {runs[t].pre, "none"}
               \/ request.status # "paused" /\ runs'[t].pre = request.status

LEMMA PointKeepsPre ==
    ASSUME TypeOK, NEW t \in Threads, runs[t] # Free, NEW pc, NEW e, NEW o,
           \/ To(t, pc) \/ StopsWith(t, o) \/ Errs(t, pc, e)
    PROVE  \A u \in Threads : KeepsPre(u)
<1>1. runs[t] \in Run /\ runs \in [Threads -> Run \cup {Free}]
  BY DEF TypeOK
<1>2. /\ [runs[t] EXCEPT !.pc = pc].pre = runs[t].pre
      /\ [runs[t] EXCEPT !.pc = "stop", !.outcome = o].pre = runs[t].pre
      /\ [runs[t] EXCEPT !.pc = pc, !.error = e].pre = runs[t].pre
  BY <1>1 DEF Run
<1>3. /\ \A u \in Threads \ {t} : runs'[u] = runs[u]
      /\ runs'[t] \in {[runs[t] EXCEPT !.pc = pc], [runs[t] EXCEPT !.pc = "stop", !.outcome = o],
                       [runs[t] EXCEPT !.pc = pc, !.error = e]}
  BY <1>1 DEF To, StopsWith, Errs
<1>4. QED
  BY <1>2, <1>3 DEF KeepsPre

LEMMA EndsKeepsPre ==
    ASSUME TypeOK, NEW t \in Threads, Ends(t)
    PROVE  \A u \in Threads : KeepsPre(u)
BY DEF Ends, TypeOK, KeepsPre, Free

LEMMA SameRunsKeepPre == ASSUME runs' = runs PROVE \A u \in Threads : KeepsPre(u)
BY DEF KeepsPre

LEMMA ClaimJobKeepsPre ==
    ASSUME TypeOK, NEW t \in Threads, ClaimJob(t) PROVE \A u \in Threads : KeepsPre(u)
<1>1. PICK j \in Jobs : runs' = [runs EXCEPT ![t] = [Free EXCEPT !.pc = "mark", !.job = j,
                                                              !.token = jobs[j].claims + 1]]
  BY DEF ClaimJob
<1> DEFINE x == [Free EXCEPT !.pc = "mark", !.job = j, !.token = jobs[j].claims + 1]
<1>2. x.pre = "none"
  BY DEF Free
<1> HIDE DEF x
<1>3. runs' = [runs EXCEPT ![t] = x]
  BY <1>1 DEF x
<1>4. QED
  BY <1>2, <1>3 DEF TypeOK, KeepsPre

LEMMA ClaimScoutKeepsPre ==
    ASSUME Base, NEW t \in Threads, ClaimScout(t) PROVE \A u \in Threads : KeepsPre(u)
<1>1. runs[t] # Free /\ TypeOK
  BY DEF ClaimScout, Free, Base
<1>2. ASSUME NEW o, StopsWith(t, o) PROVE \A u \in Threads : KeepsPre(u)
  BY <1>1, <1>2, PointKeepsPre
<1>3. CASE /\ request.status # "paused"
           /\ runs' = [runs EXCEPT ![t].pc = "work", ![t].pre = request.status]
  <2>1. runs[t] \in Run /\ runs \in [Threads -> Run \cup {Free}]
    BY <1>1 DEF TypeOK
  <2>2. [runs[t] EXCEPT !.pc = "work", !.pre = request.status].pre = request.status
    BY <2>1 DEF Run
  <2>3. /\ \A u \in Threads \ {t} : runs'[u] = runs[u]
        /\ runs'[t] = [runs[t] EXCEPT !.pc = "work", !.pre = request.status]
    BY <1>3, <2>1
  <2>4. QED
    BY <1>3, <2>2, <2>3 DEF KeepsPre
<1>4. QED
  BY <1>2, <1>3, ClaimScoutDoes

LEMMA AttemptKeepsPre ==
    ASSUME Base, NEW t \in Threads, Attempt(t) PROVE \A u \in Threads : KeepsPre(u)
<1>1. TypeOK
  BY DEF Base
<1>2. ASSUME NEW pc, NEW e, NEW o, runs[t] # Free,
             To(t, pc) \/ StopsWith(t, o) \/ Errs(t, pc, e)
      PROVE  \A u \in Threads : KeepsPre(u)
  BY <1>1, <1>2, PointKeepsPre
<1>3. CASE MarkRunning(t)
  <2>1. runs[t] # Free
    BY <1>3 DEF MarkRunning, Free
  <2>2. To(t, "start") \/ Ends(t)
    BY <1>3 DEF MarkRunning
  <2>3. QED
    BY <1>1, <1>2, <2>1, <2>2, EndsKeepsPre
<1>4. CASE Start(t)
  <2>1. runs[t] # Free
    BY <1>4 DEF Start, Free
  <2>2. To(t, "cancel") \/ To(t, "claim")
    BY <1>4 DEF Start
  <2>3. QED
    BY <1>2, <2>1, <2>2
<1>5. CASE Admission(t)
  <2>1. runs[t] # Free
    BY <1>5 DEF Admission, Free
  <2>2. \/ To(t, "cancel") \/ StopsWith(t, "lease_lost") \/ StopsWith(t, "stopped")
        \/ Errs(t, "rollback", "retryable")
    BY <1>5 DEF Admission, Errs
  <2>3. QED
    BY <1>2, <2>1, <2>2
<1>6. CASE Raise(t)
  <2>1. runs[t] # Free
    BY <1>6 DEF Raise, Free
  <2>2. PICK e : Errs(t, "rollback", e)
    BY <1>6 DEF Raise, Errs
  <2>3. QED
    BY <1>2, <2>1, <2>2
<1>7. CASE Rollback(t)
  <2>1. runs[t] # Free
    BY <1>7 DEF Rollback, Free
  <2>2. To(t, "fail") \/ Errs(t, "fail", "unrecorded")
    BY <1>7 DEF Rollback, Errs
  <2>3. QED
    BY <1>2, <2>1, <2>2
<1>8. CASE Finish(t) \/ Fail(t) \/ Stop(t) \/ AcknowledgeCancel(t)
  <2>1. Ends(t)
    BY <1>8 DEF Finish, Fail, Stop, AcknowledgeCancel, FinalWrite
  <2>2. QED
    BY <1>1, <2>1, EndsKeepsPre
<1>9. QED
  BY <1>3, <1>4, <1>5, <1>6, <1>7, <1>8, ClaimScoutKeepsPre DEF Attempt

LEMMA NextNotFromPaused == Base /\ NotFromPaused /\ [Next]_vars => NotFromPaused'
<1> SUFFICES ASSUME Base, NotFromPaused, [Next]_vars PROVE NotFromPaused'
  OBVIOUS
<1>1. TypeOK
  BY DEF Base
<1>2. CASE \/ Pause \/ TickRead \/ TickWrite \/ Recover \/ UNCHANGED vars
           \/ \E e \in Editors : Edit(e)
           \/ \E j \in Jobs : Cancel(j) \/ LeaseLapses(j)
           \/ \E t \in Threads : Heartbeat(t)
  <2>1. runs' = runs
    BY <1>2 DEF Pause, TickRead, TickWrite, Recover, vars, Edit, ResumeRead, ResumeWrite, RunRead,
                RunWrite, Cancel, LeaseLapses, Heartbeat
  <2>2. QED
    BY <2>1 DEF NotFromPaused
<1>3. ASSUME NEW t \in Threads, ClaimJob(t) \/ Attempt(t) \/ Crash(t) PROVE NotFromPaused'
  <2>1. \A u \in Threads : KeepsPre(u)
    BY <1>1, <1>3, ClaimJobKeepsPre, AttemptKeepsPre, EndsKeepsPre DEF Crash, Ends
  <2>2. QED
    BY <2>1 DEF KeepsPre, NotFromPaused
<1>4. QED
  BY <1>2, <1>3 DEF Next

LEMMA RollbackScout ==
    ASSUME Base, NotFromPaused, NEW t \in Threads, Rollback(t) PROVE ByRun
<1>1. CASE request' = request
  BY <1>1 DEF ByRun
<1>2. CASE request' # request
  <2>1. runs[t] # Free /\ runs[t] \in Run /\ Me(t) # NoOwner /\ request \in Request
    BY RunFacts DEF Rollback, Free, Base, TypeOK
  <2>2. /\ request'.owner = NoOwner /\ IsMe(t) /\ request'.fence = request.fence
        /\ \/ request'.status = request.status
           \/ Restores(t) /\ request'.status = runs[t].pre
    BY <1>2, RollbackDoes
  <2>3. CASE request'.status = request.status
    BY <2>1, <2>2, <2>3 DEF IsMe, LeavesTo, ByRun
  <2>4. CASE Restores(t) /\ request'.status = runs[t].pre
    <3>1. /\ request.status = "running" /\ runs[t].pre # "running" /\ ~Fenced(runs[t].job)
          /\ jobs[runs[t].job].status # "absent" /\ OwnedBy(runs[t].job)
          /\ runs[t].job \in Jobs
      BY <2>1, <2>2, <2>4, RunFacts DEF Restores, IsMe, Me, OwnedBy, Base
    <3>2. request' \in Request
      BY RollbackDoes
    <3>3. request'.status \in Settled \cup {"queued"}
      BY <2>4, <3>1, <3>2 DEF NotFromPaused, Request, RequestStatuses, InFlight
    <3>4. CASE request'.status = "queued"
      BY <2>1, <2>2, <3>1, <3>4 DEF IsMe, LeavesTo, ByRun
    <3>5. CASE request'.status \in Settled
      BY <2>2, <3>1, <3>5 DEF SettlesTo, ByRun, InFlight
    <3>6. QED
      BY <3>3, <3>4, <3>5
  <2>5. QED
    BY <2>2, <2>3, <2>4
<1>3. QED
  BY <1>1, <1>2

LEMMA AttemptScout ==
    ASSUME Base, NotFromPaused, NEW t \in Threads, Attempt(t) PROVE ByRun
<1>1. CASE MarkRunning(t) \/ Start(t) \/ Admission(t) \/ Raise(t)
  BY <1>1 DEF MarkRunning, Start, Admission, Raise, ByRun
<1>2. QED
  BY <1>1, ClaimScoutScout, FinishScout, RollbackScout, FailScout, StopScout,
     AcknowledgeCancelScout DEF Attempt

\* Only RunWrite and TickWrite enqueue; every job keeps the epoch it was enqueued in.
Epochs == [j \in Enqueued |-> jobs[j].fence]
NoNewJob == \A j \in Jobs : jobs[j].status = "absent" => jobs'[j].status = "absent"

LEMMA OldJobsKeepEpochs == ASSUME Moves, NoNewJob PROVE Epochs' = Epochs
<1>1. \A j \in Jobs : jobs[j].status # "absent" => /\ jobs'[j].status # "absent"
                                                   /\ jobs'[j].fence = jobs[j].fence
  BY DEF Moves, RowStep
<1>2. Enqueued' = Enqueued
  BY <1>1 DEF NoNewJob, Enqueued
<1>3. \A j \in Enqueued : jobs'[j].fence = jobs[j].fence
  BY <1>1 DEF Enqueued
<1>4. QED
  BY <1>2, <1>3 DEF Epochs

LEMMA NewJobKeepsEpochs ==
    ASSUME Base, NEW j \in Jobs, jobs[j].status = "absent", NEW f \in Nat,
           NEW p \in Settled \cup {"none"}, jobs' = EnqueuedRow(j, f, p)
    PROVE  /\ j \notin DOMAIN Epochs
           /\ Epochs' = [k \in DOMAIN Epochs \cup {j} |-> IF k = j THEN f ELSE Epochs[k]]
<1>1. PICK row \in Row : /\ jobs' = [jobs EXCEPT ![j] = row]
                         /\ row.status = "pending" /\ row.fence = f
  BY EnqueuedRowIs
<1>2. jobs \in [Jobs -> Row]
  BY DEF Base, TypeOK
<1>3. jobs'[j] = row /\ \A k \in Jobs \ {j} : jobs'[k] = jobs[k]
  BY <1>1, <1>2
<1>4. Enqueued' = Enqueued \cup {j} /\ j \notin Enqueued
  BY <1>1, <1>3 DEF Enqueued
<1>5. \A k \in Enqueued' : jobs'[k].fence = IF k = j THEN f ELSE Epochs[k]
  BY <1>1, <1>3, <1>4 DEF Enqueued, Epochs
<1>6. DOMAIN Epochs = Enqueued /\ Epochs' = [k \in Enqueued' |-> jobs'[k].fence]
  BY DEF Epochs
<1>7. QED
  BY <1>4, <1>5, <1>6

LEMMA OtherRowsWritten ==
    ASSUME Base, NEW t \in Threads, runs[t] # Free,
           \A k \in Jobs \ {runs[t].job} : jobs'[k] = jobs[k]
    PROVE  NoNewJob
BY RunFacts DEF Base, RunSound, NoNewJob

LEMMA AttemptAddsNoJob == ASSUME Base, NEW t \in Threads, Attempt(t) PROVE NoNewJob
<1>1. jobs \in [Jobs -> Row]
  BY DEF Base, TypeOK
<1>2. CASE Start(t) \/ Admission(t) \/ Raise(t) \/ Rollback(t)
  BY <1>2 DEF Start, Admission, Raise, Rollback, NoNewJob
<1>3. CASE ClaimScout(t)
  BY <1>3, ClaimScoutRows DEF NoNewJob
<1>4. CASE MarkRunning(t)
  <2>1. runs[t] # Free
    BY <1>4 DEF MarkRunning, Free
  <2>2. \A k \in Jobs \ {runs[t].job} : jobs'[k] = jobs[k]
    BY <1>1, <1>4 DEF MarkRunning
  <2>3. QED
    BY <2>1, <2>2, OtherRowsWritten
<1>5. CASE Finish(t) \/ Fail(t) \/ Stop(t) \/ AcknowledgeCancel(t)
  <2>1. runs[t] # Free
    BY <1>5 DEF Finish, Fail, Stop, AcknowledgeCancel, Free
  <2>2. PICK source, row, req : FinalWrite(t, source, row, req)
    BY <1>5 DEF Finish, Fail, Stop, AcknowledgeCancel
  <2>3. \A k \in Jobs \ {runs[t].job} : jobs'[k] = jobs[k]
    BY <1>1, <2>2 DEF FinalWrite
  <2>4. QED
    BY <2>1, <2>3, OtherRowsWritten
<1>6. QED
  BY <1>2, <1>3, <1>4, <1>5 DEF Attempt

LEMMA CancelAddsNoJob == ASSUME Base, NEW j \in Jobs, Cancel(j) PROVE NoNewJob
<1>1. PICK row \in Row : jobs' = [jobs EXCEPT ![j] = row] /\ jobs[j].status # "absent"
  BY CancelDoes DEF ENQUEUED_STATUSES
<1>2. QED
  BY <1>1 DEF Base, TypeOK, NoNewJob

LEMMA LeaseAddsNoJob ==
    ASSUME Base, \/ \E j \in Jobs : LeaseLapses(j)
                 \/ \E t \in Threads : Heartbeat(t)
    PROVE  NoNewJob
<1>1. PICK j \in Jobs, l \in {"live", "lapsed"} : jobs' = [jobs EXCEPT ![j].lease = l]
  BY RunFacts DEF LeaseLapses, Heartbeat, Beating, Base
<1>2. QED
  BY <1>1, LeaseDoes DEF NoNewJob

LEMMA RecoverAddsNoJob == ASSUME Base, Recover PROVE NoNewJob
BY RecoverDoes DEF NoNewJob, DeadLetters, Lapsed

LEMMA ClaimJobAddsNoJob == ASSUME Base, NEW t \in Threads, ClaimJob(t) PROVE NoNewJob
<1>1. PICK j \in Jobs : /\ jobs[j].status \in ENQUEUED_STATUSES
                        /\ \A k \in Jobs \ {j} : jobs'[k] = jobs[k]
  BY DEF ClaimJob, Base, TypeOK
<1>2. QED
  BY <1>1 DEF NoNewJob, ENQUEUED_STATUSES

\* The fence a tick read is one of the Scout's fences so far.
TickBehind == tick.fence <= request.fence

\* The steps of ScoutLifecycle, and none of its variables changed.
LifecycleStep == [Lifecycle!Next]_(Lifecycle!vars)

LEMMA RunIsLifecycle == ASSUME Base, Moves, NoNewJob, ByRun PROVE LifecycleStep
<1>0. /\ Epochs' = Epochs /\ DOMAIN Epochs = Enqueued
      /\ \A j \in Enqueued : Epochs[j] = jobs[j].fence
  BY OldJobsKeepEpochs DEF Epochs
<1>1. CASE request' = request
  BY <1>0, <1>1 DEF LifecycleStep, Lifecycle!vars, Epochs
<1>2. CASE LeavesTo(request')
  <2>1. \/ Lifecycle!Release \/ Lifecycle!Return \/ Lifecycle!Refuse
    BY <1>0, <1>2 DEF LeavesTo, Epochs, Lifecycle!Release, Lifecycle!Return, Lifecycle!Refuse
  <2>2. QED
    BY <2>1 DEF LifecycleStep, Lifecycle!Next
<1>3. ASSUME NEW j \in Jobs, SettlesTo(j, request') PROVE LifecycleStep
  <2>1. Lifecycle!Current(j)
    BY <1>0, <1>3 DEF SettlesTo, Fenced, Enqueued, Epochs, Lifecycle!Current
  <2>2. request.owner = NoOwner \/ request.owner.job = j
    <3>1. request.owner # NoOwner => request.owner.job # NoJob
      BY OwnerFacts, JobAssumption DEF Base
    <3>2. QED
      BY <1>3, <3>1 DEF SettlesTo, OwnedBy
  <2>3. Lifecycle!Settle(j)
    BY <1>0, <1>3, <2>1, <2>2 DEF SettlesTo, Epochs, InFlight, Settled, Lifecycle!Settle,
       Lifecycle!InFlight, Lifecycle!Settled
  <2>4. QED
    BY <2>3 DEF LifecycleStep, Lifecycle!Next
<1>4. ASSUME NEW t \in Threads, TakesOver(t) PROVE LifecycleStep
  <2>1. /\ Me(t) \in [job: Jobs, token: Nat \ {0}] /\ Me(t).job = runs[t].job
        /\ runs[t].job \in Jobs
    BY <1>4, RunFacts DEF TakesOver, Base, Me
  <2>2. Lifecycle!Current(runs[t].job)
    BY <1>0, <1>4, <2>1 DEF TakesOver, Fenced, Enqueued, Epochs, Lifecycle!Current
  <2>3. Lifecycle!Begin
    BY <1>0, <1>4, <2>1, <2>2 DEF TakesOver, Epochs, Lifecycle!Begin
  <2>4. QED
    BY <2>3 DEF LifecycleStep, Lifecycle!Next
<1>5. QED
  BY <1>1, <1>2, <1>3, <1>4 DEF ByRun

LEMMA PauseIsLifecycle == ASSUME Base, Moves, Pause PROVE LifecycleStep
<1>1. NoNewJob
  BY DEF Pause, NoNewJob
<1>2. Epochs' = Epochs
  BY <1>1, OldJobsKeepEpochs
<1>3. Lifecycle!Pause
  BY <1>2 DEF Pause, Epochs, Lifecycle!Pause
<1>4. QED
  BY <1>3 DEF LifecycleStep, Lifecycle!Next

LEMMA EditIsLifecycle ==
    ASSUME Base, Moves, NEW e \in Editors, Edit(e) PROVE LifecycleStep
<1>1. CASE request' = request /\ jobs' = jobs
  <2>1. NoNewJob /\ ByRun
    BY <1>1 DEF NoNewJob, ByRun
  <2>2. QED
    BY <2>1, RunIsLifecycle
<1>2. CASE ResumeWrite(e)
  <2>1. NoNewJob
    BY <1>2 DEF ResumeWrite, NoNewJob
  <2>2. Epochs' = Epochs
    BY <2>1, OldJobsKeepEpochs
  <2>3. /\ request'.status = "draft" /\ request'.fence = request.fence
        /\ request'.owner = request.owner
    BY <1>2 DEF ResumeWrite, Base, TypeOK, Request
  <2>4. Lifecycle!Resume
    BY <2>2, <2>3 DEF Epochs, Lifecycle!Resume
  <2>5. QED
    BY <2>4 DEF LifecycleStep, Lifecycle!Next
<1>3. CASE RunWrite(e) /\ ~(request' = request /\ jobs' = jobs)
  <2>1. PICK j \in Jobs : /\ jobs[j].status = "absent"
                          /\ jobs' = EnqueuedRow(j, request.fence, editors[e].seen)
    BY <1>3 DEF RunWrite
  <2>2. /\ editors[e].seen \in Settled /\ request.status = editors[e].seen
        /\ request' = [request EXCEPT !.status = "queued"] /\ request \in Request
    BY <1>3 DEF RunWrite, StillAsRead, Base, EditorsSaw, TypeOK
  <2>3. /\ request'.status = "queued" /\ request'.fence = request.fence
        /\ request'.owner = request.owner /\ request.fence \in Nat
    BY <2>2 DEF Request
  <2>4. /\ j \notin DOMAIN Epochs
        /\ Epochs' = [k \in DOMAIN Epochs \cup {j} |-> IF k = j THEN request.fence ELSE Epochs[k]]
    BY <2>1, <2>2, <2>3, NewJobKeepsEpochs
  <2>5. Lifecycle!Enqueue(j, request.fence)
    BY <2>4 DEF Epochs, Lifecycle!Enqueue
  <2>6. Lifecycle!RunNow(j)
    BY <2>2, <2>3, <2>5 DEF Settled, Lifecycle!RunNow, Lifecycle!Settled
  <2>7. QED
    BY <2>6 DEF LifecycleStep, Lifecycle!Next
<1>4. QED
  BY <1>1, <1>2, <1>3 DEF Edit, ResumeRead, RunRead

LEMMA TickIsLifecycle ==
    ASSUME Base, Moves, TickBehind, TickWrite PROVE LifecycleStep
<1>1. PICK j \in Jobs : /\ jobs[j].status = "absent"
                        /\ jobs' = EnqueuedRow(j, tick.fence, "none")
  BY DEF TickWrite
<1>2. tick.fence \in Nat /\ request.fence \in Nat /\ request' = request
  BY DEF TickWrite, Base, TypeOK, Tick, NoTick, Request
<1>3. /\ j \notin DOMAIN Epochs
      /\ Epochs' = [k \in DOMAIN Epochs \cup {j} |-> IF k = j THEN tick.fence ELSE Epochs[k]]
  BY <1>1, <1>2, NewJobKeepsEpochs
<1>4. PICK f \in 0 .. request.fence : f = tick.fence
  BY <1>2 DEF TickBehind
<1>5. Lifecycle!Enqueue(j, f)
  BY <1>3, <1>4 DEF Epochs, Lifecycle!Enqueue
<1>6. Lifecycle!Schedule(j)
  BY <1>2, <1>4, <1>5 DEF Lifecycle!Schedule
<1>7. QED
  BY <1>6 DEF LifecycleStep, Lifecycle!Next

LEMMA NextIsLifecycle ==
    Base /\ NotFromPaused /\ TickBehind /\ [Next]_vars => LifecycleStep
<1> SUFFICES ASSUME Base, NotFromPaused, TickBehind, [Next]_vars PROVE LifecycleStep
  OBVIOUS
<1>1. Moves
  BY NextMoves, StutterMoves
<1>2. CASE Pause
  BY <1>1, <1>2, PauseIsLifecycle
<1>3. CASE TickWrite
  BY <1>1, <1>3, TickIsLifecycle
<1>4. ASSUME NEW e \in Editors, Edit(e) PROVE LifecycleStep
  BY <1>1, <1>4, EditIsLifecycle
<1>5. CASE TickRead \/ UNCHANGED vars \/ \E t \in Threads : Crash(t)
  <2>1. request' = request /\ jobs' = jobs
    BY <1>5 DEF TickRead, Crash, vars
  <2>2. NoNewJob /\ ByRun
    BY <2>1 DEF NoNewJob, ByRun
  <2>3. QED
    BY <1>1, <2>2, RunIsLifecycle
<1>6. CASE \/ \E j \in Jobs : LeaseLapses(j)
           \/ \E t \in Threads : ClaimJob(t) \/ Heartbeat(t)
  <2>1. ByRun
    BY <1>6 DEF LeaseLapses, ClaimJob, Heartbeat, ByRun
  <2>2. NoNewJob
    BY <1>6, LeaseAddsNoJob, ClaimJobAddsNoJob
  <2>3. QED
    BY <1>1, <2>1, <2>2, RunIsLifecycle
<1>7. CASE Recover \/ \E j \in Jobs : Cancel(j)
  BY <1>1, <1>7, RecoverScout, RecoverAddsNoJob, CancelScout, CancelAddsNoJob, RunIsLifecycle
<1>8. ASSUME NEW t \in Threads, Attempt(t) PROVE LifecycleStep
  BY <1>1, <1>8, AttemptScout, AttemptAddsNoJob, RunIsLifecycle
<1>9. QED
  BY <1>2, <1>3, <1>4, <1>5, <1>6, <1>7, <1>8 DEF Next

LEMMA NextTickBehind ==
    Base /\ NotFromPaused /\ TickBehind /\ [Next]_vars => TickBehind'
<1> SUFFICES ASSUME Base, NotFromPaused, TickBehind, [Next]_vars PROVE TickBehind'
  OBVIOUS
<1>1. request.fence \in Nat /\ tick.fence \in Nat
  BY DEF Base, TypeOK, Request, Tick
<1>2. LifecycleStep
  BY NextIsLifecycle
<1>3. request'.fence \in {request.fence, request.fence + 1}
  BY <1>2 DEF LifecycleStep, Lifecycle!vars, Lifecycle!Next, Lifecycle!Pause, Lifecycle!Resume,
     Lifecycle!Begin, Lifecycle!Release, Lifecycle!Return, Lifecycle!Refuse, Lifecycle!RunNow,
     Lifecycle!Schedule, Lifecycle!Settle
<1>4. CASE TickRead
  BY <1>1, <1>4 DEF TickRead, TickBehind
<1>5. CASE TickWrite
  BY <1>1, <1>5 DEF TickWrite, TickBehind, NoTick
<1>6. CASE tick' = tick
  BY <1>1, <1>3, <1>6 DEF TickBehind
<1>7. TickRead \/ TickWrite \/ tick' = tick
  BY DEF Next, vars, Pause, Recover, Edit, ResumeRead, ResumeWrite, RunRead, RunWrite, Cancel,
     LeaseLapses, ClaimJob, Heartbeat, Crash, Attempt, MarkRunning, Start, ClaimScout, Admission,
     Finish, Raise, Rollback, Fail, Stop, AcknowledgeCancel, FinalWrite
<1>8. QED
  BY <1>4, <1>5, <1>6, <1>7

\* Whatever the routes, ticks, runs, hooks and faults, and however many, the Scout's row
\* follows ScoutLifecycle: only a job of the current epoch takes it over or settles it,
\* never over a pause and never in place of another job's run.
THEOREM ScoutImplementsLifecycle == Spec => ImplementsScoutLifecycle
<1>1. Init => Lifecycle!Init
  <2> SUFFICES ASSUME Init PROVE Lifecycle!Init
    OBVIOUS
  <2>1. Enqueued = {}
    BY DEF Init, NewRow, Enqueued
  <2>2. QED
    BY <2>1 DEF Init, Lifecycle!Init
<1>2. Init => NotFromPaused /\ TickBehind
  BY DEF Init, NotFromPaused, TickBehind, Free, NoTick
<1>3. Spec => [](Base /\ NotFromPaused /\ TickBehind)
  BY <1>2, InitBase, NextBase, NextNotFromPaused, NextTickBehind, PTL DEF Spec
<1>4. Base /\ NotFromPaused /\ TickBehind /\ [Next]_vars
        => [Lifecycle!Next]_(Lifecycle!vars)
  BY NextIsLifecycle DEF LifecycleStep
<1>5. QED
  BY <1>1, <1>3, <1>4, PTL DEF Spec, ImplementsScoutLifecycle, Lifecycle!Spec

=============================================================================
