---------------------------- MODULE MCDurableJobs ----------------------------
(***************************************************************************)
(* Small instances of DurableJobs for TLC: two processes, the first with   *)
(* one or two threads.                                                     *)
(***************************************************************************)
EXTENDS DurableJobsRefinement, TLC

CONSTANTS t1, t2, t3, w1, w2

TwoThreads == {t1, t3}
ThreeThreads == {t1, t2, t3}
TwoProcesses == (t1 :> w1) @@ (t3 :> w2)
SharedProcess == (t1 :> w1) @@ (t2 :> w1) @@ (t3 :> w2)

NonceSymmetry == Permutations(Tokens)
=============================================================================
