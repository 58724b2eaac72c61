----------------------------- MODULE MCLLMBudget -----------------------------
(***************************************************************************)
(* Small instances of LLMBudget for TLC: two attempts of one job, with or  *)
(* without a brief of the same workspace.                                  *)
(***************************************************************************)
EXTENDS LLMBudget, TLC

CONSTANTS j1, m1, m2, brief

Attempts == {m1, m2}
AttemptsAndBrief == {m1, m2, brief}
OneJob == [m \in Attempts |-> j1]
OneJobAndBrief == [m \in AttemptsAndBrief |-> IF m = brief THEN NoJob ELSE j1]

AttemptSymmetry == Permutations(Attempts)

=============================================================================
