----------------------------- MODULE MCScoutRun -----------------------------
(***************************************************************************)
(* Small instances of ScoutRun for TLC.                                    *)
(***************************************************************************)
EXTENDS ScoutRunRefinement, TLC

ThreadAndEditorSymmetry == Permutations(Threads) \cup Permutations(Editors)

=============================================================================
