-------------------------- MODULE MCTwoPhaseCommit --------------------------
(* Small instances of TwoPhaseCommit for TLC.                                *)
EXTENDS TwoPhaseCommit, TLC

Symmetry == Permutations(Worker) \cup Permutations(Backend) \cup Permutations(Txn)

=============================================================================
