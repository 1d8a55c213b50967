--------------------------- MODULE MCTaskExecutor ---------------------------
(***************************************************************************)
(* Instances of TaskExecutor for TLC.                                      *)
(***************************************************************************)
EXTENDS TaskExecutor, TLC

Symmetry == Permutations(Worker) \cup Permutations(Client)
=============================================================================
