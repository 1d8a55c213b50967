---------------------------- MODULE MCAgentPool ----------------------------
(***************************************************************************)
(* Instances of AgentPool for TLC.  One more lock object than there are    *)
(* keys and workers is never needed: a lock object is referenced by its    *)
(* key's entry or by a worker, or it is unreferenced.                      *)
(***************************************************************************)
EXTENDS AgentPool, TLC

Symmetry == Permutations(Worker) \cup Permutations(Session)
=============================================================================
