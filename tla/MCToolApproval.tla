--------------------------- MODULE MCToolApproval ---------------------------
(***************************************************************************)
(* Instances of ToolApproval for TLC: two gated tools, neither of whose    *)
(* names is a substring of the other's.                                    *)
(***************************************************************************)
EXTENDS ToolApproval, TLC

CONSTANTS a, b

\* The tools and the substring relation of their names.
MCTool == {a, b}
MCWithin == {<<a, a>>, <<b, b>>}

Symmetry == Permutations(Id) \cup Permutations(MCTool)
=============================================================================
