--------------------------- MODULE MCPlanExecutor ---------------------------
(* PlanExecutor for TLC: symbols are interchangeable. *)
EXTENDS PlanExecutor, TLC

MCStartPos == {-1}
\* An amount typed less finely than the venue fills: a fill of 1 is not reversed,
\* of one of 3 a 1 is left.
MCSizes == {[units |-> 4, grain |-> 2]}
Symmetry == Permutations(Symbols)
=============================================================================
