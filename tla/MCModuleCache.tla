------------------------------ MODULE MCModuleCache ------------------------------
(***************************************************************************)
(* Instances of ModuleCache for TLC.                                       *)
(***************************************************************************)
EXTENDS ModuleCache, TLC

(* Two builds may get the same modification time.                          *)
CoarseMtime == [v \in Versions |-> (v + 1) \div 2]
FineMtime == [v \in Versions |-> v]

Symmetry == Permutations(Cells) \cup Permutations(Tasks)
=============================================================================
