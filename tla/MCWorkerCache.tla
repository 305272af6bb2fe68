------------------------------ MODULE MCWorkerCache ------------------------------
(***************************************************************************)
(* Instances of WorkerCache for TLC.                                       *)
(***************************************************************************)
EXTENDS WorkerCache, TLC

FileMtime == [v \in Versions |-> v]
FilePaths == Dirs \X Names

(* Workers are taken in a fixed order, and so are no symmetry set. *)
Symmetry == Permutations(Tasks) \cup Permutations(Cells)
=============================================================================
