------------------------------- MODULE MCClientTx -------------------------------
(***************************************************************************)
(* Instances of ClientTx for TLC.                                          *)
(***************************************************************************)
EXTENDS ClientTx, TLC

Symmetry == Permutations(Guests) \cup Permutations(Conns)
=============================================================================
