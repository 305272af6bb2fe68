------------------------------ MODULE MCFrontEnds ------------------------------
(***************************************************************************)
(* Instances of FrontEnds for TLC.                                         *)
(***************************************************************************)
EXTENDS FrontEnds

CONSTANT db1

BothAndMain == Tasks \cup {Main}

Name == <<"alphabetic", "digit">>
OneName == {Name}

(* The path of a worker, and one with a name that is none.                 *)
SomePaths == {<<"", "db", db1, "wasm", Name>>, <<"", "db", db1, "wasm", <<"digit">>>>}
=============================================================================
