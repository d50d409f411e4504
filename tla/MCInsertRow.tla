---------------------------- MODULE MCInsertRow ----------------------------
(* Instance of InsertRow for TLC; sessions, positions and keys are         *)
(* interchangeable.                                                        *)
EXTENDS InsertRow, TLC

Symmetry == UNION {Permutations(S) : S \in {Sessions, Rids, Keys}}
=============================================================================
