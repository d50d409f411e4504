---------------------------- MODULE MCPageGuard ----------------------------
(* Instance of PageGuard for TLC.  Guards, descriptor numbers, page numbers *)
(* and files are interchangeable.                                          *)
EXTENDS PageGuard, TLC

Symmetry ==
    UNION {Permutations(S) : S \in {Guards, Fds, PageNos, Files}}
=============================================================================
