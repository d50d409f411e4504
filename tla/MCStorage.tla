------------------------------ MODULE MCStorage ----------------------------
(***************************************************************************)
(* The files below the executors, each on its own: an index file, the      *)
(* leaf list and the inner keys of its tree, a table file, the log.  They  *)
(* share no state, so one of them is picked and the others stand still.    *)
(*                                                                         *)
(* MCSchemas: every key length below and just above the limit with one and *)
(* with the most columns; a single INT column is also worked with.  Every  *)
(* record size, and one with nine slots to a page.  A tree of four leaves  *)
(* with two columns to a key.                                              *)
(***************************************************************************)
EXTENDS IndexFile, LeafChain, RecordFile, TreeKeys, LogFile

VARIABLE part

MCSchemas == {s \in [cols : {1, MaxColumns, MaxColumns + 1},
                     key : 1..(MaxKeyLength + 8)] : s.cols <= s.key}
MCWorked == {[cols |-> 1, key |-> 4]}

MCKeys == {<<a, b>> : a \in 1..4, b \in 1..2}
Pair(a, b, c) == [key |-> <<a, b>>, child |-> c]
MCKids == [root |-> <<Pair(1, 2, "left"), Pair(3, 1, "right")>>,
           left |-> <<Pair(1, 2, "leaf1"), Pair(2, 1, "leaf2")>>,
           right |-> <<Pair(3, 1, "leaf3"), Pair(4, 1, "leaf4")>>]
MCLeaves == [leaf1 |-> {<<1, 2>>}, leaf2 |-> {<<2, 1>>}, leaf3 |-> {<<3, 1>>}, leaf4 |-> {<<4, 1>>}]
MCSizes == 0..(MaxRecordSize + 1)

Parts == {"index", "chain", "table", "tree", "log"}

Init ==
    /\ part \in Parts
    /\ IndexInit /\ ChainInit /\ TableInit /\ TreeInit /\ LogInit

Next ==
    /\ UNCHANGED part
    /\ \/ /\ part = "index" /\ IndexNext
          /\ UNCHANGED <<chainVars, tableVars, treeVars, logVars>>
       \/ /\ part = "chain" /\ ChainNext
          /\ UNCHANGED <<indexVars, tableVars, treeVars, logVars>>
       \/ /\ part = "table" /\ TableNext
          /\ UNCHANGED <<indexVars, chainVars, treeVars, logVars>>
       \/ /\ part = "tree" /\ TreeNext
          /\ UNCHANGED <<indexVars, chainVars, tableVars, logVars>>
       \/ /\ part = "log" /\ LogNext
          /\ UNCHANGED <<indexVars, chainVars, tableVars, treeVars>>

Spec == Init /\ [][Next]_<<part, indexVars, chainVars, tableVars, treeVars, logVars>>
=============================================================================
