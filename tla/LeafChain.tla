----------------------------- MODULE LeafChain -----------------------------
(***************************************************************************)
(* The doubly linked list of the leaves of a B+-tree                       *)
(* (index/b_plus_tree.cpp): its sentinel, BPlusTree::unlink_leaf with the  *)
(* failures of fetch_node, and the order in which IndexScan visits it.     *)
(*                                                                         *)
(* split and coalesce are exercises.  They appear by the comments on them: *)
(* split links a new leaf behind its left half; coalesce moves the entries *)
(* of a leaf to its left neighbour, calls unlink_leaf, and updates         *)
(* last_leaf_.  Entries are Naturals; a leaf holds a sequence of them.     *)
(***************************************************************************)
EXTENDS Naturals, Sequences, Functions

CONSTANTS Pages,       \* page numbers of leaves
          Root,        \* INDEX_INITIAL_ROOT_PAGE, the first leaf
          Sentinel,    \* INDEX_LEAF_HEADER_PAGE
          None,        \* no page
          Capacity     \* entries a leaf can hold

ASSUME LeafConstants ==
    /\ Root \in Pages /\ Sentinel \notin Pages /\ None \notin Pages \cup {Sentinel}
    /\ Capacity \in Nat \ {0}

VARIABLES
    nextLeaf, prevLeaf,   \* next_leaf_page and previous_leaf_page
    entries,              \* per leaf
    order,                \* history: the leaves, from left to right
    firstLeaf, lastLeaf,  \* first_leaf_ and last_leaf_ of the file header
    unlink, leaf          \* unlink_leaf and its leaf

chainVars == <<nextLeaf, prevLeaf, entries, order, firstLeaf, lastLeaf, unlink, leaf>>
links == <<nextLeaf, prevLeaf>>

Nodes == Pages \cup {Sentinel}

ChainInit ==
    /\ nextLeaf = [p \in Nodes |-> IF p = Root THEN Sentinel ELSE IF p = Sentinel THEN Root ELSE None]
    /\ prevLeaf = nextLeaf
    /\ entries = [p \in Pages |-> <<>>]
    /\ order = <<Root>> /\ firstLeaf = Root /\ lastLeaf = Root
    /\ unlink = "idle" /\ leaf = None

(* An entry is added to a leaf, or taken from it.                          *)
InsertEntry(p) ==
    /\ unlink = "idle" /\ p \in Range(order) /\ Len(entries[p]) < Capacity
    /\ entries' = [entries EXCEPT ![p] = Append(@, 1)]
    /\ UNCHANGED <<links, order, firstLeaf, lastLeaf, unlink, leaf>>

DeleteEntry(p) ==
    /\ unlink = "idle" /\ p \in Range(order) /\ Len(entries[p]) > 1
    /\ entries' = [entries EXCEPT ![p] = Tail(@)]
    /\ UNCHANGED <<links, order, firstLeaf, lastLeaf, unlink, leaf>>

(* The place of a leaf in the list.                                        *)
PlaceOf(p) == CHOOSE i \in DOMAIN order : order[i] = p

(* split                                                                   *)
Split(p, new) ==
    LET n == nextLeaf[p]
        half == Len(entries[p]) \div 2
        at == PlaceOf(p)
    IN  /\ unlink = "idle" /\ p \in Range(order) /\ new \notin Range(order)
        /\ Len(entries[p]) = Capacity
        /\ nextLeaf' = [nextLeaf EXCEPT ![p] = new, ![new] = n]
        /\ prevLeaf' = [prevLeaf EXCEPT ![new] = p, ![n] = new]
        /\ entries' = [entries EXCEPT ![p] = SubSeq(@, 1, half),
                                      ![new] = SubSeq(entries[p], half + 1, Capacity)]
        /\ order' = SubSeq(order, 1, at) \o <<new>> \o SubSeq(order, at + 1, Len(order))
        /\ lastLeaf' = IF lastLeaf = p THEN new ELSE lastLeaf
        /\ UNCHANGED <<firstLeaf, unlink, leaf>>

-----------------------------------------------------------------------------
(* coalesce: a leaf that fits into its left neighbour.                     *)
Coalesce(p) ==
    LET l == prevLeaf[p]
    IN  /\ unlink = "idle" /\ p \in Range(order) /\ p # firstLeaf
        /\ Len(entries[l]) + Len(entries[p]) <= Capacity
        /\ entries' = [entries EXCEPT ![l] = @ \o entries[p], ![p] = <<>>]
        /\ unlink' = "prev" /\ leaf' = p
        /\ UNCHANGED <<links, order, firstLeaf, lastLeaf>>

(* unlink_leaf, first block: the link of the leaf before.                  *)
UnlinkPrev ==
    /\ unlink = "prev" /\ unlink' = "next"
    /\ nextLeaf' = [nextLeaf EXCEPT ![prevLeaf[leaf]] = nextLeaf[leaf]]
    /\ UNCHANGED <<prevLeaf, entries, order, firstLeaf, lastLeaf, leaf>>

(* Second block, and the rest of coalesce: the page is deleted.            *)
UnlinkNext ==
    /\ unlink = "next" /\ unlink' = "idle" /\ leaf' = None
    /\ nextLeaf' = [nextLeaf EXCEPT ![leaf] = None]
    /\ prevLeaf' = [prevLeaf EXCEPT ![nextLeaf[leaf]] = prevLeaf[leaf], ![leaf] = None]
    /\ order' = SubSeq(order, 1, PlaceOf(leaf) - 1) \o SubSeq(order, PlaceOf(leaf) + 1, Len(order))
    /\ lastLeaf' = IF lastLeaf = leaf THEN prevLeaf[leaf] ELSE lastLeaf
    /\ UNCHANGED <<entries, firstLeaf>>

(* fetch_node fails: every frame of the buffer pool is pinned.             *)
FetchPrevFails ==
    /\ unlink = "prev" /\ unlink' = "failed"
    /\ UNCHANGED <<links, entries, order, firstLeaf, lastLeaf, leaf>>

(* Mutant: the first link is not put back.                                 *)
FetchNextFailsKeeps ==
    /\ unlink = "next" /\ unlink' = "failed"
    /\ UNCHANGED <<links, entries, order, firstLeaf, lastLeaf, leaf>>

(* The rollback: the leaf before is fetched once more.                     *)
FetchNextFails ==
    /\ unlink = "next" /\ unlink' = "failed"
    /\ nextLeaf' = [nextLeaf EXCEPT ![prevLeaf[leaf]] = leaf]
    /\ UNCHANGED <<prevLeaf, entries, order, firstLeaf, lastLeaf, leaf>>

(* And that fails too: the exception says "rolled back" all the same.      *)
RollbackFails ==
    /\ unlink = "next" /\ unlink' = "broken"
    /\ UNCHANGED <<links, entries, order, firstLeaf, lastLeaf, leaf>>

ChainNext ==
    \/ \E p \in Pages : InsertEntry(p) \/ DeleteEntry(p) \/ Coalesce(p) \/ (\E new \in Pages : Split(p, new))
    \/ UnlinkPrev \/ UnlinkNext \/ FetchPrevFails \/ FetchNextFails \/ RollbackFails

ChainSpec == ChainInit /\ [][ChainNext]_chainVars

-----------------------------------------------------------------------------
(* IndexScan::next; BPlusTree::leaf_begin and leaf_end.                    *)
LeafBegin == [page |-> firstLeaf, slot |-> 0]
LeafEnd == [page |-> lastLeaf, slot |-> Len(entries[lastLeaf])]

ScanNext(pos) ==
    LET size == Len(entries[pos.page])
    IN  IF pos.page # lastLeaf /\ pos.slot + 1 = size
        THEN [page |-> nextLeaf[pos.page], slot |-> 0]
        ELSE [pos EXCEPT !.slot = @ + 1]

-----------------------------------------------------------------------------
(* Types of the links and entries; the file header names a first and a     *)
(* last leaf that are in the tree, between any two steps of unlink_leaf.   *)
ChainTypeOK ==
    /\ nextLeaf \in [Nodes -> Nodes \cup {None}] /\ prevLeaf \in [Nodes -> Nodes \cup {None}]
    /\ \A p \in Pages : Len(entries[p]) <= Capacity
    /\ order # <<>> /\ Range(order) \subseteq Pages
    /\ firstLeaf \in Range(order) /\ lastLeaf \in Range(order)
    /\ unlink \in {"idle", "prev", "next", "failed", "broken"} /\ leaf \in Pages \cup {None}

(* The list is a ring through the sentinel with the leaves in order, the   *)
(* same in both directions.                                                *)
Ring ==
    LET ring == <<Sentinel>> \o order
        n == Len(ring)
    IN  \A i \in 1..n :
            /\ nextLeaf[ring[i]] = ring[(i % n) + 1]
            /\ prevLeaf[ring[(i % n) + 1]] = ring[i]

(* Slot k of the i-th leaf, as IndexScan points to it.                     *)
Slot(i, k) == [page |-> order[i], slot |-> k]

(* When unlink_leaf has returned, or thrown after one failed fetch, the    *)
(* ring is intact: it is not left cut in one direction.  A scan from       *)
(* leaf_begin to leaf_end then reads every entry of every leaf once, in    *)
(* key order, and stops.                                                   *)
(* The variables also keep their types (ChainTypeOK).                      *)
ScanVisitsAll ==
    /\ ChainTypeOK
    /\ unlink \in {"idle", "failed"} => Ring
    /\ unlink = "idle" /\ (\A p \in Range(order) : entries[p] # <<>>) =>
        /\ LeafBegin = Slot(1, 0)
        /\ \A i \in DOMAIN order : \A k \in 0..(Len(entries[order[i]]) - 1) :
            /\ Slot(i, k) # LeafEnd
            /\ ScanNext(Slot(i, k)) =
                  IF k + 1 < Len(entries[order[i]]) THEN Slot(i, k + 1)
                  ELSE IF i < Len(order) THEN Slot(i + 1, 0)
                  ELSE LeafEnd
=============================================================================
