------------------------------ MODULE TreeKeys -----------------------------
(***************************************************************************)
(* The keys of the inner nodes of a B+-tree and the parent pointers:       *)
(* BPlusTree::update_ancestor_keys and update_child_parent                 *)
(* (index/b_plus_tree.cpp), which give up without a word when fetch_node   *)
(* fails because every frame of the buffer pool is pinned.                 *)
(*                                                                         *)
(* A tree of three levels: the root, inner nodes, leaves.  An inner node   *)
(* holds pairs [key, child].  insert_entry, delete_entry, the lookup and   *)
(* redistribute are exercises; their comments say what they do here.  A    *)
(* leaf keeps room and is never emptied: no node is split or merged.       *)
(***************************************************************************)
EXTENDS Integers, Sequences, FiniteSets

CONSTANTS
    Keys,            \* keys, as sequences of column values
    FirstKids,       \* per inner node, its first children
    FirstLeaves,     \* per leaf, the set of its first keys
    TreeRoot, NoNode,
    LeafRoom,        \* the keys a leaf has room for
    MaxFetchFails    \* bound on failing fetches

VARIABLES
    kids,       \* per inner node: its [key, child] pairs
    leafKeys,   \* per leaf: its keys
    parent,     \* parent_page of every node but the root
    current,    \* update_ancestor_keys: current_page, or NoNode
    fails,      \* fetches of update_ancestor_keys that failed
    orphan      \* a fetch of update_child_parent failed

treeVars == <<kids, leafKeys, parent, current, fails, orphan>>

Inner == DOMAIN FirstKids
Leaves == DOMAIN FirstLeaves

TreeInit ==
    /\ kids = FirstKids /\ leafKeys = FirstLeaves
    /\ parent = [n \in (Inner \cup Leaves) \ {TreeRoot} |->
                    CHOOSE p \in Inner : \E i \in DOMAIN FirstKids[p] : FirstKids[p][i].child = n]
    /\ current = NoNode /\ fails = 0 /\ orphan = FALSE

-----------------------------------------------------------------------------
(* compare_index_key: the first column that differs decides.               *)
Less(a, b) ==
    \E i \in DOMAIN a : a[i] < b[i] /\ \A k \in 1..(i - 1) : a[k] = b[k]

FirstOf(ks) == CHOOSE k \in ks : \A l \in ks : k = l \/ Less(k, l)
FirstKey(n) == IF n \in Leaves THEN FirstOf(leafKeys[n]) ELSE kids[n][1].key

(* The first tree: inner node m of the root's children, and leaf a before  *)
(* leaf b.                                                                 *)
Middle(m) == FirstKids[TreeRoot][m].child
Before(a, b) ==
    \E m, n \in DOMAIN FirstKids[TreeRoot] :
        \E i \in DOMAIN FirstKids[Middle(m)], k \in DOMAIN FirstKids[Middle(n)] :
            /\ a = FirstKids[Middle(m)][i].child /\ b = FirstKids[Middle(n)][k].child
            /\ m < n \/ (m = n /\ i < k)

(* Keys have the same columns.  The tree has three levels, every node but  *)
(* the root is a child at one place, the leaves are in order, and a key    *)
(* is the first of its child.                                              *)
ASSUME TreeConstants ==
    /\ Keys \subseteq Seq(Int) /\ \A a, b \in Keys : Len(a) = Len(b)
    /\ TreeRoot \in Inner /\ Inner \cap Leaves = {} /\ NoNode \notin Inner \cup Leaves
    /\ FirstKids \in [Inner -> Seq([key : Keys, child : (Inner \cup Leaves) \ {TreeRoot}])]
    /\ FirstLeaves \in [Leaves -> SUBSET Keys]
    /\ \A n \in Inner : FirstKids[n] # <<>>
    /\ \A n \in Inner : \A i \in DOMAIN FirstKids[n] :
          /\ FirstKids[n][i].child \in Inner <=> n = TreeRoot
          /\ \A p \in Inner : \A k \in DOMAIN FirstKids[p] :
                FirstKids[n][i].child = FirstKids[p][k].child => n = p /\ i = k
    /\ \A c \in (Inner \cup Leaves) \ {TreeRoot} :
          \E n \in Inner : \E i \in DOMAIN FirstKids[n] : FirstKids[n][i].child = c
    /\ \A l \in Leaves : FirstLeaves[l] # {} /\ IsFiniteSet(FirstLeaves[l])
    /\ \A a, b \in Leaves : Before(a, b) =>
          \A x \in FirstLeaves[a], y \in FirstLeaves[b] : Less(x, y)
    /\ \A n \in Inner : \A i \in DOMAIN FirstKids[n] :
          FirstKids[n][i].key = LET c == FirstKids[n][i].child
                                IN  IF c \in Leaves THEN FirstOf(FirstLeaves[c]) ELSE FirstKids[c][1].key
    /\ LeafRoom \in Nat /\ MaxFetchFails \in Nat

(* internal_lookup: the last child whose key is not greater, or the first. *)
ChildFor(n, k) ==
    LET le == {i \in DOMAIN kids[n] : ~Less(k, kids[n][i].key)}
    IN  kids[n][IF le = {} THEN 1 ELSE CHOOSE i \in le : \A j \in le : j <= i].child
LeafFor(k) == ChildFor(ChildFor(TreeRoot, k), k)

(* insert_entry and delete_entry, which end in update_ancestor_keys.       *)
InsertKey(k) ==
    LET leaf == LeafFor(k)
    IN  /\ current = NoNode /\ \A l \in Leaves : k \notin leafKeys[l]
        /\ Cardinality(leafKeys[leaf]) < LeafRoom
        /\ leafKeys' = [leafKeys EXCEPT ![leaf] = @ \cup {k}]
        /\ current' = leaf
        /\ UNCHANGED <<kids, parent, fails, orphan>>

DeleteKey(k) ==
    LET leaf == LeafFor(k)
    IN  /\ current = NoNode /\ k \in leafKeys[leaf] /\ Cardinality(leafKeys[leaf]) > 1
        /\ leafKeys' = [leafKeys EXCEPT ![leaf] = @ \ {k}]
        /\ current' = leaf
        /\ UNCHANGED <<kids, parent, fails, orphan>>

-----------------------------------------------------------------------------
(* find_child: past the end when the node is no child of its parent, which *)
(* an assertion excludes.                                                  *)
FindChild(p, n) ==
    IF \E i \in DOMAIN kids[p] : kids[p][i].child = n
    THEN CHOOSE i \in DOMAIN kids[p] : kids[p][i].child = n
    ELSE Len(kids[p]) + 1

AtRoot == current = TreeRoot
Rank == FindChild(parent[current], current)
KeyIsRight == kids[parent[current]][Rank].key = FirstKey(current)

(* Mutant: only the parent of the leaf is brought up to date.              *)
UpdateOneKey ==
    /\ current # NoNode /\ ~AtRoot /\ Rank \in DOMAIN kids[parent[current]] /\ ~KeyIsRight
    /\ kids' = [kids EXCEPT ![parent[current]][Rank].key = FirstKey(current)]
    /\ current' = NoNode
    /\ UNCHANGED <<leafKeys, parent, fails, orphan>>

(* One round of the loop of update_ancestor_keys.                          *)
UpdateKey ==
    /\ current # NoNode /\ ~AtRoot /\ Rank \in DOMAIN kids[parent[current]] /\ ~KeyIsRight
    /\ kids' = [kids EXCEPT ![parent[current]][Rank].key = FirstKey(current)]
    /\ current' = parent[current]
    /\ UNCHANGED <<leafKeys, parent, fails, orphan>>

(* It ends at the root, or where the key is right already.                 *)
UpdateEnds ==
    /\ current # NoNode
    /\ ~AtRoot => Rank \in DOMAIN kids[parent[current]] /\ KeyIsRight
    /\ current' = NoNode
    /\ UNCHANGED <<kids, leafKeys, parent, fails, orphan>>

(* Or where fetch_node fails.                                              *)
UpdateGivesUp ==
    /\ current # NoNode /\ fails < MaxFetchFails
    /\ current' = NoNode /\ fails' = fails + 1
    /\ UNCHANGED <<kids, leafKeys, parent, orphan>>

(* update_child_parent, which does nothing when fetch_node fails.          *)
UpdateChildParent(child, p) ==
    \/ parent' = [parent EXCEPT ![child] = p] /\ UNCHANGED orphan
    \/ orphan' = TRUE /\ UNCHANGED parent

(* redistribute between two inner nodes, in the root's places i and i + 1. *)
(* The key of the right one in the root is set, and the parent of the      *)
(* moved child.                                                            *)
Redistribute(i, toRight) ==
    LET l == kids[TreeRoot][i].child
        r == kids[TreeRoot][i + 1].child
        from == IF toRight THEN l ELSE r
        pair == IF toRight THEN kids[l][Len(kids[l])] ELSE kids[r][1]
        newL == IF toRight THEN SubSeq(kids[l], 1, Len(kids[l]) - 1) ELSE Append(kids[l], pair)
        newR == IF toRight THEN <<pair>> \o kids[r] ELSE Tail(kids[r])
    IN  /\ current = NoNode /\ Len(kids[from]) > 1
        /\ kids' = [kids EXCEPT ![l] = newL, ![r] = newR, ![TreeRoot][i + 1].key = newR[1].key]
        /\ UpdateChildParent(pair.child, IF toRight THEN r ELSE l)
        /\ UNCHANGED <<leafKeys, current, fails>>

TreeNext ==
    \/ \E k \in Keys : InsertKey(k) \/ DeleteKey(k)
    \/ UpdateKey \/ UpdateEnds \/ UpdateGivesUp
    \/ \E i \in 1..(Len(kids[TreeRoot]) - 1), toRight \in BOOLEAN : Redistribute(i, toRight)

TreeSpec == TreeInit /\ [][TreeNext]_treeVars

-----------------------------------------------------------------------------
(* The variables have their types.                                         *)
TreeTypeOK ==
    /\ \A n \in Inner : kids[n] # <<>> /\ \A i \in DOMAIN kids[n] : kids[n][i].key \in Keys
    /\ \A l \in Leaves : leafKeys[l] # {} /\ leafKeys[l] \subseteq Keys
    /\ current \in Inner \cup Leaves \cup {NoNode} /\ fails \in 0..MaxFetchFails

(* Every key of an inner node is the first key of its child, and the       *)
(* child's parent pointer leads back.                                      *)
KeysExact ==
    \A n \in Inner : \A i \in DOMAIN kids[n] :
        /\ kids[n][i].key = FirstKey(kids[n][i].child)
        /\ parent[kids[n][i].child] = n

(* Once update_ancestor_keys is done the keys of the inner nodes are       *)
(* exact: it may stop at the first key that is right.  Where one fetch has *)
(* failed they need not be, but a lookup still leads to the leaf that has  *)
(* the key, and find_child finds the child its assertion promises.         *)
(* The variables also keep their types (TreeTypeOK).                       *)
KeysLeadToEntries ==
    /\ TreeTypeOK
    /\ ~orphan /\ current # NoNode /\ ~AtRoot => Rank \in DOMAIN kids[parent[current]]
    /\ current = NoNode /\ fails = 0 /\ ~orphan => KeysExact
    /\ fails <= 1 => \A l \in Leaves : \A k \in leafKeys[l] : LeafFor(k) = l
=============================================================================
