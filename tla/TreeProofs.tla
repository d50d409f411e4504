----------------------------- MODULE TreeProofs -----------------------------
(***************************************************************************)
(* Proofs about the keys of a B+-tree, for any tree of three levels, any   *)
(* keys and any number of failing fetches.                                 *)
(***************************************************************************)
EXTENDS TreeOrderProofs

(* A tree with exact keys is sorted when its leaves are.                   *)
LEMMA ExactSorted ==
    ASSUME NEW ks, NEW lk, ShapeOK(ks), LeavesOK(lk), Exact(ks, lk, NoNode), LeavesSorted(lk)
    PROVE  Sorted(ks, lk, NoNode)
<1>1. ASSUME NEW m \in Middles, NEW i \in 1..Width(ks, m)
      PROVE  /\ AboveEarlier(lk, KeyAt(ks, m, i), ChildAt(ks, m, i))
             /\ NotAbove(lk, KeyAt(ks, m, i), ChildAt(ks, m, i))
  <2> DEFINE l == ChildAt(ks, m, i)
  <2>1. l \in Leaves /\ l # NoNode
    BY Nodes, Zenon DEF ShapeOK
  <2>2. lk[l] \in SUBSET Keys /\ lk[l] # {} /\ IsFiniteSet(lk[l])
    BY <2>1, Zenon DEF LeavesOK
  <2>3. FirstOf(lk[l]) \in lk[l] /\ \A x \in lk[l] : ~Less(x, FirstOf(lk[l]))
    BY <2>2, FirstOfKeys, Zenon
  <2>4. KeyAt(ks, m, i) = FirstOf(lk[l])
    BY <2>1, Zenon DEF Exact
  <2> HIDE DEF l
  <2>5. AboveEarlier(lk, FirstOf(lk[l]), l) /\ NotAbove(lk, FirstOf(lk[l]), l)
    BY <2>1, <2>3, Zenon DEF LeavesSorted, AboveEarlier, NotAbove
  <2> QED BY <2>4, <2>5, Zenon DEF l
<1>2. ASSUME NEW m \in Middles
      PROVE  /\ AboveEarlier(lk, RootKey(ks, m), ChildAt(ks, m, 1))
             /\ NotAbove(lk, RootKey(ks, m), ChildAt(ks, m, 1))
             /\ ~Less(KeyAt(ks, m, 1), RootKey(ks, m))
  <2>1. 1 \in 1..Width(ks, m) /\ KeyAt(ks, m, 1) \in Keys
    BY DEF ShapeOK
  <2>2. RootKey(ks, m) = KeyAt(ks, m, 1)
    <3>1. Middle(m) # NoNode
      BY FirstTree, Nodes, Zenon
    <3> QED BY <3>1, Zenon DEF Exact
  <2>3. ~Less(KeyAt(ks, m, 1), KeyAt(ks, m, 1))
    BY <2>1, KeyOrder, Zenon
  <2> QED BY <1>1, <2>1, <2>2, <2>3, Zenon
<1> QED BY <1>1, <1>2, Zenon DEF Sorted, InnerSorted, RootSorted

(* The first tree.                                                         *)
LEMMA TreeStarts == TreeInit => TreeInv
<1> SUFFICES ASSUME TreeInit PROVE TreeInv
  BY Zenon
<1>1. /\ TreeRoot \in Inner /\ Inner \cap Leaves = {} /\ NoNode \notin Inner \cup Leaves
      /\ FirstKids \in [Inner -> Seq(AnyPair)] /\ MaxFetchFails \in Nat
      /\ \A n \in Inner : FirstKids[n] # <<>>
  BY TreeConstants, Zenon DEF AnyPair
<1>2. \A n \in Inner : \A i \in DOMAIN FirstKids[n] : FirstKids[n][i].child \in Inner <=> n = TreeRoot
  BY TreeConstants, Zenon
<1>3. \A n, p \in Inner : \A i \in DOMAIN FirstKids[n], k \in DOMAIN FirstKids[p] :
        FirstKids[n][i].child = FirstKids[p][k].child => n = p /\ i = k
  BY TreeConstants
<1>4. \A c \in (Inner \cup Leaves) \ {TreeRoot} :
        \E n \in Inner : \E i \in DOMAIN FirstKids[n] : FirstKids[n][i].child = c
  BY TreeConstants, Zenon
<1>5. \A n \in Inner : \A i \in DOMAIN FirstKids[n] :
          FirstKids[n][i].key = LET c == FirstKids[n][i].child
                                IN  IF c \in Leaves THEN FirstOf(FirstLeaves[c]) ELSE FirstKids[c][1].key
  BY TreeConstants, Zenon
<1>6. \A n \in Inner : /\ Len(FirstKids[n]) \in Nat \ {0} /\ DOMAIN FirstKids[n] = 1..Len(FirstKids[n])
                       /\ FirstKids[n] \in Seq(AnyPair)
  BY <1>1
<1>7. DOMAIN FirstKids[TreeRoot] = Middles
  BY <1>1, <1>6, Zenon DEF Middles
<1>8. \A m \in Middles : Middle(m) \in Inner /\ Middle(m) # TreeRoot /\ DOMAIN FirstKids[Middle(m)] = 1..Width(FirstKids, m)
  BY <1>6, FirstTree, Zenon DEF Width
<1>9. KidsOK(FirstKids)
  BY <1>1, Zenon DEF KidsOK, Middle
<1>10. \A n \in Inner : \A i \in DOMAIN FirstKids[n] :
         FirstKids[n][i].key \in Keys /\ FirstKids[n][i].child \in (Inner \cup Leaves) \ {TreeRoot}
  <2> SUFFICES ASSUME NEW n \in Inner, NEW i \in DOMAIN FirstKids[n]
               PROVE  FirstKids[n][i].key \in Keys /\ FirstKids[n][i].child \in (Inner \cup Leaves) \ {TreeRoot}
    BY Zenon
  <2>1. FirstKids[n][i] \in AnyPair
    BY <1>6, ItemSeq, Zenon
  <2> QED BY <2>1, Zenon DEF AnyPair
<1>11. ShapeOK(FirstKids)
  <2>1. \A m \in Middles : Width(FirstKids, m) \in Nat \ {0} /\ RootKey(FirstKids, m) \in Keys
    BY <1>1, <1>6, <1>7, <1>8, <1>10 DEF Width, RootKey
  <2>2. \A m \in Middles : \A i \in 1..Width(FirstKids, m) :
          KeyAt(FirstKids, m, i) \in Keys /\ ChildAt(FirstKids, m, i) \in Leaves
    BY <1>2, <1>8, <1>10, Zenon DEF KeyAt, ChildAt
  <2>3. ASSUME NEW l \in Leaves
        PROVE  \E m \in Middles : \E i \in 1..Width(FirstKids, m) : ChildAt(FirstKids, m, i) = l
    <3>1. l \notin Inner /\ l # TreeRoot
      BY <1>1, Zenon
    <3>2. PICK n \in Inner : \E i \in DOMAIN FirstKids[n] : FirstKids[n][i].child = l
      BY <1>4, <3>1, Zenon
    <3>3. PICK i \in DOMAIN FirstKids[n] : FirstKids[n][i].child = l
      BY <3>2, Zenon
    <3>4. n # TreeRoot
      BY <1>2, <3>1, <3>3
    <3>5. PICK m \in Middles : n = Middle(m)
      BY <3>4, FirstTree, Zenon
    <3> QED BY <1>8, <3>3, <3>5, Zenon DEF ChildAt
  <2>4. ASSUME NEW m \in Middles, NEW n \in Middles,
               NEW i \in 1..Width(FirstKids, m), NEW k \in 1..Width(FirstKids, n), m < n \/ (m = n /\ i < k)
        PROVE  Before(ChildAt(FirstKids, m, i), ChildAt(FirstKids, n, k))
    <3>1. m \in DOMAIN FirstKids[TreeRoot] /\ n \in DOMAIN FirstKids[TreeRoot]
      BY <1>7, Zenon
    <3>2. i \in DOMAIN FirstKids[Middle(m)] /\ k \in DOMAIN FirstKids[Middle(n)]
      BY <1>8, Zenon
    <3> QED BY <2>4, <3>1, <3>2, Zenon DEF Before, ChildAt
  <2> QED BY <2>1, <2>2, <2>3, <2>4 DEF ShapeOK
<1>12. LeavesOK(FirstLeaves) /\ LeavesSorted(FirstLeaves)
  BY TreeConstants, Zenon DEF LeavesOK, LeavesSorted
<1>13. Exact(FirstKids, FirstLeaves, NoNode)
  <2>1. \A m \in Middles : RootKey(FirstKids, m) = KeyAt(FirstKids, m, 1)
    BY <1>1, <1>5, <1>7, FirstTree DEF RootKey, KeyAt, Middle
  <2>2. \A m \in Middles : \A i \in 1..Width(FirstKids, m) :
          KeyAt(FirstKids, m, i) = FirstOf(FirstLeaves[ChildAt(FirstKids, m, i)])
    <3>1. \A m \in Middles : \A i \in 1..Width(FirstKids, m) : FirstKids[Middle(m)][i].child \in Leaves
      BY <1>11, Zenon DEF ShapeOK, ChildAt
    <3> SUFFICES ASSUME NEW m \in Middles, NEW i \in 1..Width(FirstKids, m)
                 PROVE  FirstKids[Middle(m)][i].key = FirstOf(FirstLeaves[FirstKids[Middle(m)][i].child])
      BY Zenon DEF KeyAt, ChildAt
    <3>2. Middle(m) \in Inner /\ i \in DOMAIN FirstKids[Middle(m)]
      BY <1>8, Zenon
    <3> QED BY <1>5, <3>1, <3>2, Zenon
  <2> QED BY <2>1, <2>2, Zenon DEF Exact
<1>14. Sorted(FirstKids, FirstLeaves, NoNode)
  BY <1>11, <1>12, <1>13, ExactSorted, Zenon
<1>15. ParentsOK(parent, FirstKids, FALSE)
  <2>1. parent = [n \in (Inner \cup Leaves) \ {TreeRoot} |->
                    CHOOSE p \in Inner : \E i \in DOMAIN FirstKids[p] : FirstKids[p][i].child = n]
    BY Zenon DEF TreeInit
  <2>2. ASSUME NEW p \in Inner, NEW i \in DOMAIN FirstKids[p]
        PROVE  parent[FirstKids[p][i].child] = p
    <3> DEFINE n == FirstKids[p][i].child
    <3>1. n \in (Inner \cup Leaves) \ {TreeRoot}
      BY <1>10, Zenon
    <3>2. \A q \in Inner : (\E j \in DOMAIN FirstKids[q] : FirstKids[q][j].child = n) <=> q = p
      BY <1>3, Zenon
    <3> HIDE DEF n
    <3>3. (CHOOSE q \in Inner : \E j \in DOMAIN FirstKids[q] : FirstKids[q][j].child = n) = p
      BY <3>2, Zenon
    <3> QED BY <2>1, <3>1, <3>3, Zenon DEF n
  <2>3. ASSUME NEW c \in (Inner \cup Leaves) \ {TreeRoot}
        PROVE  parent[c] \in Inner /\ (c \in Leaves => parent[c] # TreeRoot)
    <3>1. PICK p \in Inner : \E i \in DOMAIN FirstKids[p] : FirstKids[p][i].child = c
      BY <1>4, Zenon
    <3>2. PICK i \in DOMAIN FirstKids[p] : FirstKids[p][i].child = c
      BY <3>1, Zenon
    <3>3. parent[c] = p
      BY <2>2, <3>2, Zenon
    <3> QED BY <1>1, <1>2, <3>2, <3>3
  <2>4. parent \in [(Inner \cup Leaves) \ {TreeRoot} -> Inner]
    BY <2>1, <2>3, Zenon
  <2>5. \A m \in Middles : parent[Middle(m)] = TreeRoot
    BY <1>1, <1>7, <2>2 DEF Middle
  <2>6. \A l \in Leaves : parent[l] # TreeRoot
    BY <1>1, <2>3, Zenon
  <2>7. \A m \in Middles : \A i \in 1..Width(FirstKids, m) : parent[ChildAt(FirstKids, m, i)] = Middle(m)
    BY <1>8, <2>2, Zenon DEF ChildAt
  <2> QED BY <2>4, <2>5, <2>6, <2>7, Zenon DEF ParentsOK
<1>16. /\ kids = FirstKids /\ leafKeys = FirstLeaves /\ current = NoNode /\ fails = 0 /\ orphan = FALSE
  BY Zenon DEF TreeInit
<1>17. Late(current, fails) = NoNode /\ fails \in 0..MaxFetchFails /\ orphan \in BOOLEAN
  <2>1. fails \in 0..MaxFetchFails
    BY <1>1, <1>16
  <2>2. orphan \in BOOLEAN /\ Late(current, fails) = NoNode
    BY <1>16, Zenon DEF Late
  <2> QED BY <2>1, <2>2, Zenon
<1>18. ParentsOK(parent, kids, orphan)
  BY <1>15, <1>16, Zenon
<1>19. KidsOK(kids) /\ ShapeOK(kids) /\ LeavesOK(leafKeys)
  BY <1>9, <1>11, <1>12, <1>16, Zenon
<1>20. Exact(kids, leafKeys, current) /\ Sorted(kids, leafKeys, Late(current, fails))
  BY <1>13, <1>14, <1>16, <1>17, Zenon
<1> QED BY <1>16, <1>17, <1>18, <1>19, <1>20 DEF TreeInv

(* insert_entry.                                                           *)
LEMMA InsertKeeps ==
    ASSUME TreeInv, NEW k \in Keys, InsertKey(k)
    PROVE  TreeInv'
<1>1. /\ KidsOK(kids) /\ ShapeOK(kids) /\ LeavesOK(leafKeys) /\ ParentsOK(parent, kids, orphan)
      /\ fails \in 0..MaxFetchFails /\ orphan \in BOOLEAN /\ MaxFetchFails \in Nat
      /\ fails = 0 => Exact(kids, leafKeys, current)
      /\ fails <= 1 => Sorted(kids, leafKeys, Late(current, fails))
  BY TreeConstants, Zenon DEF TreeInv
<1>2. PICK m \in Middles : \E i \in 1..Width(kids, m) :
               LeafFor(k) = ChildAt(kids, m, i) /\ RoutedTo(k, m, i)
  BY <1>1, Lookup, Zenon
<1>3. PICK i \in 1..Width(kids, m) : LeafFor(k) = ChildAt(kids, m, i) /\ RoutedTo(k, m, i)
  BY <1>2, Zenon
<1> DEFINE l == ChildAt(kids, m, i)
<1>4. l \in Leaves
  BY <1>1, Zenon DEF ShapeOK
<1>5. /\ current = NoNode /\ current' = l /\ leafKeys' = [leafKeys EXCEPT ![l] = @ \cup {k}]
      /\ kids' = kids /\ parent' = parent /\ fails' = fails /\ orphan' = orphan
  BY <1>3, Zenon DEF InsertKey
<1>6. LeavesOK(leafKeys')
  <2>1. IsFiniteSet(leafKeys[l] \cup {k})
    BY <1>1, <1>4, FS_AddElement, Zenon DEF LeavesOK
  <2>2. \A a \in Leaves : leafKeys'[a] = IF a = l THEN leafKeys[l] \cup {k} ELSE leafKeys[a]
    BY <1>1, <1>4, <1>5, Zenon DEF LeavesOK
  <2>3. leafKeys' \in [Leaves -> SUBSET Keys] /\ \A a \in Leaves : leafKeys'[a] # {}
    <3> HIDE DEF l
    <3> QED BY <1>1, <1>4, <1>5 DEF LeavesOK
  <2>4. \A a \in Leaves : IsFiniteSet(leafKeys'[a])
    BY <1>1, <2>1, <2>2, Zenon DEF LeavesOK
  <2> QED BY <2>3, <2>4, Zenon DEF LeavesOK
<1>7. fails = 0 => Exact(kids, leafKeys', l)
  <2> SUFFICES ASSUME fails = 0 PROVE Exact(kids, leafKeys', l)
    BY Zenon
  <2>1. \A n \in Middles : Middle(n) # NoNode /\ Middle(n) # l
    BY <1>4, FirstTree, Nodes
  <2>2. \A n \in Middles : RootKey(kids, n) = KeyAt(kids, n, 1)
    BY <1>1, <1>5, <2>1, Zenon DEF Exact
  <2>3. \A n \in Middles : \A j \in 1..Width(kids, n) : ChildAt(kids, n, j) # NoNode /\ ChildAt(kids, n, j) \in Leaves
    BY <1>1, Nodes, Zenon DEF ShapeOK
  <2>4. \A a \in Leaves : a # l => leafKeys'[a] = leafKeys[a]
    BY <1>1, <1>4, <1>5, Zenon DEF LeavesOK
  <2>5. \A n \in Middles : \A j \in 1..Width(kids, n) :
          ChildAt(kids, n, j) # l => KeyAt(kids, n, j) = FirstOf(leafKeys'[ChildAt(kids, n, j)])
    BY <1>1, <1>5, <2>3, <2>4 DEF Exact
  <2> QED BY <2>2, <2>5, Zenon DEF Exact
<1>8. fails <= 1 => Sorted(kids, leafKeys', Late(l, fails))
  <2> SUFFICES ASSUME fails <= 1 PROVE Sorted(kids, leafKeys', Late(l, fails))
    BY Zenon
  <2>1. Sorted(kids, leafKeys, NoNode)
    BY <1>1, <1>5, Zenon DEF Late
  <2>2. RootKey(kids, m) = KeyAt(kids, m, 1) \/ Late(l, fails) = l
    <3>1. Middle(m) # NoNode
      BY FirstTree, Nodes, Zenon
    <3> QED BY <1>1, <1>5, <3>1, Zenon DEF Exact, Late
  <2> QED BY <1>1, <1>3, <1>5, <2>1, <2>2, InsertSorted, Zenon
<1> QED BY <1>1, <1>4, <1>5, <1>6, <1>7, <1>8, Zenon DEF TreeInv

(* delete_entry.                                                           *)
LEMMA DeleteKeeps ==
    ASSUME TreeInv, NEW k \in Keys, DeleteKey(k)
    PROVE  TreeInv'
<1>1. /\ KidsOK(kids) /\ ShapeOK(kids) /\ LeavesOK(leafKeys) /\ ParentsOK(parent, kids, orphan)
      /\ fails \in 0..MaxFetchFails /\ orphan \in BOOLEAN /\ MaxFetchFails \in Nat
      /\ fails = 0 => Exact(kids, leafKeys, current)
      /\ fails <= 1 => Sorted(kids, leafKeys, Late(current, fails))
  BY TreeConstants, Zenon DEF TreeInv
<1> DEFINE l == LeafFor(k)
<1>2. l \in Leaves
  <2>1. PICK m \in Middles : \E i \in 1..Width(kids, m) : l = ChildAt(kids, m, i)
    BY <1>1, Lookup, Zenon
  <2> QED BY <1>1, <2>1 DEF ShapeOK
<1>3. /\ current = NoNode /\ current' = l /\ leafKeys' = [leafKeys EXCEPT ![l] = @ \ {k}]
      /\ k \in leafKeys[l] /\ Cardinality(leafKeys[l]) > 1
      /\ kids' = kids /\ parent' = parent /\ fails' = fails /\ orphan' = orphan
  BY Zenon DEF DeleteKey
<1> HIDE DEF l
<1>4. \A a \in Leaves : leafKeys'[a] = IF a = l THEN leafKeys[l] \ {k} ELSE leafKeys[a]
  BY <1>1, <1>2, <1>3, Zenon DEF LeavesOK
<1>5. LeavesOK(leafKeys')
  <2>1. leafKeys[l] \subseteq Keys /\ IsFiniteSet(leafKeys[l])
    BY <1>1, <1>2, Zenon DEF LeavesOK
  <2>2. IsFiniteSet(leafKeys[l] \ {k}) /\ Cardinality(leafKeys[l] \ {k}) = Cardinality(leafKeys[l]) - 1
    BY <1>3, <2>1, FS_RemoveElement, Zenon
  <2>3. Cardinality(leafKeys[l]) \in Nat
    BY <2>1, FS_CardinalityType, Zenon
  <2>4. leafKeys[l] \ {k} # {}
    <3>1. Cardinality(leafKeys[l] \ {k}) # 0
      BY <1>3, <2>2, <2>3
    <3> QED BY <3>1, FS_EmptySet, Zenon
  <2>5. leafKeys' \in [Leaves -> SUBSET Keys]
    BY <1>1, <1>2, <1>3, Zenon DEF LeavesOK
  <2>6. \A a \in Leaves : leafKeys'[a] # {} /\ IsFiniteSet(leafKeys'[a])
    BY <1>1, <1>4, <2>2, <2>4, Zenon DEF LeavesOK
  <2> QED BY <2>5, <2>6, Zenon DEF LeavesOK
<1>6. fails = 0 => Exact(kids, leafKeys', l)
  <2> SUFFICES ASSUME fails = 0 PROVE Exact(kids, leafKeys', l)
    BY Zenon
  <2>1. \A n \in Middles : Middle(n) # NoNode
    BY FirstTree, Nodes
  <2>2. \A n \in Middles : RootKey(kids, n) = KeyAt(kids, n, 1)
    BY <1>1, <1>3, <2>1, Zenon DEF Exact
  <2>3. \A n \in Middles : \A j \in 1..Width(kids, n) : ChildAt(kids, n, j) # NoNode /\ ChildAt(kids, n, j) \in Leaves
    BY <1>1, Nodes, Zenon DEF ShapeOK
  <2>4. \A n \in Middles : \A j \in 1..Width(kids, n) :
          ChildAt(kids, n, j) # l => KeyAt(kids, n, j) = FirstOf(leafKeys'[ChildAt(kids, n, j)])
    BY <1>1, <1>3, <1>4, <2>3, Zenon DEF Exact
  <2> QED BY <2>2, <2>4, Zenon DEF Exact
<1>7. fails <= 1 => Sorted(kids, leafKeys', Late(l, fails))
  <2> SUFFICES ASSUME fails <= 1 PROVE Sorted(kids, leafKeys', Late(l, fails))
    BY Zenon
  <2>1. Sorted(kids, leafKeys, NoNode)
    BY <1>1, <1>3, Zenon DEF Late
  <2>2. \A a \in Leaves : leafKeys'[a] \subseteq leafKeys[a]
    BY <1>4, Zenon
  <2> QED BY <1>1, <2>1, <2>2, DeleteSorted
<1> QED BY <1>1, <1>2, <1>3, <1>5, <1>6, <1>7 DEF TreeInv

(* update_ancestor_keys, one round: at a leaf, or at an inner node.        *)
LEMMA UpdateKeeps ==
    ASSUME TreeInv, UpdateKey
    PROVE  TreeInv'
<1>1. /\ KidsOK(kids) /\ ShapeOK(kids) /\ LeavesOK(leafKeys) /\ ParentsOK(parent, kids, orphan)
      /\ current \in Inner \cup Leaves \cup {NoNode}
      /\ fails \in 0..MaxFetchFails /\ orphan \in BOOLEAN /\ MaxFetchFails \in Nat
      /\ fails = 0 => Exact(kids, leafKeys, current)
      /\ fails <= 1 => Sorted(kids, leafKeys, Late(current, fails))
  BY TreeConstants, Zenon DEF TreeInv
<1>2. /\ current # NoNode /\ current # TreeRoot /\ Rank \in DOMAIN kids[parent[current]]
      /\ kids' = SetKey(kids, parent[current], Rank, FirstKey(current))
      /\ current' = parent[current]
      /\ leafKeys' = leafKeys /\ parent' = parent /\ fails' = fails /\ orphan' = orphan
  BY Zenon DEF UpdateKey, AtRoot, SetKey
<1>3. CASE current \in Leaves
  <2> DEFINE f == FirstOf(leafKeys[current])
  <2>1. FirstKey(current) = f
    BY <1>3, Zenon DEF FirstKey
  <2>2. f \in Keys
    <3>1. leafKeys[current] \in SUBSET Keys /\ leafKeys[current] # {} /\ IsFiniteSet(leafKeys[current])
      BY <1>1, <1>3, Zenon DEF LeavesOK
    <3> QED BY <3>1, FirstOfKeys, Zenon
  <2> HIDE DEF f
  <2>3. PICK m \in Middles : /\ parent[current] = Middle(m)
                             /\ Rank \in 1..Width(kids, m) /\ ChildAt(kids, m, Rank) = current
    BY <1>1, <1>2, <1>3, LeafRank, Zenon
  <2> DEFINE i == Rank
  <2>4. kids' = SetKey(kids, Middle(m), i, f)
    BY <1>2, <2>1, <2>3, Zenon
  <2>5. i \in 1..Width(kids, m) /\ ChildAt(kids, m, i) = current
    BY <2>3, Zenon
  <2> HIDE DEF i
  <2>6. /\ KidsOK(kids') /\ ShapeOK(kids')
        /\ \A n \in Middles : /\ Width(kids', n) = Width(kids, n) /\ RootKey(kids', n) = RootKey(kids, n)
                              /\ \A j \in 1..Width(kids, n) :
                                   /\ ChildAt(kids', n, j) = ChildAt(kids, n, j)
                                   /\ KeyAt(kids', n, j) = IF n = m /\ j = i THEN f ELSE KeyAt(kids, n, j)
    BY <1>1, <2>2, <2>4, <2>5, KeySet
  <2>7. current' = Middle(m) /\ Middle(m) \in Inner
    BY <1>2, <2>3, FirstTree, Zenon
  <2>8. ParentsOK(parent', kids', orphan')
    BY <1>1, <1>2, <2>6, Zenon DEF ParentsOK
  <2>9. fails = 0 => Exact(kids', leafKeys, Middle(m))
    <3> SUFFICES ASSUME fails = 0 PROVE Exact(kids', leafKeys, Middle(m))
      BY Zenon
    <3>1. ASSUME NEW n \in Middles, Middle(n) # Middle(m)
          PROVE  RootKey(kids', n) = KeyAt(kids', n, 1)
      <4>1. Middle(n) # current /\ 1 \in 1..Width(kids, n) /\ n # m
        BY <1>1, <1>3, <3>1, FirstTree DEF ShapeOK
      <4> QED BY <1>1, <2>6, <4>1, Zenon DEF Exact
    <3>2. ASSUME NEW n \in Middles, NEW j \in 1..Width(kids', n)
          PROVE  KeyAt(kids', n, j) = FirstOf(leafKeys[ChildAt(kids', n, j)])
      <4>1. j \in 1..Width(kids, n) /\ ChildAt(kids', n, j) = ChildAt(kids, n, j)
        BY <2>6, Zenon
      <4>2. CASE n = m /\ j = i
        BY <2>5, <2>6, <4>1, <4>2, Zenon DEF f
      <4>3. CASE ~(n = m /\ j = i)
        <5>1. ChildAt(kids, n, j) # current
          BY <1>1, <2>5, <4>1, <4>3, OnePlace
        <5>2. KeyAt(kids, n, j) = FirstOf(leafKeys[ChildAt(kids, n, j)])
          BY <1>1, <4>1, <5>1, Zenon DEF Exact
        <5> QED BY <2>6, <4>1, <4>3, <5>2, Zenon
      <4> QED BY <4>2, <4>3, Zenon
    <3> QED BY <3>1, <3>2, Zenon DEF Exact
  <2>10. fails <= 1 => Sorted(kids', leafKeys, Late(Middle(m), fails))
    <3> SUFFICES ASSUME fails <= 1 PROVE Sorted(kids', leafKeys, Late(Middle(m), fails))
      BY Zenon
    <3>1. Sorted(kids, leafKeys, ChildAt(kids, m, i))
      <4>1. CASE fails = 0
        <5>1. Sorted(kids, leafKeys, NoNode) /\ \A l \in Leaves : leafKeys[l] \subseteq leafKeys[l]
          BY <1>1, <4>1, Zenon DEF Late
        <5> QED BY <1>1, <5>1, DeleteSorted, Zenon
      <4>2. CASE fails # 0
        BY <1>1, <2>5, <4>2, Zenon DEF Late
      <4> QED BY <4>1, <4>2, Zenon
    <3>2. \A n \in Middles : /\ Width(kids', n) = Width(kids, n) /\ RootKey(kids', n) = RootKey(kids, n)
                             /\ \A j \in 1..Width(kids, n) :
                                  /\ ChildAt(kids', n, j) = ChildAt(kids, n, j)
                                  /\ KeyAt(kids', n, j) = IF n = m /\ j = i
                                                          THEN FirstOf(leafKeys[ChildAt(kids, m, i)])
                                                          ELSE KeyAt(kids, n, j)
      BY <2>5, <2>6, Zenon DEF f
    <3> QED BY <1>1, <2>5, <3>1, <3>2, LeafKeySorted, Zenon
  <2> QED BY <1>1, <1>2, <2>6, <2>7, <2>8, <2>9, <2>10 DEF TreeInv
<1>4. CASE current \notin Leaves
  <2>1. PICK m \in Middles : current = Middle(m)
    BY <1>1, <1>2, <1>4, FirstTree, Zenon
  <2>2. parent[current] = TreeRoot /\ Rank = m /\ m \in DOMAIN kids[TreeRoot]
    BY <1>1, <2>1, InnerRank, Zenon
  <2> DEFINE f == KeyAt(kids, m, 1)
  <2>3. FirstKey(current) = f
    BY <1>4, <2>1, Zenon DEF FirstKey, KeyAt
  <2>4. f \in Keys /\ 1 \in 1..Width(kids, m)
    BY <1>1 DEF ShapeOK
  <2>5. kids' = SetKey(kids, TreeRoot, m, f)
    BY <1>2, <2>2, <2>3, Zenon
  <2> HIDE DEF f
  <2>6. /\ KidsOK(kids') /\ ShapeOK(kids')
        /\ \A n \in Middles : /\ Width(kids', n) = Width(kids, n)
                              /\ RootKey(kids', n) = IF n = m THEN f ELSE RootKey(kids, n)
                              /\ \A j \in 1..Width(kids, n) : /\ ChildAt(kids', n, j) = ChildAt(kids, n, j)
                                                              /\ KeyAt(kids', n, j) = KeyAt(kids, n, j)
    BY <1>1, <2>4, <2>5, RootKeySet
  <2>7. current' = TreeRoot /\ TreeRoot \in Inner
    BY <1>2, <2>2, Nodes, Zenon
  <2>8. ParentsOK(parent', kids', orphan')
    BY <1>1, <1>2, <2>6, Zenon DEF ParentsOK
  <2>9. fails = 0 => Exact(kids', leafKeys, TreeRoot)
    <3> SUFFICES ASSUME fails = 0 PROVE Exact(kids', leafKeys, TreeRoot)
      BY Zenon
    <3>1. ASSUME NEW n \in Middles
          PROVE  RootKey(kids', n) = KeyAt(kids', n, 1)
      <4>1. 1 \in 1..Width(kids, n) /\ (n # m => Middle(n) # current)
        BY <1>1, <2>1, FirstTree DEF ShapeOK
      <4> QED BY <1>1, <2>6, <4>1, Zenon DEF Exact, f
    <3>2. ASSUME NEW n \in Middles, NEW j \in 1..Width(kids', n)
          PROVE  KeyAt(kids', n, j) = FirstOf(leafKeys[ChildAt(kids', n, j)])
      <4>1. j \in 1..Width(kids, n) /\ ChildAt(kids, n, j) # current
        BY <1>1, <1>4, <2>6 DEF ShapeOK
      <4> QED BY <1>1, <2>6, <4>1, Zenon DEF Exact
    <3> QED BY <3>1, <3>2, Zenon DEF Exact
  <2>10. fails <= 1 => Sorted(kids', leafKeys, Late(TreeRoot, fails))
    <3> SUFFICES ASSUME fails <= 1 PROVE Sorted(kids', leafKeys, Late(TreeRoot, fails))
      BY Zenon
    <3>1. Sorted(kids, leafKeys, Late(current, fails)) /\ Late(current, fails) \notin Leaves
      BY <1>1, <1>4, Nodes, Zenon DEF Late
    <3> QED BY <1>1, <2>6, <3>1, RootKeySorted, Zenon DEF f
  <2> QED BY <1>1, <1>2, <2>6, <2>7, <2>8, <2>9, <2>10 DEF TreeInv
<1> QED BY <1>3, <1>4, Zenon

(* Its end: at the root, or at a key that is right.                        *)
LEMMA EndKeeps ==
    ASSUME TreeInv, UpdateEnds
    PROVE  TreeInv'
<1>1. /\ KidsOK(kids) /\ ShapeOK(kids) /\ LeavesOK(leafKeys) /\ ParentsOK(parent, kids, orphan)
      /\ current \in Inner \cup Leaves \cup {NoNode}
      /\ fails \in 0..MaxFetchFails /\ orphan \in BOOLEAN
      /\ fails = 0 => Exact(kids, leafKeys, current)
      /\ fails <= 1 => Sorted(kids, leafKeys, Late(current, fails))
  BY Zenon DEF TreeInv
<1>2. /\ current # NoNode /\ current' = NoNode
      /\ current # TreeRoot => Rank \in DOMAIN kids[parent[current]] /\ KeyIsRight
      /\ kids' = kids /\ leafKeys' = leafKeys /\ parent' = parent /\ fails' = fails /\ orphan' = orphan
  BY Zenon DEF UpdateEnds, AtRoot
<1>3. TreeRoot \in Inner /\ Inner \cap Leaves = {} /\ NoNode \notin Inner \cup Leaves
  BY Nodes, Zenon
<1>4. ASSUME NEW n \in Middles, Middle(n) = current
      PROVE  RootKey(kids, n) = KeyAt(kids, n, 1)
  <2>1. current # TreeRoot /\ current \notin Leaves
    BY <1>4, FirstTree, Zenon
  <2>2. parent[current] = TreeRoot /\ Rank = n
    BY <1>1, <1>4, InnerRank
  <2> QED BY <1>2, <1>4, <2>1, <2>2, Zenon DEF KeyIsRight, FirstKey, RootKey, KeyAt
<1>5. ASSUME NEW n \in Middles, NEW j \in 1..Width(kids, n), ChildAt(kids, n, j) = current
      PROVE  KeyAt(kids, n, j) = FirstOf(leafKeys[current])
  <2>1. current \in Leaves /\ current # TreeRoot
    BY <1>1, <1>3, <1>5, Zenon DEF ShapeOK
  <2>2. PICK m \in Middles : /\ parent[current] = Middle(m)
                             /\ Rank \in 1..Width(kids, m) /\ ChildAt(kids, m, Rank) = current
    BY <1>1, <1>2, <2>1, LeafRank
  <2>3. m = n /\ Rank = j
    BY <1>1, <1>5, <2>2, OnePlace
  <2> QED BY <1>2, <2>1, <2>2, <2>3 DEF KeyIsRight, FirstKey, KeyAt
<1>6. fails = 0 => Exact(kids, leafKeys, NoNode)
  BY <1>1, <1>4, <1>5, Zenon DEF Exact
<1>7. fails <= 1 => Sorted(kids, leafKeys, NoNode)
  <2> SUFFICES ASSUME fails <= 1 PROVE Sorted(kids, leafKeys, NoNode)
    BY Zenon
  <2>1. ASSUME NEW n \in Middles, NEW j \in 1..Width(kids, n), ChildAt(kids, n, j) = current
        PROVE  NotAbove(leafKeys, KeyAt(kids, n, j), ChildAt(kids, n, j))
    <3>1. current \in Leaves
      BY <1>1, <2>1, Zenon DEF ShapeOK
    <3>2. leafKeys[current] \in SUBSET Keys /\ leafKeys[current] # {} /\ IsFiniteSet(leafKeys[current])
      BY <1>1, <3>1, Zenon DEF LeavesOK
    <3>3. \A x \in leafKeys[current] : ~Less(x, FirstOf(leafKeys[current]))
      BY <3>2, FirstOfKeys, Zenon
    <3> QED BY <1>5, <2>1, <3>3, Zenon DEF NotAbove
  <2>2. ASSUME NEW n \in Middles, NEW j \in 1..Width(kids, n)
        PROVE  ChildAt(kids, n, j) # NoNode
    BY <1>1, <1>3 DEF ShapeOK
  <2>3. InnerSorted(kids, leafKeys, NoNode)
    BY <1>1, <2>1, <2>2, Zenon DEF Sorted, InnerSorted, Late
  <2> QED BY <1>1, <2>3, Zenon DEF Sorted
<1>8. Late(NoNode, fails) = NoNode
  BY Zenon DEF Late
<1> QED BY <1>1, <1>2, <1>6, <1>7, <1>8, Zenon DEF TreeInv

(* Its other end: fetch_node fails.                                        *)
LEMMA GiveUpKeeps ==
    ASSUME TreeInv, UpdateGivesUp
    PROVE  TreeInv'
<1>1. /\ KidsOK(kids) /\ ShapeOK(kids) /\ LeavesOK(leafKeys) /\ ParentsOK(parent, kids, orphan)
      /\ fails \in 0..MaxFetchFails /\ orphan \in BOOLEAN /\ MaxFetchFails \in Nat
      /\ fails <= 1 => Sorted(kids, leafKeys, Late(current, fails))
  BY TreeConstants, Zenon DEF TreeInv
<1>2. /\ current' = NoNode /\ fails' = fails + 1 /\ fails < MaxFetchFails
      /\ kids' = kids /\ leafKeys' = leafKeys /\ parent' = parent /\ orphan' = orphan
  BY Zenon DEF UpdateGivesUp
<1>3. fails' \in 0..MaxFetchFails /\ fails' # 0 /\ (fails' <= 1 => fails = 0)
  BY <1>1, <1>2
<1>4. fails' <= 1 => Sorted(kids', leafKeys', Late(current', fails'))
  BY <1>1, <1>2, <1>3 DEF Late
<1> QED BY <1>1, <1>2, <1>3, <1>4, Zenon DEF TreeInv

(* redistribute.                                                           *)
LEMMA RedistributeKeeps ==
    ASSUME TreeInv, NEW t \in 1..(Len(kids[TreeRoot]) - 1), NEW right \in BOOLEAN, Redistribute(t, right)
    PROVE  TreeInv'
<1>1. /\ KidsOK(kids) /\ ShapeOK(kids) /\ LeavesOK(leafKeys) /\ ParentsOK(parent, kids, orphan)
      /\ fails \in 0..MaxFetchFails /\ orphan \in BOOLEAN
      /\ fails = 0 => Exact(kids, leafKeys, current)
      /\ fails <= 1 => Sorted(kids, leafKeys, Late(current, fails))
  BY Zenon DEF TreeInv
<1>2. current = NoNode /\ current' = NoNode /\ leafKeys' = leafKeys /\ fails' = fails
  BY Zenon DEF Redistribute
<1>3. Late(NoNode, fails) = NoNode
  BY Zenon DEF Late
<1> DEFINE a == IF right THEN t ELSE t + 1
           p == IF right THEN Width(kids, t) ELSE 1
           b == IF right THEN t + 1 ELSE t
           c == ChildAt(kids, a, p)
<1>4. /\ t \in Middles /\ t + 1 \in Middles
      /\ KidsOK(kids') /\ Moved(kids, kids', t, right)
      /\ \/ orphan' = orphan /\ parent' = [parent EXCEPT ![c] = Middle(b)]
         \/ orphan' = TRUE /\ parent' = parent
  BY <1>1, RedistributeMoves, Zenon
<1>5. /\ ShapeOK(kids')
      /\ Sorted(kids, leafKeys, NoNode) => Sorted(kids', leafKeys, NoNode)
      /\ Exact(kids, leafKeys, NoNode) => Exact(kids', leafKeys, NoNode)
  BY <1>1, <1>4, MovedKeeps
<1>6. fails = 0 => Exact(kids', leafKeys, NoNode)
  BY <1>1, <1>2, <1>5, Zenon
<1>7. fails <= 1 => Sorted(kids', leafKeys, NoNode)
  BY <1>1, <1>2, <1>3, <1>5, Zenon
<1>8. a \in Middles /\ p \in 1..Width(kids, a) /\ c \in Leaves /\ b \in Middles
  <2>1. a \in Middles /\ b \in Middles /\ p \in 1..Width(kids, a)
    BY <1>1, <1>4 DEF ShapeOK
  <2> HIDE DEF a, p
  <2> QED BY <1>1, <2>1, Zenon DEF ShapeOK
<1>9. Middle(b) \in Inner /\ Middle(b) # TreeRoot /\ \A m \in Middles : Middle(m) # c
  BY <1>8, FirstTree, Zenon
<1>10. CASE orphan' = TRUE /\ parent' = parent
  <2>1. ParentsOK(parent', kids', orphan')
    BY <1>1, <1>10, Zenon DEF ParentsOK
  <2> QED BY <1>1, <1>2, <1>3, <1>4, <1>5, <1>6, <1>7, <1>10, <2>1, Zenon DEF TreeInv
<1>11. CASE orphan' = orphan /\ parent' = [parent EXCEPT ![c] = Middle(b)]
  <2> HIDE DEF c
  <2>1. \A n \in (Inner \cup Leaves) \ {TreeRoot} : parent'[n] = IF n = c THEN Middle(b) ELSE parent[n]
    BY <1>1, <1>8, <1>11, Zenon DEF ParentsOK
  <2>2. parent' \in [(Inner \cup Leaves) \ {TreeRoot} -> Inner]
    BY <1>1, <1>9, <1>11, Zenon DEF ParentsOK
  <2>3. \A m \in Middles : parent'[Middle(m)] = TreeRoot
    BY <1>1, <1>9, <2>1, FirstTree DEF ParentsOK
  <2>4. \A l \in Leaves : l # TreeRoot /\ parent'[l] # TreeRoot
    BY <1>1, <1>9, <2>1, Nodes DEF ParentsOK
  <2>5. ASSUME ~orphan, NEW m \in Middles, NEW i \in 1..Width(kids', m)
        PROVE  parent'[ChildAt(kids', m, i)] = Middle(m)
    <3> DEFINE on == OldNode(kids, t, right, m, i)
               op == OldPlace(kids, t, right, m, i)
    <3>1. on \in Middles /\ op \in 1..Width(kids, on) /\ ChildAt(kids', m, i) = ChildAt(kids, on, op)
      <4>1. i \in 1..NewWidth(kids, t, right, m) /\ Width(kids, IF right THEN t ELSE t + 1) > 1
        BY <1>4, Zenon DEF Moved
      <4>2. kids'[Middle(m)][i] = kids[Middle(on)][op]
        BY <1>4, Zenon DEF Moved
      <4>3. on \in Middles /\ op \in 1..Width(kids, on)
        BY <1>1, <1>4, <4>1, OldPlaces
      <4> QED BY <4>2, <4>3, Zenon DEF ChildAt
    <3>2. ChildAt(kids', m, i) \in Leaves /\ ChildAt(kids', m, i) # TreeRoot
      BY <1>5, <2>4, Zenon DEF ShapeOK
    <3>3. parent[ChildAt(kids, on, op)] = Middle(on)
      BY <1>1, <2>5, <3>1, Zenon DEF ParentsOK
    <3>4. /\ t \in Nat /\ i \in Nat /\ Width(kids, t) \in Nat
          /\ i >= 1 /\ i <= NewWidth(kids, t, right, m) /\ m \in Nat
      <4>1. Width(kids', m) \in Nat /\ Width(kids, t) \in Nat
        BY <1>1, <1>4, <1>5, Zenon DEF ShapeOK
      <4>2. Width(kids', m) = NewWidth(kids, t, right, m)
        BY <1>4, Zenon DEF Moved
      <4>3. t \in Nat /\ m \in Nat
        BY <1>4, FirstTree, Zenon
      <4> HIDE DEF on, op
      <4> QED BY <4>1, <4>2, <4>3
    <3>5. CASE on = m
      <4>1. ~(on = a /\ op = p)
        BY <3>4, <3>5 DEF OldNode, OldPlace, NewWidth
      <4>2. ChildAt(kids, on, op) # c
        BY <1>1, <1>8, <3>1, <4>1, OnePlace DEF c
      <4> QED BY <2>1, <3>1, <3>2, <3>3, <3>5, <4>2
    <3>6. CASE on # m
      <4>1. on = a /\ op = p /\ m = b
        BY <3>6, Zenon DEF OldNode, OldPlace
      <4> QED BY <2>1, <3>1, <3>2, <4>1, Zenon DEF c
    <3> QED BY <3>5, <3>6, Zenon
  <2>6. ParentsOK(parent', kids', orphan')
    BY <1>11, <2>2, <2>3, <2>4, <2>5, Zenon DEF ParentsOK
  <2> QED BY <1>1, <1>2, <1>3, <1>4, <1>5, <1>6, <1>7, <1>11, <2>6 DEF TreeInv
<1> QED BY <1>4, <1>10, <1>11, Zenon

(* TreeInv is inductive: the keys of the inner nodes separate the leaves   *)
(* after every insertion, deletion, redistribution and round of            *)
(* update_ancestor_keys, where at most one fetch has failed.               *)
THEOREM TreeInvariant == TreeSpec => []TreeInv
<1>1. TreeInit => TreeInv
  BY TreeStarts, Zenon
<1>2. TreeInv /\ [TreeNext]_treeVars => TreeInv'
  <2> SUFFICES ASSUME TreeInv, [TreeNext]_treeVars PROVE TreeInv'
    BY Zenon
  <2>1. ASSUME NEW k \in Keys, InsertKey(k) PROVE TreeInv'
    BY <2>1, InsertKeeps, Zenon
  <2>2. ASSUME NEW k \in Keys, DeleteKey(k) PROVE TreeInv'
    BY <2>2, DeleteKeeps, Zenon
  <2>3. CASE UpdateKey
    BY <2>3, UpdateKeeps, Zenon
  <2>4. CASE UpdateEnds
    BY <2>4, EndKeeps, Zenon
  <2>5. CASE UpdateGivesUp
    BY <2>5, GiveUpKeeps, Zenon
  <2>6. ASSUME NEW i \in 1..(Len(kids[TreeRoot]) - 1), NEW right \in BOOLEAN, Redistribute(i, right)
        PROVE  TreeInv'
    BY <2>6, RedistributeKeeps, Zenon
  <2>7. CASE UNCHANGED treeVars
    <3>1. /\ kids' = kids /\ leafKeys' = leafKeys /\ parent' = parent /\ current' = current
          /\ fails' = fails /\ orphan' = orphan
      BY <2>7, Zenon DEF treeVars
    <3> QED BY <3>1, Zenon DEF TreeInv
  <2> QED BY <2>1, <2>2, <2>3, <2>4, <2>5, <2>6, <2>7, Zenon DEF TreeNext
<1> QED BY <1>1, <1>2, PTL DEF TreeSpec

(* Below the root and below an inner node find_child finds the child whose *)
(* parent pointer led there, if no update_child_parent failed.             *)
LEMMA ChildFound ==
    ASSUME KidsOK(kids), ShapeOK(kids), ParentsOK(parent, kids, orphan), ~orphan,
           current \in Inner \cup Leaves, current # TreeRoot
    PROVE  Rank \in DOMAIN kids[parent[current]]
<1>1. CASE current \in Leaves
  <2>1. PICK m \in Middles : \E i \in 1..Width(kids, m) : ChildAt(kids, m, i) = current
    BY <1>1, Zenon DEF ShapeOK
  <2>2. PICK i \in 1..Width(kids, m) : ChildAt(kids, m, i) = current
    BY <2>1, Zenon
  <2>3. parent[current] = Middle(m)
    BY <2>2, Zenon DEF ParentsOK
  <2> DEFINE s == kids[Middle(m)]
  <2>4. s \in Seq(AnyPair) /\ i \in 1..Len(s) /\ s[i].child = current
    BY <2>2, FirstTree, Zenon DEF KidsOK, Width, ChildAt
  <2>5. Rank = IF \E j \in DOMAIN s : s[j].child = current
               THEN CHOOSE j \in DOMAIN s : s[j].child = current ELSE Len(s) + 1
    BY <2>3, Zenon DEF Rank, FindChild
  <2> HIDE DEF s
  <2>6. i \in DOMAIN s
    BY <2>4
  <2>7. Rank \in DOMAIN s
    BY <2>4, <2>5, <2>6, Zenon
  <2> QED BY <2>3, <2>7, Zenon DEF s
<1>2. CASE current \notin Leaves
  <2>1. PICK m \in Middles : current = Middle(m)
    BY <1>2, FirstTree, Zenon
  <2> QED BY <2>1, InnerRank, Zenon
<1> QED BY <1>1, <1>2, Zenon

(* KeysLeadToEntries for every three-level tree: update_ancestor_keys      *)
(* leaves exact keys while no fetch fails, and after one failed fetch a    *)
(* lookup still leads every key to the leaf that holds it; find_child      *)
(* finds the child its assertion promises.                                 *)
THEOREM AlwaysKeysLeadToEntries == TreeSpec => []KeysLeadToEntries
<1>1. TreeInv => KeysLeadToEntries
  <2> SUFFICES ASSUME TreeInv PROVE KeysLeadToEntries
    BY Zenon
  <2>1. /\ KidsOK(kids) /\ ShapeOK(kids) /\ LeavesOK(leafKeys) /\ ParentsOK(parent, kids, orphan)
        /\ current \in Inner \cup Leaves \cup {NoNode} /\ fails \in 0..MaxFetchFails
        /\ fails = 0 => Exact(kids, leafKeys, current)
        /\ fails <= 1 => Sorted(kids, leafKeys, Late(current, fails))
    BY Zenon DEF TreeInv
  <2>2. \A n \in Inner : kids[n] \in Seq(AnyPair)
    BY <2>1, Zenon DEF KidsOK
  <2>3. \A n \in Inner : \A i \in DOMAIN kids[n] : kids[n][i].key \in Keys
    <3> SUFFICES ASSUME NEW n \in Inner, NEW i \in DOMAIN kids[n] PROVE kids[n][i].key \in Keys
      BY Zenon
    <3>1. i \in 1..Len(kids[n])
      BY <2>2
    <3>2. kids[n][i] \in AnyPair
      BY <2>2, <3>1, ItemSeq, Zenon
    <3> QED BY <3>2, Zenon DEF AnyPair
  <2>4. \A n \in Inner : kids[n] # <<>>
    <3> SUFFICES ASSUME NEW n \in Inner, kids[n] = <<>> PROVE FALSE
      BY Zenon
    <3>1. Len(kids[n]) = 0
      OBVIOUS
    <3>2. CASE n = TreeRoot
      BY <2>1, <3>1, <3>2, FirstTree DEF KidsOK, Middles
    <3>3. CASE n # TreeRoot
      BY <2>1, <3>1, <3>3, FirstTree, Zenon DEF ShapeOK, Width
    <3> QED BY <3>2, <3>3, Zenon
  <2>5. TreeTypeOK
    BY <2>1, <2>3, <2>4, Zenon DEF TreeTypeOK, LeavesOK
  <2>6. ~orphan /\ current # NoNode /\ ~AtRoot => Rank \in DOMAIN kids[parent[current]]
    BY <2>1, ChildFound, Zenon DEF AtRoot
  <2>7. ASSUME current = NoNode, fails = 0, ~orphan
        PROVE  KeysExact
    <3>1. NoNode \notin Inner \cup Leaves /\ Inner \cap Leaves = {}
      BY Nodes, Zenon
    <3>2. ASSUME NEW n \in Inner, NEW i \in DOMAIN kids[n]
          PROVE  kids[n][i].key = FirstKey(kids[n][i].child) /\ parent[kids[n][i].child] = n
      <4>1. i \in 1..Len(kids[n])
        BY <2>2
      <4>2. CASE n = TreeRoot
        <5>1. i \in Middles /\ kids[n][i].child = Middle(i)
          BY <2>1, <4>1, <4>2, Zenon DEF KidsOK, Middles
        <5>2. Middle(i) \notin Leaves /\ Middle(i) # NoNode
          BY <3>1, <5>1, FirstTree, Zenon
        <5>3. RootKey(kids, i) = KeyAt(kids, i, 1)
          BY <2>1, <2>7, <5>1, <5>2, Zenon DEF Exact
        <5>4. FirstKey(Middle(i)) = KeyAt(kids, i, 1)
          BY <5>2, Zenon DEF FirstKey, KeyAt
        <5>5. parent[Middle(i)] = TreeRoot
          BY <2>1, <5>1, Zenon DEF ParentsOK
        <5> QED BY <4>2, <5>1, <5>3, <5>4, <5>5, Zenon DEF RootKey
      <4>3. CASE n # TreeRoot
        <5>1. PICK m \in Middles : n = Middle(m)
          BY <4>3, FirstTree, Zenon
        <5>2. i \in 1..Width(kids, m) /\ kids[n][i].child = ChildAt(kids, m, i) /\ kids[n][i].key = KeyAt(kids, m, i)
          BY <4>1, <5>1, Zenon DEF Width, ChildAt, KeyAt
        <5>3. ChildAt(kids, m, i) \in Leaves /\ ChildAt(kids, m, i) # NoNode
          <6>1. ChildAt(kids, m, i) \in Leaves
            BY <2>1, <5>2, Zenon DEF ShapeOK
          <6> QED BY <3>1, <6>1, Zenon
        <5>4. KeyAt(kids, m, i) = FirstOf(leafKeys[ChildAt(kids, m, i)])
          BY <2>1, <2>7, <5>2, <5>3, Zenon DEF Exact
        <5>5. parent[ChildAt(kids, m, i)] = Middle(m)
          BY <2>1, <2>7, <5>2, Zenon DEF ParentsOK
        <5>6. FirstKey(ChildAt(kids, m, i)) = FirstOf(leafKeys[ChildAt(kids, m, i)])
          BY <5>3, Zenon DEF FirstKey
        <5> QED BY <5>1, <5>2, <5>4, <5>5, <5>6
      <4> QED BY <4>2, <4>3, Zenon
    <3> QED BY <3>2, Zenon DEF KeysExact
  <2>8. ASSUME fails <= 1, NEW l \in Leaves, NEW k \in leafKeys[l]
        PROVE  LeafFor(k) = l
    <3>1. PICK n \in Middles : \E j \in 1..Width(kids, n) : ChildAt(kids, n, j) = l
      BY <2>1, Zenon DEF ShapeOK
    <3>2. PICK j \in 1..Width(kids, n) : ChildAt(kids, n, j) = l
      BY <3>1, Zenon
    <3>3. PICK m \in Middles : \E i \in 1..Width(kids, m) : LeafFor(k) = ChildAt(kids, m, i) /\ RoutedTo(k, m, i)
      BY <2>1, Lookup, Zenon
    <3>4. PICK i \in 1..Width(kids, m) : LeafFor(k) = ChildAt(kids, m, i) /\ RoutedTo(k, m, i)
      BY <3>3, Zenon
    <3>5. Sorted(kids, leafKeys, Late(current, fails)) /\ k \in leafKeys[ChildAt(kids, n, j)]
      BY <2>1, <2>8, <3>2, Zenon
    <3>6. n = m /\ j = i
      BY <2>1, <3>4, <3>5, FoundWhereItIs, Zenon
    <3> QED BY <3>2, <3>4, <3>6, Zenon
  <2> QED BY <2>5, <2>6, <2>7, <2>8, Zenon DEF KeysLeadToEntries
<1> QED BY <1>1, TreeInvariant, PTL
=============================================================================
