-------------------------- MODULE TreeOrderProofs --------------------------
(***************************************************************************)
(* The order of the keys in the B+-tree of an index: what it is, that a    *)
(* lookup follows it, and what the operations of the tree do to it.  The   *)
(* leaves keep their order for ever (redistribute only moves the border    *)
(* between two inner nodes), so it is enough that keys separate them.      *)
(***************************************************************************)
EXTENDS TreeKeys, FiniteSetTheorems, WellFoundedInduction, TLAPS

(* A set of naturals that is not empty has a least element.                *)
LEMMA LeastOf ==
    ASSUME NEW S \in SUBSET Nat, S # {}
    PROVE  \E m \in S : \A k \in S : m <= k
<1> DEFINE R == OpToRel(<, Nat)
<1>1. IsWellFoundedOn(R, Nat)
  BY NatLessThanWellFounded, Zenon
<1>2. ASSUME NEW y \in Nat, NEW x \in Nat, y < x
      PROVE  <<y, x>> \in R
  BY <1>2, Zenon DEF OpToRel
<1> HIDE DEF R
<1>3. PICK x \in S : \A y \in S : ~ (<<y, x>> \in R)
  BY <1>1, WFMin, Zenon
<1>4. ASSUME NEW y \in S
      PROVE  x <= y
  <2>1. y \in Nat /\ x \in Nat
    BY Zenon
  <2>2. ~(y < x)
    BY <1>2, <1>3, <2>1, Zenon
  <2> QED BY <2>1, <2>2
<1> QED BY <1>4, Zenon

(* A set of integers with an upper bound has a greatest element.           *)
LEMMA GreatestOf ==
    ASSUME NEW S \in SUBSET Int, S # {}, NEW b \in Int, \A k \in S : k <= b
    PROVE  \E m \in S : \A k \in S : k <= m
<1> DEFINE T == {n \in Nat : b - n \in S}
<1>1. T \in SUBSET Nat /\ T # {}
  <2>1. PICK k \in S : TRUE
    BY Zenon
  <2>2. b - k \in Nat /\ b - (b - k) = k
    OBVIOUS
  <2> QED BY <2>1, <2>2, Zenon
<1>2. PICK n \in T : \A k \in T : n <= k
  BY <1>1, LeastOf, Zenon
<1>3. ASSUME NEW k \in S
      PROVE  k <= b - n
  <2>1. b - k \in T
    OBVIOUS
  <2>2. n \in Nat /\ k \in Int
    BY Zenon
  <2> HIDE DEF T
  <2>3. n <= b - k
    BY <1>2, <2>1, Zenon
  <2> QED BY <2>2, <2>3
<1> QED BY <1>2, <1>3, Zenon

(* A member of a node's pairs is a pair.                                   *)
LEMMA ItemSeq ==
    ASSUME NEW S, NEW s \in Seq(S), NEW i \in 1..Len(s)
    PROVE  s[i] \in S
OBVIOUS

(* erase_pair at the last slot: what stays, and where.                     *)
LEMMA AllButLastSeq ==
    ASSUME NEW S, NEW s \in Seq(S), Len(s) > 1
    PROVE  /\ SubSeq(s, 1, Len(s) - 1) \in Seq(S) /\ Len(SubSeq(s, 1, Len(s) - 1)) = Len(s) - 1
           /\ \A i \in 1..(Len(s) - 1) : SubSeq(s, 1, Len(s) - 1)[i] = s[i]
OBVIOUS

(* erase_pair(0): the others move down by one.                             *)
LEMMA TailSeq ==
    ASSUME NEW S, NEW s \in Seq(S), Len(s) > 0
    PROVE  /\ Tail(s) \in Seq(S) /\ Len(Tail(s)) = Len(s) - 1
           /\ \A i \in 1..(Len(s) - 1) : Tail(s)[i] = s[i + 1]
OBVIOUS

(* insert_pair behind the last slot.                                       *)
LEMMA OneMoreSeq ==
    ASSUME NEW S, NEW s \in Seq(S), NEW x \in S
    PROVE  /\ Append(s, x) \in Seq(S) /\ Len(Append(s, x)) = Len(s) + 1
           /\ Append(s, x)[Len(s) + 1] = x /\ \A i \in 1..Len(s) : Append(s, x)[i] = s[i]
OBVIOUS

-----------------------------------------------------------------------------
(* TreeKeys                                                                *)

(* The nodes of the tree: the root is an inner node, no leaf is one, and    *)
(* the nullptr of a failed fetch is no node.                               *)
LEMMA Nodes ==
    /\ TreeRoot \in Inner /\ NoNode \notin Inner /\ NoNode \notin Leaves
    /\ \A l \in Leaves : l \notin Inner /\ l # TreeRoot /\ l # NoNode
    /\ NoNode # TreeRoot
BY TreeConstants

(* compare_index_key orders the keys: the first column that differs is     *)
(* found, and a key is before another in at most one direction.            *)
LEMMA KeysCompared ==
    ASSUME NEW a \in Keys, NEW b \in Keys, a # b
    PROVE  Less(a, b) \/ Less(b, a)
<1>1. a \in Seq(Int) /\ b \in Seq(Int) /\ Len(a) = Len(b)
  BY TreeConstants
<1> DEFINE D == {i \in 1..Len(a) : a[i] # b[i]}
<1>2. D # {}
  <2>1. a \in [1..Len(a) -> Int] /\ b \in [1..Len(a) -> Int]
    BY <1>1
  <2>2. (\A i \in 1..Len(a) : a[i] = b[i]) => a = b
    BY <2>1
  <2> QED BY <2>2, Zenon
<1>3. D \subseteq Nat
  BY <1>1
<1>4. PICK m \in D : \A k \in D : m <= k
  BY <1>2, <1>3, LeastOf, Zenon
<1>5. m \in 1..Len(a) /\ a[m] # b[m] /\ \A k \in 1..(m - 1) : a[k] = b[k]
  BY <1>1, <1>4
<1>6. a[m] < b[m] \/ b[m] < a[m]
  BY <1>1, <1>5
<1>7. m \in DOMAIN a /\ m \in DOMAIN b
  BY <1>1, <1>5
<1> QED BY <1>5, <1>6, <1>7, Zenon DEF Less

(* It is transitive and never puts a key before itself.                    *)
LEMMA KeysChain ==
    ASSUME NEW a \in Keys, NEW b \in Keys, NEW c \in Keys
    PROVE  ~Less(a, a) /\ (Less(a, b) /\ Less(b, c) => Less(a, c))
<1>1. /\ a \in Seq(Int) /\ b \in Seq(Int) /\ c \in Seq(Int)
      /\ Len(a) = Len(b) /\ Len(b) = Len(c)
  BY TreeConstants
<1>2. ~Less(a, a)
  BY <1>1 DEF Less
<1>3. DOMAIN a = 1..Len(a) /\ DOMAIN b = 1..Len(a)
  BY <1>1
<1>n. Len(a) \in Nat /\ \A k \in 1..Len(a) : a[k] \in Int /\ b[k] \in Int /\ c[k] \in Int
  BY <1>1
<1>4. ASSUME Less(a, b), Less(b, c)
      PROVE  Less(a, c)
  <2>1. PICK i \in 1..Len(a) : a[i] < b[i] /\ \A k \in 1..(i - 1) : a[k] = b[k]
    BY <1>3, <1>4, Zenon DEF Less
  <2>2. PICK j \in 1..Len(a) : b[j] < c[j] /\ \A k \in 1..(j - 1) : b[k] = c[k]
    BY <1>3, <1>4, Zenon DEF Less
  <2> DEFINE m == IF i < j THEN i ELSE j
  <2>3. m \in 1..Len(a) /\ m <= i /\ m <= j /\ (m = i \/ m = j)
    BY <1>n
  <2>4. a[m] < c[m]
    <3>1. CASE i < j
      BY ONLY i \in 1..Len(a), j \in 1..Len(a), <1>n, <2>1, <2>2, <3>1
    <3>2. CASE i = j
      BY ONLY i \in 1..Len(a), j \in 1..Len(a), <1>n, <2>1, <2>2, <3>2
    <3>3. CASE j < i
      BY ONLY i \in 1..Len(a), j \in 1..Len(a), <1>n, <2>1, <2>2, <3>3
    <3> QED BY <1>n, <3>1, <3>2, <3>3
  <2>5. \A k \in 1..(m - 1) : a[k] = c[k]
    <3> TAKE k \in 1..(m - 1)
    <3> HIDE DEF m
    <3>1. k \in 1..(i - 1) /\ k \in 1..(j - 1)
      BY <1>n, <2>3
    <3> QED BY <2>1, <2>2, <3>1, Zenon
  <2> QED BY <1>3, <2>3, <2>4, <2>5, Zenon DEF Less
<1> QED BY <1>2, <1>4, Zenon

(* The order, as the proofs below use it: ~Less(b, a) is "a is not         *)
(* greater".                                                               *)
LEMMA KeyOrder ==
    /\ \A a \in Keys : ~Less(a, a)
    /\ \A a, b \in Keys : Less(a, b) => ~Less(b, a)
    /\ \A a, b, c \in Keys : Less(a, b) /\ Less(b, c) => Less(a, c)
    /\ \A a, b, c \in Keys : Less(a, b) /\ ~Less(c, b) => Less(a, c)
    /\ \A a, b, c \in Keys : ~Less(b, a) /\ Less(b, c) => Less(a, c)
    /\ \A a, b, c \in Keys : ~Less(b, a) /\ ~Less(c, b) => ~Less(c, a)
<1>1. \A a, b \in Keys : a = b \/ Less(a, b) \/ Less(b, a)
  BY KeysCompared, Zenon
<1>2. \A a \in Keys : ~Less(a, a)
  BY KeysChain, Zenon
<1>3. \A a, b, c \in Keys : Less(a, b) /\ Less(b, c) => Less(a, c)
  BY KeysChain, Zenon
<1> QED BY <1>1, <1>2, <1>3, Zenon

(* The first key of a leaf: it is one of its keys and none is before it.   *)
LEMMA FirstOfKeys ==
    ASSUME NEW S \in SUBSET Keys, S # {}, IsFiniteSet(S)
    PROVE  FirstOf(S) \in S /\ \A x \in S : ~Less(x, FirstOf(S))
<1> DEFINE Below(k) == {x \in S : Less(x, k)}
           N == {Cardinality(Below(k)) : k \in S}
<1>1. \A k \in S : IsFiniteSet(Below(k)) /\ Cardinality(Below(k)) \in Nat
  <2> SUFFICES ASSUME NEW k \in S PROVE IsFiniteSet(Below(k)) /\ Cardinality(Below(k)) \in Nat
    BY Zenon
  <2>1. Below(k) \in SUBSET S
    BY Zenon
  <2>2. IsFiniteSet(Below(k))
    BY <2>1, FS_Subset, Zenon
  <2> QED BY <2>2, FS_CardinalityType, Zenon
<1>2. N \subseteq Nat /\ N # {}
  BY <1>1, Zenon
<1>3. PICK n \in N : \A k \in N : n <= k
  BY <1>2, LeastOf, Zenon
<1>4. PICK m \in S : n = Cardinality(Below(m))
  BY <1>3, Zenon
<1>5. ASSUME NEW l \in S, l # m, ~Less(m, l)
      PROVE  FALSE
  <2>1. Less(l, m)
    BY <1>5, KeysCompared, Zenon
  <2>2. Below(l) \subseteq Below(m)
    BY <2>1, KeysChain, Zenon
  <2>3. l \in Below(m) /\ l \notin Below(l)
    BY <2>1, KeysChain, Zenon
  <2>4. Cardinality(Below(l)) <= Cardinality(Below(m)) /\ Cardinality(Below(l)) # Cardinality(Below(m))
    <3>1. Below(l) # Below(m)
      BY <2>3, Zenon
    <3> HIDE DEF Below
    <3>2. IsFiniteSet(Below(m)) /\ Below(l) \in SUBSET Below(m)
      BY <1>1, <2>2, Zenon
    <3> QED BY <3>1, <3>2, FS_Subset, Zenon
  <2>5. n <= Cardinality(Below(l))
    BY <1>3, Zenon
  <2> HIDE DEF Below
  <2> QED BY <1>1, <1>4, <2>4, <2>5
<1>6. \E k \in S : \A l \in S : k = l \/ Less(k, l)
  BY <1>5, Zenon
<1> DEFINE f == FirstOf(S)
<1>7. f \in S /\ \A l \in S : f = l \/ Less(f, l)
  BY <1>6, Zenon DEF FirstOf
<1> HIDE DEF f
<1>8. \A x \in S : ~Less(x, f)
  BY <1>7, KeyOrder, Zenon
<1> QED BY <1>7, <1>8, Zenon DEF f

(* The tree, seen from the root: the pair in place i of inner node m.      *)
Middles == 1..Len(FirstKids[TreeRoot])
Width(ks, m) == Len(ks[Middle(m)])
KeyAt(ks, m, i) == ks[Middle(m)][i].key
ChildAt(ks, m, i) == ks[Middle(m)][i].child
RootKey(ks, m) == ks[TreeRoot][m].key

(* What the constants say about inner nodes and the order of the leaves.   *)
LEMMA FirstTree ==
    /\ Len(FirstKids[TreeRoot]) \in Nat /\ Middles \subseteq Nat /\ 1 \in Middles
    /\ \A m \in Middles : Middle(m) \in Inner /\ Middle(m) # TreeRoot /\ Middle(m) \notin Leaves
    /\ \A m, n \in Middles : Middle(m) = Middle(n) => m = n
    /\ \A n \in Inner : n # TreeRoot => \E m \in Middles : n = Middle(m)
    /\ \A a, b : Before(a, b) => ~Before(b, a)
<1>1. /\ TreeRoot \in Inner /\ Inner \cap Leaves = {} /\ FirstKids[TreeRoot] # <<>>
      /\ FirstKids \in [Inner -> Seq([key : Keys, child : (Inner \cup Leaves) \ {TreeRoot}])]
  BY TreeConstants, Zenon
<1>2. \A n \in Inner : \A i \in DOMAIN FirstKids[n] : FirstKids[n][i].child \in Inner <=> n = TreeRoot
  BY TreeConstants, Zenon
<1>3. \A n, p \in Inner : \A i \in DOMAIN FirstKids[n], k \in DOMAIN FirstKids[p] :
        FirstKids[n][i].child = FirstKids[p][k].child => n = p /\ i = k
  BY TreeConstants
<1>4. \A c \in (Inner \cup Leaves) \ {TreeRoot} :
        \E n \in Inner : \E i \in DOMAIN FirstKids[n] : FirstKids[n][i].child = c
  BY TreeConstants, Zenon
<1>5. /\ \A n \in Inner : Len(FirstKids[n]) \in Nat /\ DOMAIN FirstKids[n] = 1..Len(FirstKids[n])
      /\ Len(FirstKids[TreeRoot]) > 0
  BY <1>1
<1>6. Len(FirstKids[TreeRoot]) \in Nat /\ Middles \subseteq Nat /\ 1 \in Middles
  BY <1>1, <1>5 DEF Middles
<1>7. DOMAIN FirstKids[TreeRoot] = Middles
  BY <1>1, <1>5, Zenon DEF Middles
<1>8. \A m \in Middles : Middle(m) \in Inner /\ Middle(m) # TreeRoot /\ Middle(m) \notin Leaves
  <2> SUFFICES ASSUME NEW m \in Middles PROVE Middle(m) \in Inner /\ Middle(m) # TreeRoot /\ Middle(m) \notin Leaves
    BY Zenon
  <2>1. Middle(m) \in Inner
    BY <1>1, <1>2, <1>7, Zenon DEF Middle
  <2>2. FirstKids[TreeRoot][m] \in [key : Keys, child : (Inner \cup Leaves) \ {TreeRoot}]
    <3>1. FirstKids[TreeRoot] \in Seq([key : Keys, child : (Inner \cup Leaves) \ {TreeRoot}])
      BY <1>1, Zenon
    <3>2. m \in 1..Len(FirstKids[TreeRoot])
      BY Zenon DEF Middles
    <3> QED BY <3>1, <3>2, ItemSeq, Zenon
  <2> QED BY <1>1, <2>1, <2>2, Zenon DEF Middle
<1>9. \A m, n \in Middles : Middle(m) = Middle(n) => m = n
  BY <1>1, <1>3, <1>7 DEF Middle
<1>10. \A n \in Inner : n # TreeRoot => \E m \in Middles : n = Middle(m)
  <2> SUFFICES ASSUME NEW n \in Inner, n # TreeRoot PROVE \E m \in Middles : n = Middle(m)
    BY Zenon
  <2>1. PICK p \in Inner : \E i \in DOMAIN FirstKids[p] : FirstKids[p][i].child = n
    BY <1>4, Zenon
  <2>2. PICK i \in DOMAIN FirstKids[p] : FirstKids[p][i].child = n
    BY <2>1, Zenon
  <2>3. p = TreeRoot
    BY <1>2, <2>2, Zenon
  <2> QED BY <1>7, <2>2, <2>3, Zenon DEF Middle
<1>11. ASSUME NEW a, NEW b, Before(a, b), Before(b, a)
       PROVE  FALSE
  <2>1. PICK m \in Middles, n \in Middles :
          \E i \in DOMAIN FirstKids[Middle(m)], k \in DOMAIN FirstKids[Middle(n)] :
            /\ a = FirstKids[Middle(m)][i].child /\ b = FirstKids[Middle(n)][k].child
            /\ m < n \/ (m = n /\ i < k)
    BY <1>7, <1>11, Zenon DEF Before
  <2>2. PICK i \in DOMAIN FirstKids[Middle(m)], k \in DOMAIN FirstKids[Middle(n)] :
            /\ a = FirstKids[Middle(m)][i].child /\ b = FirstKids[Middle(n)][k].child
            /\ m < n \/ (m = n /\ i < k)
    BY <2>1, Zenon
  <2>3. PICK q \in Middles, p \in Middles :
          \E j \in DOMAIN FirstKids[Middle(q)], h \in DOMAIN FirstKids[Middle(p)] :
            /\ b = FirstKids[Middle(q)][j].child /\ a = FirstKids[Middle(p)][h].child
            /\ q < p \/ (q = p /\ j < h)
    BY <1>7, <1>11, Zenon DEF Before
  <2>4. PICK j \in DOMAIN FirstKids[Middle(q)], h \in DOMAIN FirstKids[Middle(p)] :
            /\ b = FirstKids[Middle(q)][j].child /\ a = FirstKids[Middle(p)][h].child
            /\ q < p \/ (q = p /\ j < h)
    BY <2>3, Zenon
  <2>5. Middle(m) = Middle(p) /\ i = h /\ Middle(n) = Middle(q) /\ k = j
    <3>1. Middle(m) \in Inner /\ Middle(n) \in Inner /\ Middle(p) \in Inner /\ Middle(q) \in Inner
      BY <1>8, Zenon
    <3>2. FirstKids[Middle(m)][i].child = FirstKids[Middle(p)][h].child
      BY <2>2, <2>4, Zenon
    <3>3. FirstKids[Middle(n)][k].child = FirstKids[Middle(q)][j].child
      BY <2>2, <2>4, Zenon
    <3>4. Middle(m) = Middle(p) /\ i = h
      BY <1>3, <3>1, <3>2
    <3>5. Middle(n) = Middle(q) /\ k = j
      BY <1>3, <3>1, <3>3
    <3> QED BY <3>4, <3>5, Zenon
  <2>6. m = p /\ n = q
    BY <1>9, <2>5, Zenon
  <2>7. i \in Nat /\ k \in Nat /\ m \in Nat /\ n \in Nat
    <3>1. i \in 1..Len(FirstKids[Middle(m)]) /\ k \in 1..Len(FirstKids[Middle(n)])
      BY <1>5, <1>8, Zenon
    <3> QED BY <1>6, <3>1
  <2> QED BY <2>2, <2>4, <2>5, <2>6, <2>7
<1> QED BY <1>6, <1>8, <1>9, <1>10, <1>11, Zenon

(* The tree keeps its shape: the root its inner nodes, every inner node    *)
(* leaves, every leaf a place, and the places the order of the leaves.     *)
AnyPair == [key : Keys, child : (Inner \cup Leaves) \ {TreeRoot}]
KidsOK(ks) ==
    /\ ks \in [Inner -> Seq(AnyPair)]
    /\ Len(ks[TreeRoot]) = Len(FirstKids[TreeRoot])
    /\ \A m \in Middles : ks[TreeRoot][m].child = Middle(m)

ShapeOK(ks) ==
    /\ \A m \in Middles : Width(ks, m) \in Nat \ {0} /\ RootKey(ks, m) \in Keys
    /\ \A m \in Middles : \A i \in 1..Width(ks, m) : KeyAt(ks, m, i) \in Keys /\ ChildAt(ks, m, i) \in Leaves
    /\ \A l \in Leaves : \E m \in Middles : \E i \in 1..Width(ks, m) : ChildAt(ks, m, i) = l
    /\ \A m, n \in Middles : \A i \in 1..Width(ks, m), k \in 1..Width(ks, n) :
         m < n \/ (m = n /\ i < k) => Before(ChildAt(ks, m, i), ChildAt(ks, n, k))

LeavesOK(lk) ==
    /\ lk \in [Leaves -> SUBSET Keys]
    /\ \A l \in Leaves : lk[l] # {} /\ IsFiniteSet(lk[l])

(* A node has the parent that holds it, unless update_child_parent failed. *)
ParentsOK(pa, ks, lost) ==
    /\ pa \in [(Inner \cup Leaves) \ {TreeRoot} -> Inner]
    /\ \A m \in Middles : pa[Middle(m)] = TreeRoot
    /\ \A l \in Leaves : pa[l] # TreeRoot
    /\ ~lost => \A m \in Middles : \A i \in 1..Width(ks, m) : pa[ChildAt(ks, m, i)] = Middle(m)

(* While no fetch has failed, every key but the one of the node that       *)
(* update_ancestor_keys is at is the first key of its child.               *)
Exact(ks, lk, cur) ==
    /\ \A m \in Middles : Middle(m) # cur => RootKey(ks, m) = KeyAt(ks, m, 1)
    /\ \A m \in Middles : \A i \in 1..Width(ks, m) :
         ChildAt(ks, m, i) # cur => KeyAt(ks, m, i) = FirstOf(lk[ChildAt(ks, m, i)])

(* Key k for leaf c: above all the keys before c, and not above those of c.*)
AboveEarlier(lk, k, c) == \A a \in Leaves : Before(a, c) => \A x \in lk[a] : Less(x, k)
NotAbove(lk, k, c) == \A x \in lk[c] : ~Less(x, k)

(* The keys are in order from leaf to leaf, and every key of an inner node *)
(* separates.  Two kinds of key may be above some keys of their leaf: the  *)
(* first one of all, and a first one that a failed fetch left the root     *)
(* without, until update_ancestor_keys has been there.                     *)
LeavesSorted(lk) ==
    \A a, b \in Leaves : Before(a, b) => \A x \in lk[a], y \in lk[b] : Less(x, y)
InnerSorted(ks, lk, late) ==
    \A m \in Middles : \A i \in 1..Width(ks, m) :
        /\ AboveEarlier(lk, KeyAt(ks, m, i), ChildAt(ks, m, i))
        /\ \/ NotAbove(lk, KeyAt(ks, m, i), ChildAt(ks, m, i))
           \/ i = 1 /\ (m = 1 \/ ChildAt(ks, m, i) = late)
RootSorted(ks, lk) ==
    \A m \in Middles : m > 1 =>
        /\ AboveEarlier(lk, RootKey(ks, m), ChildAt(ks, m, 1))
        /\ NotAbove(lk, RootKey(ks, m), ChildAt(ks, m, 1))
        /\ ~Less(KeyAt(ks, m, 1), RootKey(ks, m))

Sorted(ks, lk, late) == LeavesSorted(lk) /\ InnerSorted(ks, lk, late) /\ RootSorted(ks, lk)
Late(cur, f) == IF f = 0 THEN NoNode ELSE cur

TreeInv ==
    /\ KidsOK(kids) /\ ShapeOK(kids) /\ LeavesOK(leafKeys) /\ ParentsOK(parent, kids, orphan)
    /\ current \in Inner \cup Leaves \cup {NoNode} /\ fails \in 0..MaxFetchFails /\ orphan \in BOOLEAN
    /\ fails = 0 => Exact(kids, leafKeys, current)
    /\ fails <= 1 => Sorted(kids, leafKeys, Late(current, fails))

(* A leaf is in one place.                                                 *)
LEMMA OnePlace ==
    ASSUME NEW ks, ShapeOK(ks), NEW m \in Middles, NEW n \in Middles,
           NEW i \in 1..Width(ks, m), NEW k \in 1..Width(ks, n),
           ChildAt(ks, m, i) = ChildAt(ks, n, k)
    PROVE  m = n /\ i = k
<1>1. ~Before(ChildAt(ks, m, i), ChildAt(ks, n, k)) /\ ~Before(ChildAt(ks, n, k), ChildAt(ks, m, i))
  BY FirstTree, Zenon
<1>2. Width(ks, m) \in Nat /\ Width(ks, n) \in Nat /\ m \in Nat /\ n \in Nat
  BY FirstTree, Zenon DEF ShapeOK
<1>3. ~(m < n \/ (m = n /\ i < k)) /\ ~(n < m \/ (n = m /\ k < i))
  BY <1>1, Zenon DEF ShapeOK
<1> QED BY <1>2, <1>3

(* The lookup in one node, with the pairs s: the last place whose key is   *)
(* not greater than k, or the first.                                       *)
PlaceFor(s, k) ==
    LET le == {i \in DOMAIN s : ~Less(k, s[i].key)}
    IN  IF le = {} THEN 1 ELSE CHOOSE i \in le : \A j \in le : j <= i

LEMMA LookupNode ==
    ASSUME NEW S, NEW s \in Seq(S), Len(s) # 0, NEW k
    PROVE  LET h == PlaceFor(s, k)
           IN  /\ h \in 1..Len(s) /\ (h > 1 => ~Less(k, s[h].key))
               /\ \A j \in 1..Len(s) : j > h => Less(k, s[j].key)
<1> DEFINE w == Len(s)
           le == {i \in DOMAIN s : ~Less(k, s[i].key)}
           h == PlaceFor(s, k)
<1>0. w \in Nat \ {0} /\ h = IF le = {} THEN 1 ELSE CHOOSE i \in le : \A j \in le : j <= i
  BY DEF PlaceFor
<1> HIDE DEF h
<1>1. DOMAIN s = 1..w
  OBVIOUS
<1>2. le \subseteq 1..w
  BY <1>1, Zenon
<1>3. CASE le = {}
  BY <1>0, <1>1, <1>3 DEF h
<1>4. CASE le # {}
  <2>1. \E i \in le : \A j \in le : j <= i
    <3>1. le \subseteq Int /\ \A j \in le : j <= w
      BY <1>0, <1>2
    <3>2. w \in Int
      BY <1>0
    <3> HIDE DEF le
    <3> QED BY <1>4, <3>1, <3>2, GreatestOf, Zenon
  <2>2. h \in le /\ \A j \in le : j <= h
    <3> HIDE DEF le
    <3> QED BY <1>0, <1>4, <2>1, Zenon
  <2>3. h \in 1..w /\ ~Less(k, s[h].key)
    BY <1>2, <2>2, Zenon
  <2>4. \A j \in 1..w : j > h => Less(k, s[j].key)
    BY <1>1, <2>2, <2>3
  <2> QED BY <2>3, <2>4, Zenon DEF h
<1> QED BY <1>3, <1>4, Zenon

(* The lookup for k stops in place i of inner node m: what the keys it     *)
(* passed say about k.                                                     *)
RoutedTo(k, m, i) ==
    /\ \A n \in Middles : n > m => Less(k, RootKey(kids, n))
    /\ m > 1 => ~Less(k, RootKey(kids, m))
    /\ \A j \in 1..Width(kids, m) : j > i => Less(k, KeyAt(kids, m, j))
    /\ i > 1 => ~Less(k, KeyAt(kids, m, i))

LEMMA Lookup ==
    ASSUME KidsOK(kids), ShapeOK(kids), NEW k
    PROVE  \E m \in Middles : \E i \in 1..Width(kids, m) :
               LeafFor(k) = ChildAt(kids, m, i) /\ RoutedTo(k, m, i)
<1>1. kids \in [Inner -> Seq(AnyPair)] /\ Len(kids[TreeRoot]) = Len(FirstKids[TreeRoot])
  BY Zenon DEF KidsOK
<1>2. TreeRoot \in Inner
  BY Nodes, Zenon
<1>3. kids[TreeRoot] \in Seq(AnyPair) /\ Len(kids[TreeRoot]) \in Nat \ {0} /\ Middles = 1..Len(kids[TreeRoot])
  <2>1. Len(FirstKids[TreeRoot]) \in Nat \ {0}
    BY FirstTree DEF Middles
  <2> QED BY <1>1, <1>2, <2>1, Zenon DEF Middles
<1> DEFINE m == PlaceFor(kids[TreeRoot], k)
<1>4. /\ m \in Middles /\ (m > 1 => ~Less(k, kids[TreeRoot][m].key))
      /\ \A j \in Middles : j > m => Less(k, kids[TreeRoot][j].key)
  BY <1>3, LookupNode, Zenon
<1>5. ChildFor(TreeRoot, k) = kids[TreeRoot][m].child
  BY Zenon DEF ChildFor, PlaceFor
<1> HIDE DEF m
<1>6. kids[TreeRoot][m].child = Middle(m)
  BY <1>4, Zenon DEF KidsOK
<1>7. Middle(m) \in Inner /\ Width(kids, m) \in Nat \ {0}
  BY <1>4, FirstTree, Zenon DEF ShapeOK
<1>8. kids[Middle(m)] \in Seq(AnyPair) /\ Len(kids[Middle(m)]) = Width(kids, m)
  BY <1>1, <1>7, Zenon DEF Width
<1> DEFINE h == PlaceFor(kids[Middle(m)], k)
<1>9. /\ h \in 1..Width(kids, m) /\ (h > 1 => ~Less(k, kids[Middle(m)][h].key))
      /\ \A j \in 1..Width(kids, m) : j > h => Less(k, kids[Middle(m)][j].key)
  BY <1>7, <1>8, LookupNode, Zenon
<1>10. ChildFor(Middle(m), k) = kids[Middle(m)][h].child
  BY Zenon DEF ChildFor, PlaceFor
<1> HIDE DEF h
<1>11. LeafFor(k) = ChildAt(kids, m, h)
  BY <1>5, <1>6, <1>10, Zenon DEF LeafFor, ChildAt
<1>12. RoutedTo(k, m, h)
  BY <1>4, <1>9, Zenon DEF RoutedTo, RootKey, KeyAt
<1> QED BY <1>4, <1>9, <1>11, <1>12, Zenon

(* Where the tree is sorted, a key leads to the leaf that holds it.        *)
LEMMA FoundWhereItIs ==
    ASSUME ShapeOK(kids), LeavesOK(leafKeys), NEW late, Sorted(kids, leafKeys, late),
           NEW m \in Middles, NEW i \in 1..Width(kids, m),
           NEW n \in Middles, NEW j \in 1..Width(kids, n),
           NEW k \in leafKeys[ChildAt(kids, n, j)], RoutedTo(k, m, i)
    PROVE  n = m /\ j = i
<1>1. /\ m \in Nat /\ n \in Nat /\ i \in Nat /\ j \in Nat /\ m >= 1 /\ n >= 1 /\ i >= 1 /\ j >= 1
      /\ Width(kids, m) \in Nat /\ Width(kids, n) \in Nat
      /\ 1 \in 1..Width(kids, m) /\ 1 \in 1..Width(kids, n)
  <2>1. m \in Nat /\ n \in Nat /\ m >= 1 /\ n >= 1
    BY FirstTree DEF Middles
  <2>2. Width(kids, m) \in Nat \ {0} /\ Width(kids, n) \in Nat \ {0}
    BY Zenon DEF ShapeOK
  <2> QED BY <2>1, <2>2
<1> DEFINE l == ChildAt(kids, n, j)
<1>2. l \in Leaves /\ k \in Keys
  BY Zenon DEF ShapeOK, LeavesOK
<1>3. n > m => FALSE
  <2> HAVE n > m
  <2>1. Less(k, RootKey(kids, n)) /\ RootKey(kids, n) \in Keys
    BY Zenon DEF RoutedTo, ShapeOK
  <2>2. NotAbove(leafKeys, RootKey(kids, n), ChildAt(kids, n, 1))
    BY <1>1 DEF Sorted, RootSorted
  <2>3. CASE j = 1
    BY <2>1, <2>2, <2>3, Zenon DEF NotAbove
  <2>4. CASE j > 1
    <3>1. ChildAt(kids, n, 1) \in Leaves /\ Before(ChildAt(kids, n, 1), l)
      BY <1>1, <2>4, Zenon DEF ShapeOK
    <3>2. PICK x \in leafKeys[ChildAt(kids, n, 1)] : x \in Keys
      BY <3>1, Zenon DEF LeavesOK
    <3>3. Less(x, k)
      BY <1>2, <3>1, Zenon DEF Sorted, LeavesSorted
    <3>4. ~Less(x, RootKey(kids, n))
      BY <2>2, Zenon DEF NotAbove
    <3> QED BY <1>2, <2>1, <3>2, <3>3, <3>4, KeyOrder, Zenon
  <2> QED BY <1>1, <2>3, <2>4
<1>4. n < m => FALSE
  <2> HAVE n < m
  <2>1. Before(l, ChildAt(kids, m, 1))
    BY <1>1, Zenon DEF ShapeOK
  <2>2. AboveEarlier(leafKeys, RootKey(kids, m), ChildAt(kids, m, 1))
    BY <1>1 DEF Sorted, RootSorted
  <2>3. Less(k, RootKey(kids, m))
    BY <1>2, <2>1, <2>2, Zenon DEF AboveEarlier
  <2> QED BY <1>1, <2>3 DEF RoutedTo
<1>5. n = m
  BY <1>1, <1>3, <1>4
<1>6. j > i => FALSE
  <2> HAVE j > i
  <2>1. NotAbove(leafKeys, KeyAt(kids, m, j), l)
    BY <1>1, <1>5 DEF Sorted, InnerSorted
  <2> QED BY <1>5, <2>1, Zenon DEF NotAbove, RoutedTo
<1>7. j < i => FALSE
  <2> HAVE j < i
  <2>1. Before(l, ChildAt(kids, m, i))
    BY <1>1, <1>5, Zenon DEF ShapeOK
  <2>2. Less(k, KeyAt(kids, m, i))
    BY <1>2, <2>1, Zenon DEF Sorted, InnerSorted, AboveEarlier
  <2> QED BY <1>1, <2>2 DEF RoutedTo
<1> QED BY <1>1, <1>5, <1>6, <1>7

(* find_child finds a leaf only below the node that holds it, and an inner *)
(* node in its place in the root.                                          *)
LEMMA LeafRank ==
    ASSUME KidsOK(kids), ShapeOK(kids), ParentsOK(parent, kids, orphan), current \in Leaves,
           Rank \in DOMAIN kids[parent[current]]
    PROVE  \E m \in Middles : /\ parent[current] = Middle(m)
                              /\ Rank \in 1..Width(kids, m) /\ ChildAt(kids, m, Rank) = current
<1>1. parent[current] \in Inner /\ parent[current] # TreeRoot
  BY Nodes, Zenon DEF ParentsOK
<1>2. PICK m \in Middles : parent[current] = Middle(m)
  BY <1>1, FirstTree, Zenon
<1> DEFINE s == kids[Middle(m)]
<1>3. s \in Seq(AnyPair)
  BY <1>1, <1>2, Zenon DEF KidsOK
<1>4. Len(s) \in Nat /\ DOMAIN s = 1..Len(s)
  BY <1>3
<1>5. Rank \in DOMAIN s
  BY <1>2, Zenon
<1>6. Rank = IF \E i \in DOMAIN s : s[i].child = current
             THEN CHOOSE i \in DOMAIN s : s[i].child = current ELSE Len(s) + 1
  BY <1>2, Zenon DEF Rank, FindChild
<1> HIDE DEF s
<1>7. \E i \in DOMAIN s : s[i].child = current
  BY <1>4, <1>5, <1>6
<1>8. s[Rank].child = current
  BY <1>6, <1>7, Zenon
<1> QED BY <1>2, <1>4, <1>5, <1>8, Zenon DEF s, Width, ChildAt

LEMMA InnerRank ==
    ASSUME KidsOK(kids), ParentsOK(parent, kids, orphan), NEW m \in Middles, current = Middle(m)
    PROVE  parent[current] = TreeRoot /\ Rank = m /\ m \in DOMAIN kids[TreeRoot]
<1>1. parent[current] = TreeRoot
  BY Zenon DEF ParentsOK
<1> DEFINE s == kids[TreeRoot]
<1>2. s \in Seq(AnyPair) /\ Len(s) = Len(FirstKids[TreeRoot])
  BY Nodes, Zenon DEF KidsOK
<1>3. DOMAIN s = Middles /\ \A i \in Middles : s[i].child = Middle(i)
  BY <1>2 DEF Middles, KidsOK
<1>4. Rank = IF \E i \in DOMAIN s : s[i].child = current
             THEN CHOOSE i \in DOMAIN s : s[i].child = current ELSE Len(s) + 1
  BY <1>1, Zenon DEF Rank, FindChild
<1> HIDE DEF s
<1>5. \A i \in Middles : s[i].child = current <=> i = m
  <2>1. \A i \in Middles : Middle(i) = Middle(m) => i = m
    BY FirstTree, Zenon
  <2> QED BY <1>3, <2>1, Zenon
<1>6. Rank = m
  BY <1>3, <1>4, <1>5, Zenon
<1> QED BY <1>1, <1>3, <1>6, Zenon DEF s

(* A key is set in place i of inner node n.                                *)
SetKey(ks, n, i, k) == [ks EXCEPT ![n][i].key = k]

LEMMA PairSet ==
    ASSUME NEW ks, NEW n \in Inner, NEW k \in Keys,
           ks \in [Inner -> Seq(AnyPair)],
           NEW i \in 1..Len(ks[n]), NEW kt, kt = SetKey(ks, n, i, k)
    PROVE  /\ kt \in [Inner -> Seq(AnyPair)]
           /\ \A p \in Inner : p # n => kt[p] = ks[p]
           /\ Len(kt[n]) = Len(ks[n])
           /\ kt[n][i].key = k /\ kt[n][i].child = ks[n][i].child
           /\ \A j \in 1..Len(ks[n]) : j # i => kt[n][j] = ks[n][j]
<1> DEFINE s == ks[n]
           pr == s[i]
           q == [pr EXCEPT !.key = k]
           t == [s EXCEPT ![i] = q]
<1>1. s \in Seq(AnyPair) /\ pr \in AnyPair
  BY ItemSeq, Zenon
<1>2. q \in AnyPair /\ q.key = k /\ q.child = pr.child
  <2> HIDE DEF pr
  <2> QED BY <1>1, Zenon DEF AnyPair
<1> HIDE DEF q
<1>3. t \in Seq(AnyPair) /\ Len(t) = Len(s) /\ t[i] = q /\ \A j \in 1..Len(s) : j # i => t[j] = s[j]
  <2> HIDE DEF s
  <2> QED BY <1>1, <1>2 DEF s
<1>4. kt = [ks EXCEPT ![n] = t]
  BY Zenon DEF q, SetKey
<1> HIDE DEF t
<1>5. ks \in [Inner -> Seq(AnyPair)]
  BY Zenon
<1>6. kt \in [Inner -> Seq(AnyPair)] /\ kt[n] = t /\ \A p \in Inner : p # n => kt[p] = ks[p]
  BY <1>3, <1>4, <1>5, Zenon
<1> QED BY <1>2, <1>3,<1>6, Zenon

(* A change of keys only keeps the shape.                                  *)
LEMMA SameShape ==
    ASSUME NEW ks, NEW kt, ShapeOK(ks),
           \A n \in Middles : Width(kt, n) = Width(ks, n) /\ RootKey(kt, n) \in Keys,
           \A n \in Middles : \A j \in 1..Width(ks, n) :
                ChildAt(kt, n, j) = ChildAt(ks, n, j) /\ KeyAt(kt, n, j) \in Keys
    PROVE  ShapeOK(kt)
<1>1. \A m \in Middles : Width(kt, m) \in Nat \ {0} /\ RootKey(kt, m) \in Keys
  BY Zenon DEF ShapeOK
<1>2. \A m \in Middles : \A i \in 1..Width(kt, m) : KeyAt(kt, m, i) \in Keys /\ ChildAt(kt, m, i) \in Leaves
  BY DEF ShapeOK
<1>3. ASSUME NEW l \in Leaves
      PROVE  \E m \in Middles : \E i \in 1..Width(kt, m) : ChildAt(kt, m, i) = l
  <2>1. PICK m \in Middles : \E i \in 1..Width(ks, m) : ChildAt(ks, m, i) = l
    BY Zenon DEF ShapeOK
  <2>2. PICK i \in 1..Width(ks, m) : ChildAt(ks, m, i) = l
    BY <2>1, Zenon
  <2> QED BY <2>2, Zenon
<1>4. ASSUME NEW m \in Middles, NEW n \in Middles, NEW i \in 1..Width(kt, m), NEW k \in 1..Width(kt, n),
             m < n \/ (m = n /\ i < k)
      PROVE  Before(ChildAt(kt, m, i), ChildAt(kt, n, k))
  <2>1. i \in 1..Width(ks, m) /\ k \in 1..Width(ks, n)
    BY Zenon
  <2>2. Before(ChildAt(ks, m, i), ChildAt(ks, n, k))
    BY <1>4, <2>1, Zenon DEF ShapeOK
  <2> QED BY <2>1, <2>2, Zenon
<1> QED BY <1>1, <1>2, <1>3, <1>4, Zenon DEF ShapeOK

(* The key in place i of inner node m.                                     *)
LEMMA KeySet ==
    ASSUME NEW ks, KidsOK(ks), ShapeOK(ks), NEW m \in Middles, NEW i \in 1..Width(ks, m), NEW k \in Keys,
           NEW kt, kt = SetKey(ks, Middle(m), i, k)
    PROVE  /\ KidsOK(kt) /\ ShapeOK(kt)
           /\ \A n \in Middles : /\ Width(kt, n) = Width(ks, n) /\ RootKey(kt, n) = RootKey(ks, n)
                                 /\ \A j \in 1..Width(ks, n) :
                                      /\ ChildAt(kt, n, j) = ChildAt(ks, n, j)
                                      /\ KeyAt(kt, n, j) = IF n = m /\ j = i THEN k ELSE KeyAt(ks, n, j)
<1>1. Middle(m) \in Inner /\ Middle(m) # TreeRoot /\ TreeRoot \in Inner
  BY FirstTree, Nodes, Zenon
<1>2. ks \in [Inner -> Seq(AnyPair)] /\ i \in 1..Len(ks[Middle(m)])
  BY Zenon DEF KidsOK, Width
<1>3. /\ kt \in [Inner -> Seq(AnyPair)]
      /\ \A p \in Inner : p # Middle(m) => kt[p] = ks[p]
      /\ Len(kt[Middle(m)]) = Len(ks[Middle(m)])
      /\ kt[Middle(m)][i].key = k /\ kt[Middle(m)][i].child = ks[Middle(m)][i].child
      /\ \A j \in 1..Len(ks[Middle(m)]) : j # i => kt[Middle(m)][j] = ks[Middle(m)][j]
  BY <1>1, <1>2, PairSet
<1>4. KidsOK(kt)
  BY <1>1, <1>3, Zenon DEF KidsOK
<1>5. \A n \in Middles : n # m => Middle(n) \in Inner /\ Middle(n) # Middle(m)
  BY FirstTree, Zenon
<1>6. \A n \in Middles : /\ Width(kt, n) = Width(ks, n) /\ RootKey(kt, n) = RootKey(ks, n)
                         /\ \A j \in 1..Width(ks, n) :
                              /\ ChildAt(kt, n, j) = ChildAt(ks, n, j)
                              /\ KeyAt(kt, n, j) = IF n = m /\ j = i THEN k ELSE KeyAt(ks, n, j)
  <2> SUFFICES ASSUME NEW n \in Middles
               PROVE  /\ Width(kt, n) = Width(ks, n) /\ RootKey(kt, n) = RootKey(ks, n)
                      /\ \A j \in 1..Width(ks, n) :
                              /\ ChildAt(kt, n, j) = ChildAt(ks, n, j)
                              /\ KeyAt(kt, n, j) = IF n = m /\ j = i THEN k ELSE KeyAt(ks, n, j)
    BY Zenon
  <2>1. RootKey(kt, n) = RootKey(ks, n)
    BY <1>1, <1>3, Zenon DEF RootKey
  <2>2. CASE n = m
    BY <1>3, <2>1, <2>2, Zenon DEF Width, ChildAt, KeyAt
  <2>3. CASE n # m
    BY <1>3, <1>5, <2>1, <2>3, Zenon DEF Width, ChildAt, KeyAt
  <2> QED BY <2>2, <2>3, Zenon
<1>7. ShapeOK(kt)
  <2>1. \A n \in Middles : Width(kt, n) = Width(ks, n) /\ RootKey(kt, n) \in Keys
    BY <1>6, Zenon DEF ShapeOK
  <2>2. \A n \in Middles : \A j \in 1..Width(ks, n) :
          ChildAt(kt, n, j) = ChildAt(ks, n, j) /\ KeyAt(kt, n, j) \in Keys
    BY <1>6, Zenon DEF ShapeOK
  <2> QED BY <2>1, <2>2, SameShape, Zenon
<1> QED BY <1>4, <1>6, <1>7, Zenon

(* The key of inner node m in the root.                                    *)
LEMMA RootKeySet ==
    ASSUME NEW ks, KidsOK(ks), ShapeOK(ks), NEW m \in Middles, NEW k \in Keys,
           NEW kt, kt = SetKey(ks, TreeRoot, m, k)
    PROVE  /\ KidsOK(kt) /\ ShapeOK(kt)
           /\ \A n \in Middles : /\ Width(kt, n) = Width(ks, n)
                                 /\ RootKey(kt, n) = IF n = m THEN k ELSE RootKey(ks, n)
                                 /\ \A j \in 1..Width(ks, n) : /\ ChildAt(kt, n, j) = ChildAt(ks, n, j)
                                                               /\ KeyAt(kt, n, j) = KeyAt(ks, n, j)
<1>1. TreeRoot \in Inner /\ \A n \in Middles : Middle(n) \in Inner /\ Middle(n) # TreeRoot
  BY FirstTree, Nodes, Zenon
<1>2. ks \in [Inner -> Seq(AnyPair)] /\ m \in 1..Len(ks[TreeRoot]) /\ Middles = 1..Len(ks[TreeRoot])
  BY Zenon DEF KidsOK, Middles
<1>3. /\ kt \in [Inner -> Seq(AnyPair)]
      /\ \A p \in Inner : p # TreeRoot => kt[p] = ks[p]
      /\ Len(kt[TreeRoot]) = Len(ks[TreeRoot])
      /\ kt[TreeRoot][m].key = k /\ kt[TreeRoot][m].child = ks[TreeRoot][m].child
      /\ \A j \in Middles : j # m => kt[TreeRoot][j] = ks[TreeRoot][j]
  BY <1>1, <1>2, PairSet
<1>4. KidsOK(kt)
  BY <1>3, Zenon DEF KidsOK
<1>5. \A n \in Middles : /\ Width(kt, n) = Width(ks, n)
                         /\ RootKey(kt, n) = IF n = m THEN k ELSE RootKey(ks, n)
                         /\ \A j \in 1..Width(ks, n) : /\ ChildAt(kt, n, j) = ChildAt(ks, n, j)
                                                       /\ KeyAt(kt, n, j) = KeyAt(ks, n, j)
  BY <1>1, <1>3, Zenon DEF Width, ChildAt, KeyAt, RootKey
<1>6. ShapeOK(kt)
  <2>1. \A n \in Middles : Width(kt, n) = Width(ks, n) /\ RootKey(kt, n) \in Keys
    BY <1>5, Zenon DEF ShapeOK
  <2>2. \A n \in Middles : \A j \in 1..Width(ks, n) :
          ChildAt(kt, n, j) = ChildAt(ks, n, j) /\ KeyAt(kt, n, j) \in Keys
    BY <1>5, Zenon DEF ShapeOK
  <2> QED BY <2>1, <2>2, SameShape, Zenon
<1> QED BY <1>4, <1>5, <1>6, Zenon

(* insert_entry puts k where the lookup leads: the tree stays sorted.  The *)
(* key of the leaf may be above k only in the first leaf, or where the     *)
(* root was left behind by a failed fetch.                                 *)
LEMMA InsertSorted ==
    ASSUME ShapeOK(kids), LeavesOK(leafKeys), Sorted(kids, leafKeys, NoNode),
           NEW k \in Keys, NEW m \in Middles, NEW i \in 1..Width(kids, m), RoutedTo(k, m, i),
           NEW lk, lk = [leafKeys EXCEPT ![ChildAt(kids, m, i)] = @ \cup {k}],
           NEW late, RootKey(kids, m) = KeyAt(kids, m, 1) \/ late = ChildAt(kids, m, i)
    PROVE  Sorted(kids, lk, late)
<1> DEFINE l == ChildAt(kids, m, i)
<1>1. /\ m \in Nat /\ i \in Nat /\ m >= 1 /\ i >= 1 /\ \A n \in Middles : n \in Nat /\ n >= 1
      /\ \A n \in Middles : Width(kids, n) \in Nat /\ 1 \in 1..Width(kids, n)
  BY FirstTree DEF ShapeOK, Middles
<1>2. /\ l \in Leaves /\ lk[l] = leafKeys[l] \cup {k} /\ \A a \in Leaves : a # l => lk[a] = leafKeys[a]
      /\ \A a \in Leaves : leafKeys[a] \subseteq Keys /\ leafKeys[a] # {}
  BY Zenon DEF ShapeOK, LeavesOK
<1>3. \A n \in Middles : \A j \in 1..Width(kids, n) :
        ChildAt(kids, n, j) \in Leaves /\ KeyAt(kids, n, j) \in Keys /\ RootKey(kids, n) \in Keys
  BY Zenon DEF ShapeOK
<1>4. ASSUME NEW n \in Middles, NEW j \in 1..Width(kids, n), Before(ChildAt(kids, n, j), l)
      PROVE  n < m \/ (n = m /\ j < i)
  <2>1. ~Before(l, ChildAt(kids, n, j)) /\ ChildAt(kids, n, j) # l
    BY <1>4, FirstTree, Zenon
  <2>2. ~(m < n \/ (m = n /\ i < j)) /\ ~(m = n /\ i = j)
    BY <2>1, Zenon DEF ShapeOK
  <2>3. j \in Nat
    BY <1>1
  <2> QED BY <1>1, <2>2, <2>3
<1>5. ASSUME NEW n \in Middles, NEW j \in 1..Width(kids, n), Before(l, ChildAt(kids, n, j))
      PROVE  m < n \/ (n = m /\ i < j)
  <2>1. ~Before(ChildAt(kids, n, j), l) /\ ChildAt(kids, n, j) # l
    BY <1>5, FirstTree, Zenon
  <2>2. ~(n < m \/ (m = n /\ j < i)) /\ ~(m = n /\ i = j)
    BY <2>1, Zenon DEF ShapeOK
  <2>3. j \in Nat
    BY <1>1
  <2> QED BY <1>1, <2>2, <2>3
<1>6. \A a \in Leaves : \E n \in Middles : \E j \in 1..Width(kids, n) : a = ChildAt(kids, n, j)
  BY Zenon DEF ShapeOK
(* The keys before l are below k.                                          *)
<1>7. ASSUME NEW a \in Leaves, Before(a, l), NEW x \in leafKeys[a]
      PROVE  Less(x, k)
  <2>1. PICK n \in Middles : \E j \in 1..Width(kids, n) : a = ChildAt(kids, n, j)
    BY <1>6, Zenon
  <2>2. PICK j \in 1..Width(kids, n) : a = ChildAt(kids, n, j)
    BY <2>1, Zenon
  <2>3. n < m \/ (n = m /\ j < i)
    BY <1>4, <1>7, <2>2, Zenon
  <2>4. x \in Keys
    BY <1>2, Zenon
  <2>5. CASE i > 1
    <3>1. Less(x, KeyAt(kids, m, i)) /\ ~Less(k, KeyAt(kids, m, i))
      BY <1>7, <2>5, Zenon DEF Sorted, InnerSorted, AboveEarlier, RoutedTo
    <3> QED BY <1>3, <2>4, <3>1, KeyOrder, Zenon
  <2>6. CASE i = 1
    <3>1. m > 1
      BY <1>1, <2>3, <2>6
    <3>2. Less(x, RootKey(kids, m)) /\ ~Less(k, RootKey(kids, m))
      BY <1>7, <2>6, <3>1, Zenon DEF Sorted, RootSorted, AboveEarlier, RoutedTo
    <3> QED BY <1>3, <2>4, <3>2, KeyOrder, Zenon
  <2> QED BY <1>1, <2>5, <2>6
(* k is below the keys of the root and of inner nodes behind l.            *)
<1>8. ASSUME NEW n \in Middles, NEW j \in 1..Width(kids, n), m < n \/ (n = m /\ i < j)
      PROVE  Less(k, KeyAt(kids, n, j))
  <2>1. CASE n = m
    BY <1>1, <1>8, <2>1 DEF RoutedTo
  <2>2. CASE m < n
    <3>1. Less(k, RootKey(kids, n)) /\ n > 1
      BY <1>1, <2>2 DEF RoutedTo
    <3>2. CASE j = 1
      <4>1. ~Less(KeyAt(kids, n, j), RootKey(kids, n))
        BY <3>1, <3>2, Zenon DEF Sorted, RootSorted
      <4> QED BY <1>3, <3>1, <4>1, KeyOrder, Zenon
    <3>3. CASE j > 1
      <4>1. 1 \in 1..Width(kids, n) /\ ChildAt(kids, n, 1) \in Leaves
        BY <1>1, <1>3, Zenon
      <4>2. Before(ChildAt(kids, n, 1), ChildAt(kids, n, j))
        BY <3>3, <4>1, Zenon DEF ShapeOK
      <4>3. PICK x \in leafKeys[ChildAt(kids, n, 1)] : x \in Keys
        BY <1>2, <4>1, Zenon
      <4>4. ~Less(x, RootKey(kids, n))
        BY <3>1, Zenon DEF Sorted, RootSorted, NotAbove
      <4>5. Less(x, KeyAt(kids, n, j))
        BY <4>1, <4>2, Zenon DEF Sorted, InnerSorted, AboveEarlier
      <4>6. Less(k, x)
        BY <1>3, <3>1, <4>3, <4>4, KeyOrder, Zenon
      <4> QED BY <1>3, <4>3, <4>5, <4>6, KeyOrder, Zenon
    <3> QED BY <1>1, <3>2, <3>3
  <2> QED BY <1>1, <1>8, <2>1, <2>2, Zenon
(* And so below all the keys behind l.                                     *)
<1>9. ASSUME NEW a \in Leaves, Before(l, a), NEW x \in leafKeys[a]
      PROVE  Less(k, x)
  <2>1. PICK n \in Middles : \E j \in 1..Width(kids, n) : a = ChildAt(kids, n, j)
    BY <1>6, Zenon
  <2>2. PICK j \in 1..Width(kids, n) : a = ChildAt(kids, n, j)
    BY <2>1, Zenon
  <2>3. m < n \/ (n = m /\ i < j)
    BY <1>5, <1>9, <2>2, Zenon
  <2>4. x \in Keys /\ j \in Nat
    BY <1>1, <1>2
  <2>5. CASE j > 1
    <3>1. ~Less(x, KeyAt(kids, n, j))
      <4>1. NotAbove(leafKeys, KeyAt(kids, n, j), ChildAt(kids, n, j))
        BY <2>5 DEF Sorted, InnerSorted
      <4> QED BY <2>2, <4>1, Zenon DEF NotAbove
    <3>2. Less(k, KeyAt(kids, n, j))
      BY <1>8, <2>3, Zenon
    <3> QED BY <1>3, <2>4, <3>1, <3>2, KeyOrder, Zenon
  <2>6. CASE j = 1
    <3>1. m < n /\ n > 1
      BY <1>1, <2>3, <2>6
    <3>2. Less(k, RootKey(kids, n)) /\ ~Less(x, RootKey(kids, n))
      BY <1>9, <2>2, <2>6, <3>1, Zenon DEF Sorted, RootSorted, NotAbove, RoutedTo
    <3> QED BY <1>3, <2>4, <3>2, KeyOrder, Zenon
  <2> QED BY <1>1, <2>4, <2>5, <2>6
<1>10. LeavesSorted(lk)
  <2> SUFFICES ASSUME NEW a \in Leaves, NEW b \in Leaves, Before(a, b), NEW x \in lk[a], NEW y \in lk[b]
               PROVE  Less(x, y)
    BY Zenon DEF LeavesSorted
  <2>1. a # b
    BY FirstTree, Zenon
  <2>2. x \in leafKeys[a] /\ y \in leafKeys[b] => Less(x, y)
    BY Zenon DEF Sorted, LeavesSorted
  <2>3. CASE a = l /\ x = k
    BY <1>2, <1>9, <2>1, <2>3, Zenon
  <2>4. CASE b = l /\ y = k
    BY <1>2, <1>7, <2>1, <2>4, Zenon
  <2> QED BY <1>2, <2>1, <2>2, <2>3, <2>4, Zenon
<1>11. ASSUME NEW n \in Middles, NEW j \in 1..Width(kids, n)
       PROVE  AboveEarlier(lk, KeyAt(kids, n, j), ChildAt(kids, n, j))
  <2> SUFFICES ASSUME NEW a \in Leaves, Before(a, ChildAt(kids, n, j)), NEW x \in lk[a]
               PROVE  Less(x, KeyAt(kids, n, j))
    BY Zenon DEF AboveEarlier
  <2>1. x \in leafKeys[a] => Less(x, KeyAt(kids, n, j))
    BY Zenon DEF Sorted, InnerSorted, AboveEarlier
  <2>2. CASE a = l /\ x = k
    BY <1>5, <1>8, <2>2, Zenon
  <2> QED BY <1>2, <2>1, <2>2, Zenon
<1>12. ASSUME NEW n \in Middles, NEW j \in 1..Width(kids, n)
       PROVE  \/ NotAbove(lk, KeyAt(kids, n, j), ChildAt(kids, n, j))
              \/ j = 1 /\ (n = 1 \/ ChildAt(kids, n, j) = late)
  <2> DEFINE c == ChildAt(kids, n, j)
  <2>1. NotAbove(leafKeys, KeyAt(kids, n, j), c) \/ (j = 1 /\ n = 1)
    BY <1>3, Nodes, Zenon DEF Sorted, InnerSorted
  <2>2. CASE c # l
    BY <1>2, <1>3, <2>1, <2>2, Zenon DEF NotAbove
  <2>3. CASE c = l
    <3>1. n = m /\ j = i
      BY <2>3, OnePlace
    <3>2. CASE i > 1
      BY <1>2, <2>1, <2>3, <3>1, <3>2, Zenon DEF NotAbove, RoutedTo
    <3>3. CASE i = 1 /\ m > 1 /\ RootKey(kids, m) = KeyAt(kids, m, 1)
      BY <1>2, <2>1, <2>3, <3>1, <3>3, Zenon DEF NotAbove, RoutedTo
    <3> QED BY <1>1, <2>3, <3>1, <3>2, <3>3
  <2> QED BY <2>2, <2>3, Zenon
<1>13. InnerSorted(kids, lk, late)
  BY <1>11, <1>12, Zenon DEF InnerSorted
<1>14. ASSUME NEW n \in Middles, n > 1
       PROVE  /\ AboveEarlier(lk, RootKey(kids, n), ChildAt(kids, n, 1))
              /\ NotAbove(lk, RootKey(kids, n), ChildAt(kids, n, 1))
              /\ ~Less(KeyAt(kids, n, 1), RootKey(kids, n))
  <2>0. 1 \in 1..Width(kids, n)
    BY <1>1, Zenon
  <2>1. ASSUME NEW a \in Leaves, Before(a, ChildAt(kids, n, 1)), NEW x \in lk[a]
        PROVE  Less(x, RootKey(kids, n))
    <3>1. x \in leafKeys[a] => Less(x, RootKey(kids, n))
      BY <1>14, <2>1, Zenon DEF Sorted, RootSorted, AboveEarlier
    <3>2. CASE a = l /\ x = k
      <4>1. m < n
        BY <1>1, <1>5, <2>0, <2>1, <3>2
      <4> QED BY <3>2, <4>1, Zenon DEF RoutedTo
    <3> QED BY <1>2, <3>1, <3>2, Zenon
  <2>2. ASSUME NEW x \in lk[ChildAt(kids, n, 1)]
        PROVE  ~Less(x, RootKey(kids, n))
    <3>1. x \in leafKeys[ChildAt(kids, n, 1)] => ~Less(x, RootKey(kids, n))
      BY <1>14, Zenon DEF Sorted, RootSorted, NotAbove
    <3>2. CASE ChildAt(kids, n, 1) = l /\ x = k
      <4>1. n = m
        BY <2>0, <3>2, OnePlace
      <4> QED BY <1>14, <3>2, <4>1, Zenon DEF RoutedTo
    <3> QED BY <1>2, <1>3, <2>0, <3>1, <3>2, Zenon
  <2>3. ~Less(KeyAt(kids, n, 1), RootKey(kids, n))
    BY <1>14, Zenon DEF Sorted, RootSorted
  <2> QED BY <2>1, <2>2, <2>3, Zenon DEF AboveEarlier, NotAbove
<1>15. RootSorted(kids, lk)
  BY <1>14, Zenon DEF RootSorted
<1> QED BY <1>10, <1>13, <1>15, Zenon DEF Sorted

(* delete_entry takes keys away: the tree stays sorted.                    *)
LEMMA DeleteSorted ==
    ASSUME ShapeOK(kids), NEW lk, NEW old, Sorted(kids, leafKeys, old), NEW late,
           \A l \in Leaves : lk[l] \subseteq leafKeys[l], old = NoNode \/ old = late
    PROVE  Sorted(kids, lk, late)
<1>1. LeavesSorted(lk)
  BY Zenon DEF Sorted, LeavesSorted
<1>2. ASSUME NEW n \in Middles, NEW j \in 1..Width(kids, n)
      PROVE  /\ AboveEarlier(lk, KeyAt(kids, n, j), ChildAt(kids, n, j))
             /\ \/ NotAbove(lk, KeyAt(kids, n, j), ChildAt(kids, n, j))
                \/ j = 1 /\ (n = 1 \/ ChildAt(kids, n, j) = late)
  <2>1. ChildAt(kids, n, j) \in Leaves /\ NoNode \notin Leaves
    BY Nodes, Zenon DEF ShapeOK
  <2> QED BY <2>1, Zenon DEF Sorted, InnerSorted, AboveEarlier, NotAbove
<1>3. ASSUME NEW n \in Middles, n > 1
      PROVE  /\ AboveEarlier(lk, RootKey(kids, n), ChildAt(kids, n, 1))
             /\ NotAbove(lk, RootKey(kids, n), ChildAt(kids, n, 1))
             /\ ~Less(KeyAt(kids, n, 1), RootKey(kids, n))
  <2>1. ChildAt(kids, n, 1) \in Leaves
    BY DEF ShapeOK
  <2> QED BY <1>3, <2>1, Zenon DEF Sorted, RootSorted, AboveEarlier, NotAbove
<1> QED BY <1>1, <1>2, <1>3, Zenon DEF Sorted, InnerSorted, RootSorted

(* update_ancestor_keys puts the first key of a leaf into its place: the   *)
(* tree stays sorted, and this key is above none of its leaf any more.     *)
LEMMA LeafKeySorted ==
    ASSUME ShapeOK(kids), LeavesOK(leafKeys), NEW m \in Middles, NEW i \in 1..Width(kids, m),
           Sorted(kids, leafKeys, ChildAt(kids, m, i)), NEW kt, NEW late,
           \A n \in Middles : /\ Width(kt, n) = Width(kids, n) /\ RootKey(kt, n) = RootKey(kids, n)
                              /\ \A j \in 1..Width(kids, n) :
                                   /\ ChildAt(kt, n, j) = ChildAt(kids, n, j)
                                   /\ KeyAt(kt, n, j) = IF n = m /\ j = i
                                                        THEN FirstOf(leafKeys[ChildAt(kids, m, i)])
                                                        ELSE KeyAt(kids, n, j)
    PROVE  Sorted(kt, leafKeys, late)
<1> DEFINE l == ChildAt(kids, m, i)
           f == FirstOf(leafKeys[l])
<1>1. l \in Leaves /\ leafKeys[l] \in SUBSET Keys /\ leafKeys[l] # {} /\ IsFiniteSet(leafKeys[l])
  BY Zenon DEF ShapeOK, LeavesOK
<1>2. f \in leafKeys[l] /\ \A x \in leafKeys[l] : ~Less(x, f)
  BY <1>1, FirstOfKeys, Zenon
<1> HIDE DEF f
<1>3. AboveEarlier(leafKeys, f, l) /\ NotAbove(leafKeys, f, l)
  BY <1>1, <1>2, Zenon DEF Sorted, LeavesSorted, AboveEarlier, NotAbove
<1>4. ASSUME NEW n \in Middles, NEW j \in 1..Width(kt, n)
      PROVE  /\ AboveEarlier(leafKeys, KeyAt(kt, n, j), ChildAt(kt, n, j))
             /\ \/ NotAbove(leafKeys, KeyAt(kt, n, j), ChildAt(kt, n, j))
                \/ j = 1 /\ (n = 1 \/ ChildAt(kt, n, j) = late)
  <2>1. j \in 1..Width(kids, n) /\ ChildAt(kt, n, j) = ChildAt(kids, n, j)
    BY Zenon
  <2>2. CASE n = m /\ j = i
    BY <1>3, <2>1, <2>2, Zenon DEF f
  <2>3. CASE ~(n = m /\ j = i)
    <3>1. ChildAt(kids, n, j) # l
      BY <2>1, <2>3, OnePlace
    <3>2. KeyAt(kt, n, j) = KeyAt(kids, n, j)
      BY <2>1, <2>3, Zenon
    <3> QED BY <2>1, <3>1, <3>2, Zenon DEF Sorted, InnerSorted
  <2> QED BY <2>2, <2>3, Zenon
<1>5. ASSUME NEW n \in Middles, n > 1
      PROVE  /\ AboveEarlier(leafKeys, RootKey(kt, n), ChildAt(kt, n, 1))
             /\ NotAbove(leafKeys, RootKey(kt, n), ChildAt(kt, n, 1))
             /\ ~Less(KeyAt(kt, n, 1), RootKey(kt, n))
  <2>1. 1 \in 1..Width(kids, n)
    BY DEF ShapeOK
  <2>2. RootKey(kt, n) = RootKey(kids, n) /\ ChildAt(kt, n, 1) = ChildAt(kids, n, 1)
    BY <2>1, Zenon
  <2>3. /\ AboveEarlier(leafKeys, RootKey(kids, n), ChildAt(kids, n, 1))
        /\ NotAbove(leafKeys, RootKey(kids, n), ChildAt(kids, n, 1))
        /\ ~Less(KeyAt(kids, n, 1), RootKey(kids, n))
    BY <1>5, Zenon DEF Sorted, RootSorted
  <2>4. CASE n = m /\ i = 1
    <3>1. KeyAt(kt, n, 1) = f
      BY <2>1, <2>4, Zenon DEF f
    <3>2. ~Less(f, RootKey(kids, n))
      BY <1>2, <2>3, <2>4, Zenon DEF NotAbove
    <3> QED BY <2>2, <2>3, <3>1, <3>2, Zenon
  <2>5. CASE ~(n = m /\ i = 1)
    <3>1. KeyAt(kt, n, 1) = KeyAt(kids, n, 1)
      BY <2>1, <2>5, Zenon
    <3> QED BY <2>2, <2>3, <3>1, Zenon
  <2> QED BY <2>4, <2>5, Zenon
<1>6. InnerSorted(kt, leafKeys, late)
  BY <1>4, Zenon DEF InnerSorted
<1>7. RootSorted(kt, leafKeys)
  BY <1>5, Zenon DEF RootSorted
<1> QED BY <1>6, <1>7, Zenon DEF Sorted

(* And the first key of an inner node into the root.                       *)
LEMMA RootKeySorted ==
    ASSUME ShapeOK(kids), NEW m \in Middles, NEW old, Sorted(kids, leafKeys, old), old \notin Leaves,
           NEW kt, NEW late,
           \A n \in Middles : /\ Width(kt, n) = Width(kids, n)
                              /\ RootKey(kt, n) = IF n = m THEN KeyAt(kids, m, 1) ELSE RootKey(kids, n)
                              /\ \A j \in 1..Width(kids, n) : /\ ChildAt(kt, n, j) = ChildAt(kids, n, j)
                                                              /\ KeyAt(kt, n, j) = KeyAt(kids, n, j)
    PROVE  Sorted(kt, leafKeys, late)
<1>1. ASSUME NEW n \in Middles, NEW j \in 1..Width(kids, n)
      PROVE  /\ AboveEarlier(leafKeys, KeyAt(kids, n, j), ChildAt(kids, n, j))
             /\ NotAbove(leafKeys, KeyAt(kids, n, j), ChildAt(kids, n, j)) \/ (j = 1 /\ n = 1)
  <2>1. ChildAt(kids, n, j) \in Leaves
    BY Zenon DEF ShapeOK
  <2> QED BY <2>1, Zenon DEF Sorted, InnerSorted
<1>2. InnerSorted(kt, leafKeys, late)
  BY <1>1 DEF InnerSorted
<1>3. ASSUME NEW n \in Middles, n > 1
      PROVE  /\ AboveEarlier(leafKeys, RootKey(kt, n), ChildAt(kt, n, 1))
             /\ NotAbove(leafKeys, RootKey(kt, n), ChildAt(kt, n, 1))
             /\ ~Less(KeyAt(kt, n, 1), RootKey(kt, n))
  <2>1. 1 \in 1..Width(kids, n) /\ KeyAt(kids, n, 1) \in Keys
    BY DEF ShapeOK
  <2>2. KeyAt(kt, n, 1) = KeyAt(kids, n, 1) /\ ChildAt(kt, n, 1) = ChildAt(kids, n, 1)
    BY <2>1, Zenon
  <2>3. CASE n = m
    <3>1. RootKey(kt, n) = KeyAt(kids, n, 1)
      BY <2>3, Zenon
    <3>2. ~Less(KeyAt(kids, n, 1), KeyAt(kids, n, 1))
      BY <2>1, KeyOrder, Zenon
    <3>3. /\ AboveEarlier(leafKeys, KeyAt(kids, n, 1), ChildAt(kids, n, 1))
          /\ NotAbove(leafKeys, KeyAt(kids, n, 1), ChildAt(kids, n, 1))
      BY <1>1, <1>3, <2>1
    <3> QED BY <2>2, <3>1, <3>2, <3>3, Zenon
  <2>4. CASE n # m
    <3>1. RootKey(kt, n) = RootKey(kids, n)
      BY <2>4, Zenon
    <3> QED BY <1>3, <2>2, <3>1, Zenon DEF Sorted, RootSorted
  <2> QED BY <2>3, <2>4, Zenon
<1>4. RootSorted(kt, leafKeys)
  BY <1>3, Zenon DEF RootSorted
<1> QED BY <1>2, <1>4, Zenon DEF Sorted

(* redistribute between inner nodes t and t + 1: the place (OldNode,       *)
(* OldPlace) that the pair now in place i of node m had before.            *)
OldNode(ks, t, right, m, i) ==
    IF right /\ m = t + 1 /\ i = 1 THEN t
    ELSE IF ~right /\ m = t /\ i = Width(ks, t) + 1 THEN t + 1
    ELSE m
OldPlace(ks, t, right, m, i) ==
    IF right /\ m = t + 1 THEN (IF i = 1 THEN Width(ks, t) ELSE i - 1)
    ELSE IF ~right /\ m = t /\ i = Width(ks, t) + 1 THEN 1
    ELSE IF ~right /\ m = t + 1 THEN i + 1
    ELSE i
NewWidth(ks, t, right, m) ==
    IF m = t THEN (IF right THEN Width(ks, t) - 1 ELSE Width(ks, t) + 1)
    ELSE IF m = t + 1 THEN (IF right THEN Width(ks, m) + 1 ELSE Width(ks, m) - 1)
    ELSE Width(ks, m)
Moved(ks, kt, t, right) ==
    /\ Width(ks, IF right THEN t ELSE t + 1) > 1
    /\ \A m \in Middles : Width(kt, m) = NewWidth(ks, t, right, m)
    /\ \A m \in Middles : \A i \in 1..Width(kt, m) :
         kt[Middle(m)][i] = ks[Middle(OldNode(ks, t, right, m, i))][OldPlace(ks, t, right, m, i)]
    /\ \A m \in Middles : RootKey(kt, m) = IF m = t + 1 THEN KeyAt(kt, m, 1) ELSE RootKey(ks, m)

(* The old places are places, every one is taken by one pair, and their    *)
(* order is that of the new ones.                                          *)
LEMMA OldPlaces ==
    ASSUME NEW ks, ShapeOK(ks), NEW t \in Middles, t + 1 \in Middles, NEW right \in BOOLEAN,
           Width(ks, IF right THEN t ELSE t + 1) > 1
    PROVE  /\ \A m \in Middles : NewWidth(ks, t, right, m) \in Nat \ {0}
           /\ \A m \in Middles : \A i \in 1..NewWidth(ks, t, right, m) :
                /\ OldNode(ks, t, right, m, i) \in Middles
                /\ OldPlace(ks, t, right, m, i) \in 1..Width(ks, OldNode(ks, t, right, m, i))
           /\ \A m, n \in Middles :
                \A i \in 1..NewWidth(ks, t, right, m), k \in 1..NewWidth(ks, t, right, n) :
                  m < n \/ (m = n /\ i < k) =>
                    \/ OldNode(ks, t, right, m, i) < OldNode(ks, t, right, n, k)
                    \/ /\ OldNode(ks, t, right, m, i) = OldNode(ks, t, right, n, k)
                       /\ OldPlace(ks, t, right, m, i) < OldPlace(ks, t, right, n, k)
           /\ \A n \in Middles : \A k \in 1..Width(ks, n) :
                \E m \in Middles : \E i \in 1..NewWidth(ks, t, right, m) :
                  OldNode(ks, t, right, m, i) = n /\ OldPlace(ks, t, right, m, i) = k
<1>1. /\ t \in Nat /\ Middles \subseteq Nat
      /\ \A m \in Middles : Width(ks, m) \in Nat \ {0}
  BY FirstTree, Zenon DEF ShapeOK
<1>2. \A m \in Middles : NewWidth(ks, t, right, m) \in Nat \ {0}
  BY <1>1 DEF NewWidth
<1>3. \A m \in Middles : \A i \in 1..NewWidth(ks, t, right, m) :
        /\ OldNode(ks, t, right, m, i) \in Middles
        /\ OldPlace(ks, t, right, m, i) \in 1..Width(ks, OldNode(ks, t, right, m, i))
  BY <1>1, <1>2 DEF NewWidth, OldNode, OldPlace
<1>4. ASSUME NEW m \in Middles, NEW n \in Middles,
             NEW i \in 1..NewWidth(ks, t, right, m), NEW k \in 1..NewWidth(ks, t, right, n),
             m < n \/ (m = n /\ i < k)
      PROVE  \/ OldNode(ks, t, right, m, i) < OldNode(ks, t, right, n, k)
             \/ /\ OldNode(ks, t, right, m, i) = OldNode(ks, t, right, n, k)
                /\ OldPlace(ks, t, right, m, i) < OldPlace(ks, t, right, n, k)
  <2>1. m \in Nat /\ n \in Nat /\ i \in Nat /\ k \in Nat /\ i >= 1 /\ k >= 1
    BY <1>1, <1>2
  <2>2. /\ Width(ks, t) \in Nat /\ Width(ks, t + 1) \in Nat
        /\ i <= NewWidth(ks, t, right, m) /\ k <= NewWidth(ks, t, right, n)
    BY <1>1, <1>2
  <2>3. CASE right
    BY <1>1, <1>4, <2>1, <2>2, <2>3 DEF NewWidth, OldNode, OldPlace
  <2>4. CASE ~right
    BY <1>1, <1>4, <2>1, <2>2, <2>4 DEF NewWidth, OldNode, OldPlace
  <2> QED BY <2>3, <2>4, Zenon
<1>5. ASSUME NEW n \in Middles, NEW k \in 1..Width(ks, n)
      PROVE  \E m \in Middles : \E i \in 1..NewWidth(ks, t, right, m) :
               OldNode(ks, t, right, m, i) = n /\ OldPlace(ks, t, right, m, i) = k
  <2> DEFINE m == IF right /\ n = t /\ k = Width(ks, t) THEN t + 1
                  ELSE IF ~right /\ n = t + 1 /\ k = 1 THEN t
                  ELSE n
             i == IF right /\ n = t /\ k = Width(ks, t) THEN 1
                  ELSE IF right /\ n = t + 1 THEN k + 1
                  ELSE IF ~right /\ n = t + 1 THEN (IF k = 1 THEN Width(ks, t) + 1 ELSE k - 1)
                  ELSE k
  <2>1. m \in Middles
    BY Zenon
  <2>2. n \in Nat /\ k \in Nat /\ Width(ks, n) \in Nat /\ Width(ks, t) \in Nat /\ Width(ks, t + 1) \in Nat
    BY <1>1
  <2>3. i \in 1..NewWidth(ks, t, right, m)
    BY <1>1, <2>2 DEF NewWidth
  <2>4. OldNode(ks, t, right, m, i) = n /\ OldPlace(ks, t, right, m, i) = k
    BY <1>1, <2>2 DEF OldNode, OldPlace
  <2> QED BY <2>1, <2>3, <2>4, Zenon
<1> QED BY <1>2, <1>3, <1>4, <1>5, Zenon

(* What redistribute does to the pairs.                                    *)
LEMMA RedistributeMoves ==
    ASSUME KidsOK(kids), ShapeOK(kids), NEW t \in 1..(Len(kids[TreeRoot]) - 1), NEW right \in BOOLEAN,
           Redistribute(t, right)
    PROVE  /\ t \in Middles /\ t + 1 \in Middles
           /\ KidsOK(kids') /\ Moved(kids, kids', t, right)
           /\ \/ /\ orphan' = orphan
                 /\ parent' = [parent EXCEPT
                      ![ChildAt(kids, IF right THEN t ELSE t + 1, IF right THEN Width(kids, t) ELSE 1)] =
                        Middle(IF right THEN t + 1 ELSE t)]
              \/ orphan' = TRUE /\ parent' = parent
<1> DEFINE l == kids[TreeRoot][t].child
           r == kids[TreeRoot][t + 1].child
           pair == IF right THEN kids[l][Len(kids[l])] ELSE kids[r][1]
           newL == IF right THEN SubSeq(kids[l], 1, Len(kids[l]) - 1) ELSE Append(kids[l], pair)
           newR == IF right THEN <<pair>> \o kids[r] ELSE Tail(kids[r])
<1>1. /\ TreeRoot \in Inner /\ Len(kids[TreeRoot]) = Len(FirstKids[TreeRoot])
      /\ Len(FirstKids[TreeRoot]) \in Nat /\ kids \in [Inner -> Seq(AnyPair)]
  BY FirstTree, Nodes, Zenon DEF KidsOK
<1>2. t \in Middles /\ t + 1 \in Middles /\ t \in Nat
  BY <1>1 DEF Middles
<1>3. l = Middle(t) /\ r = Middle(t + 1)
  BY <1>2, Zenon DEF KidsOK
<1>4. l \in Inner /\ r \in Inner /\ l # r /\ l # TreeRoot /\ r # TreeRoot
  <2>1. t # t + 1
    BY <1>2
  <2> QED BY <1>2, <1>3, <2>1, FirstTree, Zenon
<1>5. /\ kids[l] \in Seq(AnyPair) /\ Len(kids[l]) = Width(kids, t) /\ Width(kids, t) \in Nat \ {0}
      /\ kids[r] \in Seq(AnyPair) /\ Len(kids[r]) = Width(kids, t + 1) /\ Width(kids, t + 1) \in Nat \ {0}
  BY <1>1, <1>2, <1>3, <1>4 DEF Width, ShapeOK
<1>6. /\ Len(kids[IF right THEN l ELSE r]) > 1
      /\ kids' = [kids EXCEPT ![l] = newL, ![r] = newR, ![TreeRoot][t + 1].key = newR[1].key]
      /\ UpdateChildParent(pair.child, IF right THEN r ELSE l)
  BY Zenon DEF Redistribute
<1>7. Width(kids, IF right THEN t ELSE t + 1) > 1
  BY <1>5, <1>6, Zenon
<1>8. pair \in AnyPair
  <2>1. CASE right
    BY <1>5, <2>1, ItemSeq
  <2>2. CASE ~right
    BY <1>5, <2>2, ItemSeq
  <2> QED BY <2>1, <2>2, Zenon
<1>9. /\ newL \in Seq(AnyPair) /\ Len(newL) = NewWidth(kids, t, right, t)
      /\ \A i \in 1..Len(newL) : newL[i] = IF i = Width(kids, t) + 1 THEN pair ELSE kids[l][i]
  <2> HIDE DEF pair, l, r
  <2>1. CASE right
    <3>1. newL = SubSeq(kids[l], 1, Len(kids[l]) - 1) /\ Len(kids[l]) > 1
      BY <1>5, <1>7, <2>1, Zenon
    <3>2. /\ newL \in Seq(AnyPair) /\ Len(newL) = Len(kids[l]) - 1
          /\ \A i \in 1..(Len(kids[l]) - 1) : newL[i] = kids[l][i]
      BY <1>5, <3>1, AllButLastSeq
    <3> HIDE DEF newL
    <3> QED BY <1>5, <2>1, <3>2 DEF NewWidth
  <2>2. CASE ~right
    <3>1. newL = Append(kids[l], pair)
      BY <2>2, Zenon
    <3>2. /\ newL \in Seq(AnyPair) /\ Len(newL) = Len(kids[l]) + 1
          /\ \A i \in 1..(Len(kids[l]) + 1) : newL[i] = IF i = Len(kids[l]) + 1 THEN pair ELSE kids[l][i]
      <4>1. kids[l] \in Seq(AnyPair)
        BY <1>5, Zenon
      <4>2. /\ Append(kids[l], pair) \in Seq(AnyPair)
            /\ Len(Append(kids[l], pair)) = Len(kids[l]) + 1
            /\ Append(kids[l], pair)[Len(kids[l]) + 1] = pair
            /\ \A i \in 1..Len(kids[l]) : Append(kids[l], pair)[i] = kids[l][i]
        BY ONLY <1>8, <4>1, OneMoreSeq, SMTT(20)
      <4>3. \A i \in 1..(Len(kids[l]) + 1) : i # Len(kids[l]) + 1 => i \in 1..Len(kids[l])
        BY <4>1
      <4> HIDE DEF newL
      <4> QED BY <3>1, <4>2, <4>3, Zenon
    <3> HIDE DEF newL
    <3> QED BY <1>5, <2>2, <3>2, Zenon DEF NewWidth
  <2> QED BY <2>1, <2>2, Zenon
<1>10. /\ newR \in Seq(AnyPair) /\ Len(newR) = NewWidth(kids, t, right, t + 1)
       /\ \A i \in 1..Len(newR) : newR[i] = IF right THEN (IF i = 1 THEN pair ELSE kids[r][i - 1])
                                            ELSE kids[r][i + 1]
  <2> HIDE DEF pair, l, r
  <2>0. t + 1 # t
    BY <1>2
  <2>1. CASE right
    <3>1. newR = <<pair>> \o kids[r] /\ NewWidth(kids, t, right, t + 1) = Len(kids[r]) + 1
      BY <1>5, <2>0, <2>1, Zenon DEF NewWidth
    <3>2. /\ newR \in Seq(AnyPair) /\ Len(newR) = Len(kids[r]) + 1
          /\ \A i \in 1..(Len(kids[r]) + 1) : newR[i] = IF i = 1 THEN pair ELSE kids[r][i - 1]
      BY ONLY <1>5, <1>8, <3>1
    <3> QED BY <2>1, <3>1, <3>2, Zenon
  <2>2. CASE ~right
    <3>1. /\ newR = Tail(kids[r]) /\ NewWidth(kids, t, right, t + 1) = Len(kids[r]) - 1
          /\ Len(kids[r]) > 1
      BY <1>5, <1>7, <2>0, <2>2, Zenon DEF NewWidth
    <3>2. /\ newR \in Seq(AnyPair) /\ Len(newR) = Len(kids[r]) - 1
          /\ \A i \in 1..(Len(kids[r]) - 1) : newR[i] = kids[r][i + 1]
      <4>1. kids[r] \in Seq(AnyPair) /\ Len(kids[r]) > 0
        BY <1>5
      <4> QED BY <3>1, <4>1, TailSeq, Zenon
    <3> HIDE DEF newR
    <3> QED BY <2>2, <3>1, <3>2, Zenon
  <2> QED BY <2>1, <2>2, Zenon
<1> HIDE DEF newL, newR
<1>11. Len(newR) \in Nat \ {0}
  BY <1>2, <1>5, <1>7, <1>10 DEF NewWidth
<1>12. newR[1].key \in Keys
  <2>1. newR[1] \in AnyPair
    BY <1>10, <1>11, ItemSeq
  <2> QED BY <2>1, Zenon DEF AnyPair
<1> DEFINE k1 == [kids EXCEPT ![l] = newL, ![r] = newR]
<1>13. kids' = SetKey(k1, TreeRoot, t + 1, newR[1].key)
  <2> HIDE DEF l, r
  <2> QED BY <1>6, Zenon DEF SetKey
<1> HIDE DEF l, r, pair
<1>14. /\ k1 \in [Inner -> Seq(AnyPair)] /\ k1[l] = newL /\ k1[r] = newR
       /\ \A p \in Inner : p # l /\ p # r => k1[p] = kids[p]
  BY <1>1, <1>4, <1>9, <1>10, Zenon
<1> HIDE DEF k1
<1>15. k1[TreeRoot] = kids[TreeRoot] /\ t + 1 \in 1..Len(k1[TreeRoot])
  BY <1>1, <1>2, <1>4, <1>14, Zenon DEF Middles
<1>16. /\ kids' \in [Inner -> Seq(AnyPair)]
       /\ \A p \in Inner : p # TreeRoot => kids'[p] = k1[p]
       /\ Len(kids'[TreeRoot]) = Len(k1[TreeRoot])
       /\ kids'[TreeRoot][t + 1].key = newR[1].key
       /\ kids'[TreeRoot][t + 1].child = k1[TreeRoot][t + 1].child
       /\ \A j \in 1..Len(k1[TreeRoot]) : j # t + 1 => kids'[TreeRoot][j] = k1[TreeRoot][j]
  <2> DEFINE k == newR[1].key
  <2>1. kids' = SetKey(k1, TreeRoot, t + 1, k) /\ k \in Keys
    BY <1>12, <1>13, Zenon
  <2> HIDE DEF k
  <2>2. TreeRoot \in Inner /\ k1 \in [Inner -> Seq(AnyPair)] /\ t + 1 \in 1..Len(k1[TreeRoot])
    BY <1>1, <1>14, <1>15, Zenon
  <2>3. /\ kids' \in [Inner -> Seq(AnyPair)]
        /\ \A p \in Inner : p # TreeRoot => kids'[p] = k1[p]
        /\ Len(kids'[TreeRoot]) = Len(k1[TreeRoot])
        /\ kids'[TreeRoot][t + 1].key = k
        /\ kids'[TreeRoot][t + 1].child = k1[TreeRoot][t + 1].child
        /\ \A j \in 1..Len(k1[TreeRoot]) : j # t + 1 => kids'[TreeRoot][j] = k1[TreeRoot][j]
    BY <2>1, <2>2, PairSet
  <2> QED BY <2>3, Zenon DEF k
<1>17. kids'[l] = newL /\ kids'[r] = newR /\ \A p \in Inner : p \notin {l, r, TreeRoot} => kids'[p] = kids[p]
  BY <1>4, <1>14, <1>16, Zenon
<1>18. /\ Len(kids'[TreeRoot]) = Len(kids[TreeRoot]) /\ kids'[TreeRoot][t + 1].key = newR[1].key
       /\ kids'[TreeRoot][t + 1].child = kids[TreeRoot][t + 1].child
       /\ \A m \in Middles : m # t + 1 => kids'[TreeRoot][m] = kids[TreeRoot][m]
  BY <1>1, <1>15, <1>16, Zenon DEF Middles
<1>19. KidsOK(kids')
  <2>1. \A m \in Middles : kids'[TreeRoot][m].child = Middle(m)
    BY <1>18, Zenon DEF KidsOK
  <2> QED BY <1>1, <1>16, <1>18, <2>1, Zenon DEF KidsOK
<1>20. \A m \in Middles : m # t /\ m # t + 1 => kids'[Middle(m)] = kids[Middle(m)]
  <2> SUFFICES ASSUME NEW m \in Middles, m # t, m # t + 1 PROVE kids'[Middle(m)] = kids[Middle(m)]
    BY Zenon
  <2>1. Middle(m) \in Inner /\ Middle(m) # l /\ Middle(m) # r /\ Middle(m) # TreeRoot
    BY <1>2, <1>3, FirstTree, Zenon
  <2> QED BY <1>17, <2>1, Zenon
<1>21. kids'[Middle(t)] = newL /\ kids'[Middle(t + 1)] = newR
  BY <1>3, <1>17, Zenon
<1>22. \A m \in Middles : Width(kids', m) = NewWidth(kids, t, right, m)
  <2> SUFFICES ASSUME NEW m \in Middles PROVE Len(kids'[Middle(m)]) = NewWidth(kids, t, right, m)
    BY Zenon DEF Width
  <2>1. CASE m = t
    BY <1>9, <1>21, <2>1, Zenon
  <2>2. CASE m = t + 1
    BY <1>10, <1>21, <2>2, Zenon
  <2>3. CASE m # t /\ m # t + 1
    BY <1>20, <2>3, Zenon DEF NewWidth, Width
  <2> QED BY <2>1, <2>2, <2>3, Zenon
<1>23. ASSUME NEW m \in Middles, NEW i \in 1..Width(kids', m)
       PROVE  kids'[Middle(m)][i] =
                kids[Middle(OldNode(kids, t, right, m, i))][OldPlace(kids, t, right, m, i)]
  <2>1. i \in Nat /\ i >= 1 /\ i <= NewWidth(kids, t, right, m)
    BY <1>2, <1>22, OldPlaces, <1>7
  <2>2. CASE m = t
    <3>1. i \in 1..Len(newL)
      BY <1>22, <1>9, <2>2, Zenon
    <3>2. kids'[Middle(m)][i] = IF i = Width(kids, t) + 1 THEN pair ELSE kids[l][i]
      BY <1>9, <1>21, <2>2, <3>1, Zenon
    <3>3. right => i # Width(kids, t) + 1
      BY <1>5, <2>1, <2>2 DEF NewWidth
    <3>4. t # t + 1
      BY <1>2
    <3> QED BY <1>3, <2>2, <3>2, <3>3, <3>4, Zenon DEF OldNode, OldPlace, pair
  <2>3. CASE m = t + 1
    <3>1. i \in 1..Len(newR)
      BY <1>22, <1>10, <2>3, Zenon
    <3>2. kids'[Middle(m)][i] = IF right THEN (IF i = 1 THEN pair ELSE kids[r][i - 1]) ELSE kids[r][i + 1]
      BY <1>10, <1>21, <2>3, <3>1
    <3>3. t # t + 1
      BY <1>2
    <3> QED BY <1>3, <1>5, <2>3, <3>2, <3>3, Zenon DEF OldNode, OldPlace, pair
  <2>4. CASE m # t /\ m # t + 1
    BY <1>20, <2>4, Zenon DEF OldNode, OldPlace
  <2> QED BY <2>2, <2>3, <2>4
<1>24. \A m \in Middles : RootKey(kids', m) = IF m = t + 1 THEN KeyAt(kids', m, 1) ELSE RootKey(kids, m)
  BY <1>18, <1>21, Zenon DEF RootKey, KeyAt
<1>25. Moved(kids, kids', t, right)
  BY <1>7, <1>22, <1>23, <1>24 DEF Moved
<1>26. pair.child = ChildAt(kids, IF right THEN t ELSE t + 1, IF right THEN Width(kids, t) ELSE 1)
  BY <1>3, <1>5, Zenon DEF pair, ChildAt
<1>27. (IF right THEN r ELSE l) = Middle(IF right THEN t + 1 ELSE t)
  BY <1>3, Zenon
<1>28. \/ parent' = [parent EXCEPT ![pair.child] = IF right THEN r ELSE l] /\ orphan' = orphan
       \/ orphan' = TRUE /\ parent' = parent
  BY <1>6, Zenon DEF UpdateChildParent
<1> QED BY <1>2, <1>19, <1>25, <1>26, <1>27, <1>28, Zenon

(* The pairs in order again, with the facts about them that do not depend  *)
(* on their place.                                                         *)
LEMMA MovedKeeps ==
    ASSUME NEW ks, NEW kt, ShapeOK(ks), NEW t \in Middles, t + 1 \in Middles, NEW right \in BOOLEAN,
           Moved(ks, kt, t, right), NEW lk
    PROVE  /\ ShapeOK(kt)
           /\ Sorted(ks, lk, NoNode) => Sorted(kt, lk, NoNode)
           /\ Exact(ks, lk, NoNode) => Exact(kt, lk, NoNode)
<1> DEFINE N(m, i) == OldNode(ks, t, right, m, i)
           P(m, i) == OldPlace(ks, t, right, m, i)
<1>1. /\ \A m \in Middles : Width(kt, m) \in Nat \ {0}
      /\ \A m \in Middles : \A i \in 1..Width(kt, m) : N(m, i) \in Middles /\ P(m, i) \in 1..Width(ks, N(m, i))
      /\ \A m, n \in Middles : \A i \in 1..Width(kt, m), k \in 1..Width(kt, n) :
           m < n \/ (m = n /\ i < k) => N(m, i) < N(n, k) \/ (N(m, i) = N(n, k) /\ P(m, i) < P(n, k))
      /\ \A n \in Middles : \A k \in 1..Width(ks, n) :
           \E m \in Middles : \E i \in 1..Width(kt, m) : N(m, i) = n /\ P(m, i) = k
  <2>1. \A m \in Middles : Width(kt, m) = NewWidth(ks, t, right, m)
    BY Zenon DEF Moved
  <2>2. Width(ks, IF right THEN t ELSE t + 1) > 1
    BY Zenon DEF Moved
  <2> QED BY <2>1, <2>2, OldPlaces
<1>2. \A m \in Middles : \A i \in 1..Width(kt, m) :
        KeyAt(kt, m, i) = KeyAt(ks, N(m, i), P(m, i)) /\ ChildAt(kt, m, i) = ChildAt(ks, N(m, i), P(m, i))
  BY Zenon DEF Moved, KeyAt, ChildAt
<1>3. \A m \in Middles : m # t + 1 => N(m, 1) = m /\ P(m, 1) = 1
  <2>1. t \in Nat /\ Width(ks, t) \in Nat \ {0} /\ t # t + 1
    BY FirstTree DEF ShapeOK
  <2>2. 1 # Width(ks, t) + 1
    BY <2>1
  <2> QED BY <2>1, <2>2, Zenon DEF OldNode, OldPlace
<1>4. \A m \in Middles : \A i \in 1..Width(kt, m) : N(m, i) = 1 /\ P(m, i) = 1 => m = 1 /\ i = 1
  <2> SUFFICES ASSUME NEW m \in Middles, NEW i \in 1..Width(kt, m), N(m, i) = 1, P(m, i) = 1
               PROVE  m = 1 /\ i = 1
    BY Zenon
  <2>1. t \in Nat /\ t >= 1 /\ m \in Nat /\ i \in Nat /\ i >= 1 /\ Width(ks, t) \in Nat
    BY <1>1, FirstTree DEF ShapeOK, Middles
  <2>2. right => Width(ks, t) > 1
    BY Zenon DEF Moved
  <2> QED BY <2>1, <2>2 DEF OldNode, OldPlace
<1>5. \A m \in Middles : RootKey(kt, m) = IF m = t + 1 THEN KeyAt(kt, m, 1) ELSE RootKey(ks, m)
  BY Zenon DEF Moved
<1> HIDE DEF N, P
<1>6. \A m \in Middles : m # t + 1 => KeyAt(kt, m, 1) = KeyAt(ks, m, 1) /\ ChildAt(kt, m, 1) = ChildAt(ks, m, 1)
  <2> SUFFICES ASSUME NEW m \in Middles, m # t + 1
               PROVE  KeyAt(kt, m, 1) = KeyAt(ks, m, 1) /\ ChildAt(kt, m, 1) = ChildAt(ks, m, 1)
    BY Zenon
  <2>1. 1 \in 1..Width(kt, m)
    BY <1>1
  <2> QED BY <1>2, <1>3, <2>1, Zenon
<1>7. ShapeOK(kt)
  <2>1. \A m \in Middles : \A i \in 1..Width(kt, m) : KeyAt(kt, m, i) \in Keys /\ ChildAt(kt, m, i) \in Leaves
    BY <1>1, <1>2 DEF ShapeOK
  <2>2. \A m \in Middles : Width(kt, m) \in Nat \ {0} /\ RootKey(kt, m) \in Keys
    <3> SUFFICES ASSUME NEW m \in Middles PROVE RootKey(kt, m) \in Keys
      BY <1>1, Zenon
    <3>1. 1 \in 1..Width(kt, m) /\ RootKey(ks, m) \in Keys
      BY <1>1 DEF ShapeOK
    <3> QED BY <1>5, <2>1, <3>1, Zenon
  <2>3. ASSUME NEW l \in Leaves
        PROVE  \E m \in Middles : \E i \in 1..Width(kt, m) : ChildAt(kt, m, i) = l
    <3>1. PICK n \in Middles : \E k \in 1..Width(ks, n) : ChildAt(ks, n, k) = l
      BY Zenon DEF ShapeOK
    <3>2. PICK k \in 1..Width(ks, n) : ChildAt(ks, n, k) = l
      BY <3>1, Zenon
    <3>3. PICK m \in Middles : \E i \in 1..Width(kt, m) : N(m, i) = n /\ P(m, i) = k
      BY <1>1, Zenon
    <3>4. PICK i \in 1..Width(kt, m) : N(m, i) = n /\ P(m, i) = k
      BY <3>3, Zenon
    <3> QED BY <1>2, <3>2, <3>4, Zenon
  <2>4. ASSUME NEW m \in Middles, NEW n \in Middles, NEW i \in 1..Width(kt, m), NEW k \in 1..Width(kt, n),
               m < n \/ (m = n /\ i < k)
        PROVE  Before(ChildAt(kt, m, i), ChildAt(kt, n, k))
    <3>1. N(m, i) < N(n, k) \/ (N(m, i) = N(n, k) /\ P(m, i) < P(n, k))
      BY <1>1, <2>4, Zenon
    <3>2. /\ N(m, i) \in Middles /\ P(m, i) \in 1..Width(ks, N(m, i))
          /\ N(n, k) \in Middles /\ P(n, k) \in 1..Width(ks, N(n, k))
      BY <1>1, Zenon
    <3>3. Before(ChildAt(ks, N(m, i), P(m, i)), ChildAt(ks, N(n, k), P(n, k)))
      BY <3>1, <3>2, Zenon DEF ShapeOK
    <3> QED BY <1>2, <3>3, Zenon
  <2> QED BY <2>1, <2>2, <2>3, <2>4, Zenon DEF ShapeOK
<1>8. ASSUME Sorted(ks, lk, NoNode)
      PROVE  Sorted(kt, lk, NoNode)
  <2>1. ASSUME NEW m \in Middles, NEW i \in 1..Width(kt, m)
        PROVE  /\ AboveEarlier(lk, KeyAt(kt, m, i), ChildAt(kt, m, i))
               /\ NotAbove(lk, KeyAt(kt, m, i), ChildAt(kt, m, i)) \/ (i = 1 /\ m = 1)
    <3>1. N(m, i) \in Middles /\ P(m, i) \in 1..Width(ks, N(m, i))
      BY <1>1, Zenon
    <3>2. KeyAt(kt, m, i) = KeyAt(ks, N(m, i), P(m, i)) /\ ChildAt(kt, m, i) = ChildAt(ks, N(m, i), P(m, i))
      BY <1>2, Zenon
    <3>3. ChildAt(ks, N(m, i), P(m, i)) # NoNode
      BY <3>1, Nodes, Zenon DEF ShapeOK
    <3>4. /\ AboveEarlier(lk, KeyAt(ks, N(m, i), P(m, i)), ChildAt(ks, N(m, i), P(m, i)))
          /\ \/ NotAbove(lk, KeyAt(ks, N(m, i), P(m, i)), ChildAt(ks, N(m, i), P(m, i)))
             \/ P(m, i) = 1 /\ N(m, i) = 1
      BY <1>8, <3>1, <3>3, Zenon DEF Sorted, InnerSorted
    <3> QED BY <1>4, <3>2, <3>4, Zenon
  <2>2. ASSUME NEW m \in Middles, m > 1
        PROVE  /\ AboveEarlier(lk, RootKey(kt, m), ChildAt(kt, m, 1))
               /\ NotAbove(lk, RootKey(kt, m), ChildAt(kt, m, 1))
               /\ ~Less(KeyAt(kt, m, 1), RootKey(kt, m))
    <3>1. CASE m = t + 1
      <4>1. 1 \in 1..Width(kt, m) /\ KeyAt(kt, m, 1) \in Keys /\ RootKey(kt, m) = KeyAt(kt, m, 1)
        BY <1>1, <1>5, <1>7, <3>1 DEF ShapeOK
      <4>2. ~Less(KeyAt(kt, m, 1), KeyAt(kt, m, 1))
        BY <4>1, KeyOrder, Zenon
      <4>3. AboveEarlier(lk, KeyAt(kt, m, 1), ChildAt(kt, m, 1)) /\ NotAbove(lk, KeyAt(kt, m, 1), ChildAt(kt, m, 1))
        BY <2>1, <2>2, <4>1
      <4> QED BY <4>1, <4>2, <4>3, Zenon
    <3>2. CASE m # t + 1
      <4>1. /\ RootKey(kt, m) = RootKey(ks, m) /\ KeyAt(kt, m, 1) = KeyAt(ks, m, 1)
            /\ ChildAt(kt, m, 1) = ChildAt(ks, m, 1)
        BY <1>5, <1>6, <3>2, Zenon
      <4> QED BY <1>8, <2>2, <4>1, Zenon DEF Sorted, RootSorted
    <3> QED BY <3>1, <3>2, Zenon
  <2>3. InnerSorted(kt, lk, NoNode) /\ RootSorted(kt, lk)
    BY <2>1, <2>2, Zenon DEF InnerSorted, RootSorted
  <2> QED BY <1>8, <2>3, Zenon DEF Sorted
<1>9. ASSUME Exact(ks, lk, NoNode)
      PROVE  Exact(kt, lk, NoNode)
  <2>1. \A m \in Middles : RootKey(kt, m) = KeyAt(kt, m, 1)
    <3>1. \A m \in Middles : Middle(m) # NoNode
      BY FirstTree, Nodes
    <3> QED BY <1>5, <1>6, <1>9, <3>1, Zenon DEF Exact
  <2>2. ASSUME NEW m \in Middles, NEW i \in 1..Width(kt, m)
        PROVE  KeyAt(kt, m, i) = FirstOf(lk[ChildAt(kt, m, i)])
    <3>1. N(m, i) \in Middles /\ P(m, i) \in 1..Width(ks, N(m, i))
      BY <1>1, Zenon
    <3>2. ChildAt(ks, N(m, i), P(m, i)) # NoNode
      BY <3>1, Nodes, Zenon DEF ShapeOK
    <3> QED BY <1>2, <1>9, <3>1, <3>2, Zenon DEF Exact
  <2> QED BY <2>1, <2>2, Zenon DEF Exact
<1> QED BY <1>7, <1>8, <1>9, Zenon
=============================================================================
