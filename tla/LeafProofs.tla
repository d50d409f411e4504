----------------------------- MODULE LeafProofs -----------------------------
(***************************************************************************)
(* Proofs about the list of an index's leaves, for any set of pages and    *)
(* keys.                                                                   *)
(***************************************************************************)
EXTENDS LeafChain, TLAPS

-----------------------------------------------------------------------------
(* Sequences of leaves.                                                    *)


(* Sequences put together, and a part of one.                              *)
LEMMA JoinedSeq ==
    ASSUME NEW S, NEW a \in Seq(S), NEW b \in Seq(S)
    PROVE  a \o b \in Seq(S) /\ Len(a \o b) = Len(a) + Len(b)
OBVIOUS

LEMMA PartSeq ==
    ASSUME NEW S, NEW s \in Seq(S), NEW m \in 1..(Len(s) + 1), NEW n \in 0..Len(s)
    PROVE  /\ SubSeq(s, m, n) \in Seq(S)
           /\ Len(SubSeq(s, m, n)) = IF m <= n THEN n - m + 1 ELSE 0
OBVIOUS

-----------------------------------------------------------------------------
(* LeafChain                                                               *)

(* The ring: the leaves s of the list, with the sentinel before the first  *)
(* and behind the last.                                                    *)
At(s, i) == IF i \in 1..Len(s) THEN s[i] ELSE Sentinel

(* A leaf put behind place k, as split does.                               *)
LEMMA InsertedLeaf ==
    ASSUME NEW s \in Seq(Pages), NEW k \in 1..Len(s), NEW new \in Pages
    PROVE  LET t == SubSeq(s, 1, k) \o <<new>> \o SubSeq(s, k + 1, Len(s))
           IN  /\ t \in Seq(Pages) /\ Len(t) = Len(s) + 1
               /\ \A i \in 0..(Len(s) + 2) :
                    At(t, i) = IF i <= k THEN At(s, i) ELSE IF i = k + 1 THEN new ELSE At(s, i - 1)
<1> DEFINE a == SubSeq(s, 1, k)
           b == SubSeq(s, k + 1, Len(s))
           c == a \o <<new>>
           t == c \o b
<1>0. Len(s) \in Nat /\ k \in Nat /\ k >= 1 /\ k <= Len(s)
  OBVIOUS
<1>1. a \in Seq(Pages) /\ Len(a) = k /\ \A i \in 1..k : a[i] = s[i]
  BY <1>0
<1>2. b \in Seq(Pages) /\ Len(b) = Len(s) - k /\ \A i \in 1..(Len(s) - k) : b[i] = s[i + k]
  BY <1>0
<1> HIDE DEF a, b
<1>3. c \in Seq(Pages) /\ Len(c) = k + 1 /\ (\A i \in 1..k : c[i] = s[i]) /\ c[k + 1] = new
  BY <1>0, <1>1
<1> HIDE DEF c
<1>4. t \in Seq(Pages) /\ Len(t) = Len(s) + 1
  <2>1. t \in Seq(Pages) /\ Len(t) = Len(c) + Len(b)
    BY <1>2, <1>3, JoinedSeq, Zenon
  <2> QED BY <1>0, <1>2, <1>3, <2>1
<1>5. \A i \in 1..(k + 1) : t[i] = c[i]
  BY <1>0, <1>2, <1>3
<1>6. \A i \in (k + 2)..(Len(s) + 1) : t[i] = s[i - 1]
  <2> TAKE i \in (k + 2)..(Len(s) + 1)
  <2>1. t[i] = b[i - (k + 1)]
    BY <1>0, <1>2, <1>3
  <2>2. i - (k + 1) \in 1..(Len(s) - k) /\ (i - (k + 1)) + k = i - 1
    BY <1>0
  <2> QED BY <1>2, <2>1, <2>2, Zenon
<1> HIDE DEF t
<1>7. ASSUME NEW i \in 0..(Len(s) + 2)
      PROVE  At(t, i) = IF i <= k THEN At(s, i) ELSE IF i = k + 1 THEN new ELSE At(s, i - 1)
  <2>1. CASE i = 0
    BY <1>0, <1>4, <2>1 DEF At
  <2>2. CASE i \in 1..k
    BY <1>0, <1>3, <1>4, <1>5, <2>2 DEF At
  <2>3. CASE i = k + 1
    BY <1>0, <1>3, <1>4, <1>5, <2>3 DEF At
  <2>4. CASE i \in (k + 2)..(Len(s) + 1)
    BY <1>0, <1>4, <1>6, <2>4 DEF At
  <2>5. CASE i = Len(s) + 2
    BY <1>0, <1>4, <2>5 DEF At
  <2> QED BY <1>0, <2>1, <2>2, <2>3, <2>4, <2>5
<1> QED BY <1>4, <1>7, Zenon DEF t, c, a, b

(* The leaf at place k taken out, as unlink_leaf does.                     *)
LEMMA RemovedLeaf ==
    ASSUME NEW s \in Seq(Pages), NEW k \in 1..Len(s)
    PROVE  LET t == SubSeq(s, 1, k - 1) \o SubSeq(s, k + 1, Len(s))
           IN  /\ t \in Seq(Pages) /\ Len(t) = Len(s) - 1
               /\ \A i \in 0..Len(s) : At(t, i) = IF i < k THEN At(s, i) ELSE At(s, i + 1)
<1> DEFINE a == SubSeq(s, 1, k - 1)
           b == SubSeq(s, k + 1, Len(s))
           t == a \o b
<1>0. Len(s) \in Nat /\ k \in Nat /\ k >= 1 /\ k <= Len(s)
  OBVIOUS
<1>1. a \in Seq(Pages) /\ Len(a) = k - 1 /\ \A i \in 1..(k - 1) : a[i] = s[i]
  BY <1>0
<1>2. b \in Seq(Pages) /\ Len(b) = Len(s) - k /\ \A i \in 1..(Len(s) - k) : b[i] = s[i + k]
  BY <1>0
<1> HIDE DEF a, b
<1>3. t \in Seq(Pages) /\ Len(t) = Len(s) - 1 /\ \A i \in 1..(k - 1) : t[i] = s[i]
  <2>1. t \in Seq(Pages) /\ Len(t) = Len(a) + Len(b)
    BY <1>1, <1>2, JoinedSeq, Zenon
  <2>2. \A i \in 1..(k - 1) : t[i] = s[i]
    BY <1>0, <1>1, <1>2
  <2> QED BY <1>0, <1>1, <1>2, <2>1, <2>2
<1>4. \A i \in k..(Len(s) - 1) : t[i] = s[i + 1]
  <2> TAKE i \in k..(Len(s) - 1)
  <2>1. t[i] = b[i - (k - 1)]
    BY <1>0, <1>1, <1>2
  <2>2. i - (k - 1) \in 1..(Len(s) - k) /\ (i - (k - 1)) + k = i + 1
    BY <1>0
  <2> QED BY <1>2, <2>1, <2>2, Zenon
<1> HIDE DEF t
<1>5. ASSUME NEW i \in 0..Len(s)
      PROVE  At(t, i) = IF i < k THEN At(s, i) ELSE At(s, i + 1)
  <2>1. CASE i = 0
    BY <1>0, <1>3, <2>1 DEF At
  <2>2. CASE i \in 1..(k - 1)
    BY <1>0, <1>3, <2>2 DEF At
  <2>3. CASE i \in k..(Len(s) - 1)
    BY <1>0, <1>3, <1>4, <2>3 DEF At
  <2>4. CASE i = Len(s)
    BY <1>0, <1>3, <2>4 DEF At
  <2> QED BY <1>0, <2>1, <2>2, <2>3, <2>4
<1> QED BY <1>3, <1>5, Zenon DEF t, a, b

(* The list is doubly linked along the ring, but for the one link that     *)
(* unlink_leaf has moved when it is between its two blocks.                *)
LeavesInv ==
    /\ order \in Seq(Pages) /\ Len(order) >= 1
    /\ \A i, j \in 1..Len(order) : order[i] = order[j] => i = j
    /\ firstLeaf = order[1] /\ lastLeaf = order[Len(order)]
    /\ unlink \in {"idle", "prev", "next", "failed", "broken"} /\ leaf \in Pages \cup {None}
    /\ unlink # "idle" => \E k \in 2..Len(order) : leaf = order[k]

LinksInv ==
    /\ nextLeaf \in [Nodes -> Nodes \cup {None}] /\ prevLeaf \in [Nodes -> Nodes \cup {None}]
    /\ \A i \in 1..(Len(order) + 1) : prevLeaf[At(order, i)] = At(order, i - 1)
    /\ \A i \in 0..Len(order) :
          nextLeaf[At(order, i)] = IF unlink \in {"next", "broken"} /\ At(order, i + 1) = leaf
                                   THEN At(order, i + 2) ELSE At(order, i + 1)

EntriesInv ==
    /\ entries \in [Pages -> Seq(Nat)]
    /\ \A p \in Pages : Len(entries[p]) <= Capacity

(* The places of the ring hold nodes, each node at one place.              *)
LEMMA RingPlaces ==
    ASSUME LeavesInv
    PROVE  /\ Len(order) \in Nat /\ Len(order) >= 1
           /\ \A i \in 0..(Len(order) + 1) : At(order, i) \in Nodes
           /\ \A i \in 1..Len(order) : At(order, i) = order[i] /\ order[i] \in Pages
           /\ \A i, j \in 0..Len(order) : At(order, i) = At(order, j) => i = j
           /\ \A i, j \in 1..(Len(order) + 1) : At(order, i) = At(order, j) => i = j
           /\ At(order, 0) = Sentinel /\ At(order, Len(order) + 1) = Sentinel
<1>1. order \in Seq(Pages) /\ Len(order) \in Nat /\ Len(order) >= 1
  BY DEF LeavesInv
<1>2. \A i \in 1..Len(order) : At(order, i) = order[i] /\ order[i] \in Pages /\ order[i] # Sentinel
  BY <1>1, LeafConstants DEF At
<1>3. At(order, 0) = Sentinel /\ At(order, Len(order) + 1) = Sentinel
  BY <1>1 DEF At
<1>4. \A i, j \in 1..Len(order) : order[i] = order[j] => i = j
  BY Zenon DEF LeavesInv
<1>5. \A i \in 0..(Len(order) + 1) : i \in 1..Len(order) \/ i = 0 \/ i = Len(order) + 1
  BY <1>1
<1> HIDE DEF At
<1>6. \A i \in 0..(Len(order) + 1) : At(order, i) \in Nodes
  BY <1>2, <1>3, <1>5, Zenon DEF Nodes
<1>7. \A i, j \in 0..Len(order) : At(order, i) = At(order, j) => i = j
  BY <1>1, <1>2, <1>3, <1>4
<1>8. \A i, j \in 1..(Len(order) + 1) : At(order, i) = At(order, j) => i = j
  BY <1>1, <1>2, <1>3, <1>4
<1> QED BY <1>1, <1>2, <1>3, <1>6, <1>7, <1>8, Zenon

(* PlaceOf finds the place of a leaf of the list.                          *)
LEMMA PlaceFound ==
    ASSUME LeavesInv, NEW p \in Range(order)
    PROVE  PlaceOf(p) \in 1..Len(order) /\ order[PlaceOf(p)] = p /\ p \in Pages
<1>1. order \in Seq(Pages)
  BY Zenon DEF LeavesInv
<1>2. DOMAIN order = 1..Len(order) /\ \A i \in 1..Len(order) : order[i] \in Pages
  BY <1>1
<1>3. \E i \in DOMAIN order : order[i] = p
  BY <1>1, Zenon DEF Range
<1>4. PlaceOf(p) \in DOMAIN order /\ order[PlaceOf(p)] = p
  BY <1>3, Zenon DEF PlaceOf
<1> QED BY <1>2, <1>4, Zenon

(* insert_entry, delete_entry and coalesce leave the list alone.           *)
LEMMA EntriesKeep ==
    ASSUME LeavesInv, LinksInv, EntriesInv, NEW p \in Pages,
           InsertEntry(p) \/ DeleteEntry(p) \/ Coalesce(p)
    PROVE  LeavesInv' /\ LinksInv' /\ EntriesInv'
<1>1. Capacity \in Nat /\ entries[p] \in Seq(Nat) /\ p \in Pages /\ unlink = "idle"
  BY LeafConstants, Zenon DEF EntriesInv, InsertEntry, DeleteEntry, Coalesce
<1>2. CASE InsertEntry(p)
  <2>1. Append(entries[p], 1) \in Seq(Nat) /\ Len(Append(entries[p], 1)) = Len(entries[p]) + 1
    BY <1>1
  <2>2. EntriesInv'
    BY <1>1, <1>2, <2>1 DEF EntriesInv, InsertEntry
  <2>3. LeavesInv' /\ LinksInv'
    BY <1>2, Zenon DEF LeavesInv, LinksInv, InsertEntry, links
  <2> QED BY <2>2, <2>3, Zenon
<1>3. CASE DeleteEntry(p)
  <2>1. Tail(entries[p]) \in Seq(Nat) /\ Len(Tail(entries[p])) = Len(entries[p]) - 1
    BY <1>1, <1>3 DEF DeleteEntry
  <2>2. EntriesInv'
    BY <1>1, <1>3, <2>1 DEF EntriesInv, DeleteEntry
  <2>3. LeavesInv' /\ LinksInv'
    BY <1>3, Zenon DEF LeavesInv, LinksInv, DeleteEntry, links
  <2> QED BY <2>2, <2>3, Zenon
<1>4. CASE Coalesce(p)
  <2>1. PlaceOf(p) \in 1..Len(order) /\ order[PlaceOf(p)] = p /\ p # order[1]
    BY <1>4, PlaceFound, Zenon DEF Coalesce, LeavesInv
  <2>2. PICK k \in 2..Len(order) : p = order[k]
    <3>1. PlaceOf(p) # 1
      BY <2>1, Zenon
    <3>2. PlaceOf(p) \in 2..Len(order)
      BY <2>1, <3>1, RingPlaces
    <3> QED BY <2>1, <3>2, Zenon
  <2>3. k - 1 \in 1..Len(order) /\ k \in 1..Len(order) /\ k \in 1..(Len(order) + 1)
    BY RingPlaces
  <2>4. prevLeaf[p] = order[k - 1] /\ prevLeaf[p] \in Pages
    BY <2>2, <2>3, RingPlaces DEF LinksInv
  <2> DEFINE l == prevLeaf[p]
  <2>5. /\ entries[l] \o entries[p] \in Seq(Nat)
        /\ Len(entries[l] \o entries[p]) = Len(entries[l]) + Len(entries[p])
    BY <1>1, <2>4, JoinedSeq DEF EntriesInv
  <2>6. /\ entries' = [entries EXCEPT ![l] = @ \o entries[p], ![p] = <<>>]
        /\ Len(entries[l]) + Len(entries[p]) <= Capacity
        /\ unlink' = "prev" /\ leaf' = p /\ UNCHANGED <<links, order, firstLeaf, lastLeaf>>
    BY <1>4, Zenon DEF Coalesce
  <2> HIDE DEF l
  <2>7. l \in Pages
    BY <2>4, Zenon DEF l
  <2>8. EntriesInv'
    <3>1. <<>> \in Seq(Nat) /\ Len(<<>>) = 0
      OBVIOUS
    <3>2. entries' \in [Pages -> Seq(Nat)]
      BY <1>1, <2>5, <2>6, <2>7, <3>1, Zenon DEF EntriesInv
    <3>3. ASSUME NEW q \in Pages
          PROVE  Len(entries'[q]) <= Capacity
      <4>1. CASE q = p
        BY <1>1, <2>6, <2>7, <3>1, <4>1 DEF EntriesInv
      <4>2. CASE q # p /\ q = l
        <5>1. entries'[q] = entries[l] \o entries[p]
          BY <2>6, <2>7, <4>2, Zenon DEF EntriesInv
        <5> QED BY <2>5, <2>6, <5>1, Zenon
      <4>3. CASE q # p /\ q # l
        <5>1. entries'[q] = entries[q]
          BY <2>6, <2>7, <4>3, Zenon DEF EntriesInv
        <5> QED BY <5>1, Zenon DEF EntriesInv
      <4> QED BY <4>1, <4>2, <4>3, Zenon
    <3> QED BY <3>2, <3>3, Zenon DEF EntriesInv
  <2>9. LeavesInv'
    BY <1>1, <2>2, <2>6, Zenon DEF LeavesInv
  <2>10. LinksInv'
    BY <1>1, <2>6, Zenon DEF LinksInv, links
  <2> QED BY <2>8, <2>9, <2>10, Zenon
<1> QED BY <1>2, <1>3, <1>4, Zenon

(* split links the new leaf in, and halves the entries.                    *)
LEMMA SplitKeeps ==
    ASSUME LeavesInv, LinksInv, EntriesInv, NEW p \in Pages, NEW new \in Pages, Split(p, new)
    PROVE  LeavesInv' /\ LinksInv' /\ EntriesInv'
<1> DEFINE N == Len(order)
           k == PlaceOf(p)
           n == nextLeaf[p]
<1>1. /\ unlink = "idle" /\ p \in Range(order) /\ new \notin Range(order)
      /\ Len(entries[p]) = Capacity
      /\ nextLeaf' = [nextLeaf EXCEPT ![p] = new, ![new] = n]
      /\ prevLeaf' = [prevLeaf EXCEPT ![new] = p, ![n] = new]
      /\ entries' = [entries EXCEPT ![p] = SubSeq(entries[p], 1, Len(entries[p]) \div 2),
                       ![new] = SubSeq(entries[p], Len(entries[p]) \div 2 + 1, Capacity)]
      /\ order' = SubSeq(order, 1, k) \o <<new>> \o SubSeq(order, k + 1, N)
      /\ lastLeaf' = IF lastLeaf = p THEN new ELSE lastLeaf
      /\ UNCHANGED <<firstLeaf, unlink, leaf>>
  BY Zenon DEF Split
<1>2. k \in 1..N /\ order[k] = p /\ At(order, k) = p
  BY <1>1, PlaceFound, RingPlaces, Zenon
<1>3. N \in Nat /\ N >= 1 /\ k \in Nat /\ k >= 1 /\ k <= N
  BY <1>2, RingPlaces
<1>4. /\ order' \in Seq(Pages) /\ Len(order') = N + 1
      /\ \A i \in 0..(N + 2) : At(order', i) = IF i <= k THEN At(order, i)
                                               ELSE IF i = k + 1 THEN new ELSE At(order, i - 1)
  BY <1>1, <1>2, InsertedLeaf DEF LeavesInv
<1>5. n = At(order, k + 1) /\ n \in Nodes /\ p \in Nodes /\ new \in Nodes
  <2>1. k \in 0..N /\ k + 1 \in 0..(N + 1)
    BY <1>3
  <2> QED BY <1>1, <1>2, <2>1, RingPlaces DEF LinksInv, Nodes
<1>6. \A i \in 0..(N + 1) : At(order, i) # new
  <2>1. \A i \in 1..N : order[i] \in Range(order)
    BY DEF LeavesInv, Range
  <2> QED BY <1>1, <1>3, <2>1, LeafConstants, RingPlaces DEF At
<1>7. /\ \A i, j \in 0..N : At(order, i) = At(order, j) => i = j
      /\ \A i, j \in 1..(N + 1) : At(order, i) = At(order, j) => i = j
      /\ \A i \in 1..N : At(order, i) = order[i]
  BY RingPlaces, Zenon
<1>8. /\ \A i \in 1..(N + 1) : prevLeaf[At(order, i)] = At(order, i - 1)
      /\ \A i \in 0..N : nextLeaf[At(order, i)] = At(order, i + 1)
      /\ nextLeaf \in [Nodes -> Nodes \cup {None}] /\ prevLeaf \in [Nodes -> Nodes \cup {None}]
  BY <1>1, Zenon DEF LinksInv
<1>9. \A i \in 0..(N + 1) : At(order, i) \in Nodes
  BY RingPlaces, Zenon
<1>10. \A i \in 1..(N + 1) : order'[i] = At(order', i)
  BY <1>3, <1>4, Zenon DEF At
<1> HIDE DEF N, k, n
<1>11. ASSUME NEW i \in 1..(N + 2)
       PROVE  prevLeaf'[At(order', i)] = At(order', i - 1)
  <2>1. i \in 0..(N + 2) /\ i - 1 \in 0..(N + 2) /\ i \in Nat
    BY <1>3
  <2>2. n # new
    BY <1>3, <1>5, <1>6
  <2>3. CASE i <= k
    <3>1. i \in 1..(N + 1) /\ k + 1 \in 1..(N + 1) /\ i # k + 1 /\ i - 1 <= k
      BY <1>3, <2>1, <2>3
    <3>2. At(order', i) = At(order, i) /\ At(order', i - 1) = At(order, i - 1)
      BY <1>4, <2>1, <2>3, <3>1, Zenon
    <3>3. At(order, i) # new /\ At(order, i) # n /\ At(order, i) \in Nodes
      BY <1>5, <1>6, <1>7, <1>9, <3>1
    <3> QED BY <1>1, <1>8, <3>1, <3>2, <3>3, Zenon
  <2>4. CASE i = k + 1
    <3>1. At(order', i) = new /\ At(order', i - 1) = p
      BY <1>2, <1>3, <1>4, <2>1, <2>4
    <3> QED BY <1>1, <1>5, <1>8, <2>2, <3>1, Zenon
  <2>5. CASE i = k + 2
    <3>1. At(order', i) = n /\ At(order', i - 1) = new
      BY <1>3, <1>4, <1>5, <2>1, <2>5
    <3> QED BY <1>1, <1>5, <1>8, <2>2, <3>1, Zenon
  <2>6. CASE i >= k + 3
    <3>1. i - 1 \in 1..(N + 1) /\ k + 1 \in 1..(N + 1) /\ i - 1 # k + 1 /\ ~(i - 1 <= k)
      BY <1>3, <2>1, <2>6
    <3>2. At(order', i) = At(order, i - 1) /\ At(order', i - 1) = At(order, (i - 1) - 1)
      BY <1>3, <1>4, <2>1, <2>6, <3>1
    <3>3. At(order, i - 1) # new /\ At(order, i - 1) # n /\ At(order, i - 1) \in Nodes
      BY <1>5, <1>6, <1>7, <1>9, <3>1
    <3> QED BY <1>1, <1>8, <3>1, <3>2, <3>3, Zenon
  <2> QED BY <1>3, <2>1, <2>3, <2>4, <2>5, <2>6
<1>12. ASSUME NEW i \in 0..(N + 1)
       PROVE  nextLeaf'[At(order', i)] = At(order', i + 1)
  <2>1. i \in 0..(N + 2) /\ i + 1 \in 0..(N + 2) /\ i \in Nat
    BY <1>3
  <2>2. p # new
    BY <1>2, <1>3, <1>6
  <2>3. CASE i < k
    <3>1. i \in 0..N /\ k \in 0..N /\ i # k /\ i + 1 <= k
      BY <1>3, <2>1, <2>3
    <3>2. At(order', i) = At(order, i) /\ At(order', i + 1) = At(order, i + 1)
      BY <1>3, <1>4, <2>1, <2>3, <3>1
    <3>3. At(order, i) # new /\ At(order, i) # p /\ At(order, i) \in Nodes
      BY <1>2, <1>3, <1>6, <1>7, <1>9, <3>1, Zenon
    <3> QED BY <1>1, <1>8, <3>1, <3>2, <3>3, Zenon
  <2>4. CASE i = k
    <3>1. At(order', i) = p /\ At(order', i + 1) = new
      BY <1>2, <1>3, <1>4, <2>1, <2>4
    <3> QED BY <1>1, <1>5, <1>8, <2>2, <3>1, Zenon
  <2>5. CASE i = k + 1
    <3>1. At(order', i) = new /\ At(order', i + 1) = n
      BY <1>3, <1>4, <1>5, <2>1, <2>5
    <3> QED BY <1>1, <1>5, <1>8, <2>2, <3>1, Zenon
  <2>6. CASE i >= k + 2
    <3>1. i - 1 \in 0..N /\ k \in 0..N /\ i - 1 # k /\ (i - 1) + 1 = (i + 1) - 1
      BY <1>3, <2>1, <2>6
    <3>2. At(order', i) = At(order, i - 1) /\ At(order', i + 1) = At(order, (i - 1) + 1)
      BY <1>3, <1>4, <2>1, <2>6, <3>1
    <3>3. At(order, i - 1) # new /\ At(order, i - 1) # p /\ At(order, i - 1) \in Nodes
      BY <1>2, <1>3, <1>6, <1>7, <1>9, <3>1
    <3> QED BY <1>1, <1>8, <3>1, <3>2, <3>3, Zenon
  <2> QED BY <1>3, <2>1, <2>3, <2>4, <2>5, <2>6
<1>13. LinksInv'
  <2>1. nextLeaf' \in [Nodes -> Nodes \cup {None}] /\ prevLeaf' \in [Nodes -> Nodes \cup {None}]
    BY <1>1, <1>5, <1>8, Zenon
  <2>2. unlink' = "idle"
    BY <1>1, Zenon
  <2>3. 1..(Len(order') + 1) = 1..(N + 2) /\ 0..Len(order') = 0..(N + 1)
    BY <1>3, <1>4
  <2>4. \A i \in 1..(Len(order') + 1) : prevLeaf'[At(order', i)] = At(order', i - 1)
    BY <1>11, <2>3, Zenon
  <2>5. \A i \in 0..Len(order') : nextLeaf'[At(order', i)] = At(order', i + 1)
    BY <1>12, <2>3, Zenon
  <2> QED BY <2>1, <2>2, <2>4, <2>5, Zenon DEF LinksInv
<1>14. LeavesInv'
  <2>1. ASSUME NEW i \in 1..(N + 1), NEW j \in 1..(N + 1), order'[i] = order'[j]
        PROVE  i = j
    <3>1. At(order', i) = At(order', j) /\ i \in 0..(N + 2) /\ j \in 0..(N + 2)
      BY <1>3, <1>10, <2>1
    <3> DEFINE f(x) == IF x <= k THEN x ELSE x - 1
    <3>2. \A x \in 1..(N + 1) : x # k + 1 => f(x) \in 0..N /\ f(x) \in 0..(N + 1) /\ At(order', x) = At(order, f(x))
      BY <1>3, <1>4
    <3>3. \A x, y \in 1..(N + 1) : x # k + 1 /\ y # k + 1 /\ f(x) = f(y) => x = y
      <4> SUFFICES ASSUME NEW x \in 1..(N + 1), NEW y \in 1..(N + 1), x # k + 1, y # k + 1, f(x) = f(y)
                   PROVE  x = y
        BY Zenon
      <4>1. x \in Nat /\ y \in Nat
        BY <1>3
      <4> QED BY <1>3, <4>1
    <3>4. At(order', k + 1) = new
      BY <1>3, <1>4
    <3> HIDE DEF f
    <3>5. CASE i = k + 1 \/ j = k + 1
      BY <1>6, <3>1, <3>2, <3>4, <3>5, Zenon
    <3>6. CASE i # k + 1 /\ j # k + 1
      <4>1. f(i) = f(j)
        BY <1>7, <3>1, <3>2, <3>6
      <4> QED BY <3>3, <3>6, <4>1, Zenon
    <3> QED BY <3>5, <3>6, Zenon
  <2>2. firstLeaf' = order'[1]
    <3>1. order'[1] = At(order, 1)
      BY <1>3, <1>4, <1>10
    <3> QED BY <1>1, <1>3, <1>7, <3>1 DEF LeavesInv
  <2>3. lastLeaf' = order'[N + 1]
    <3>1. lastLeaf = order[N] /\ order[N] = At(order, N)
      BY <1>3, <1>7 DEF LeavesInv, N
    <3>2. order'[N + 1] = IF k = N THEN new ELSE At(order, N)
      BY <1>3, <1>4, <1>10
    <3>3. lastLeaf = p <=> k = N
      BY <1>2, <1>3, <1>7, <3>1
    <3> QED BY <1>1, <3>1, <3>2, <3>3, Zenon
  <2>4. unlink' = "idle" /\ leaf' = leaf
    BY <1>1, Zenon
  <2> QED BY <1>3, <1>4, <2>1, <2>2, <2>3, <2>4 DEF LeavesInv
<1>15. EntriesInv'
  <2>1. Capacity \in Nat /\ entries[p] \in Seq(Nat) /\ Len(entries[p]) = Capacity
    BY <1>1, LeafConstants, Zenon DEF EntriesInv
  <2> DEFINE half == Capacity \div 2
             a == SubSeq(entries[p], 1, half)
             b == SubSeq(entries[p], half + 1, Capacity)
  <2>2. half \in Nat /\ half <= Capacity
    BY <2>1
  <2> HIDE DEF half
  <2>3. a \in Seq(Nat) /\ Len(a) <= Capacity
    BY <2>1, <2>2, PartSeq
  <2>5. b \in Seq(Nat) /\ Len(b) <= Capacity
    BY <2>1, <2>2, PartSeq
  <2>4. entries' = [entries EXCEPT ![p] = a, ![new] = b]
    BY <1>1, <2>1, Zenon DEF half
  <2> HIDE DEF a, b
  <2> QED BY <2>3, <2>4, <2>5, Zenon DEF EntriesInv
<1> QED BY <1>13, <1>14, <1>15, Zenon

(* unlink_leaf: its two blocks, the failures of fetch_node, the rollback.  *)
LEMMA UnlinkKeeps ==
    ASSUME LeavesInv, LinksInv, EntriesInv,
           UnlinkPrev \/ UnlinkNext \/ FetchPrevFails \/ FetchNextFails \/ RollbackFails
    PROVE  LeavesInv' /\ LinksInv' /\ EntriesInv'
<1> DEFINE N == Len(order)
<1>1. PICK k \in 2..N : leaf = order[k]
  BY Zenon DEF LeavesInv, UnlinkPrev, UnlinkNext, FetchPrevFails, FetchNextFails, RollbackFails
<1>2. N \in Nat /\ N >= 1 /\ k \in Nat /\ k >= 2 /\ k <= N
  BY RingPlaces
<1>3. /\ \A i, j \in 0..N : At(order, i) = At(order, j) => i = j
      /\ \A i, j \in 1..(N + 1) : At(order, i) = At(order, j) => i = j
      /\ \A i \in 1..N : At(order, i) = order[i] /\ order[i] \in Pages
      /\ \A i \in 0..(N + 1) : At(order, i) \in Nodes
      /\ \A i \in 1..(N + 1) : prevLeaf[At(order, i)] = At(order, i - 1)
  BY RingPlaces, Zenon DEF LinksInv
<1>4. leaf = At(order, k) /\ prevLeaf[leaf] = At(order, k - 1) /\ leaf \in Pages /\ leaf \in Nodes
  BY <1>1, <1>2, <1>3
<1>5. ASSUME NEW i \in 0..N
      PROVE  /\ At(order, i + 1) = leaf <=> i = k - 1
             /\ At(order, i) = At(order, k - 1) <=> i = k - 1
  BY <1>2, <1>3, <1>4
<1>6. nextLeaf[leaf] = At(order, k + 1)
  <2>1. k \in 0..N /\ k # k - 1
    BY <1>2
  <2> QED BY <1>4, <1>5, <2>1, Zenon DEF LinksInv
<1>7. nextLeaf \in [Nodes -> Nodes \cup {None}] /\ prevLeaf \in [Nodes -> Nodes \cup {None}]
  BY Zenon DEF LinksInv
<1>8. ASSUME NEW i \in 0..N
      PROVE  nextLeaf[At(order, i)] = IF unlink \in {"next", "broken"} /\ i = k - 1
                                      THEN At(order, k + 1) ELSE At(order, i + 1)
  <2>1. i = k - 1 => i + 2 = k + 1
    BY <1>2
  <2> QED BY <1>5, <2>1, Zenon DEF LinksInv
<1> HIDE DEF N
<1>9. CASE UnlinkPrev \/ FetchNextFails
  <2> DEFINE v == IF UnlinkPrev THEN At(order, k + 1) ELSE leaf
  <2>1. /\ nextLeaf' = [nextLeaf EXCEPT ![At(order, k - 1)] = v]
        /\ unlink' = (IF UnlinkPrev THEN "next" ELSE "failed")
        /\ UNCHANGED <<prevLeaf, entries, order, firstLeaf, lastLeaf, leaf>>
    BY <1>4, <1>6, <1>9, Zenon DEF UnlinkPrev, FetchNextFails
  <2>2. LeavesInv' /\ EntriesInv'
    BY <1>1, <2>1, Zenon DEF LeavesInv, EntriesInv, N
  <2>3. v \in Nodes /\ At(order, k - 1) \in Nodes
    BY <1>2, <1>3, <1>4
  <2>4. ASSUME NEW i \in 0..N
        PROVE  nextLeaf'[At(order, i)] = IF unlink' \in {"next", "broken"} /\ At(order, i + 1) = leaf
                                         THEN At(order, i + 2) ELSE At(order, i + 1)
    <3>1. At(order, i) \in Nodes
      BY <1>2, <1>3
    <3>2. CASE i = k - 1
      <4>1. nextLeaf'[At(order, i)] = v
        BY <1>7, <2>1, <3>1, <3>2, Zenon
      <4>2. i + 2 = k + 1 /\ i + 1 = k
        BY <1>2, <3>2
      <4> QED BY <1>4, <2>1, <4>1, <4>2, Zenon
    <3>3. CASE i # k - 1
      <4>1. nextLeaf'[At(order, i)] = nextLeaf[At(order, i)]
        BY <1>5, <1>7, <2>1, <3>1, <3>3, Zenon
      <4> QED BY <1>5, <1>8, <3>3, <4>1, Zenon
    <3> QED BY <3>2, <3>3, Zenon
  <2> HIDE DEF v
  <2>5. nextLeaf' \in [Nodes -> Nodes \cup {None}]
    BY <1>7, <2>1, <2>3, Zenon
  <2>6. LinksInv'
    BY <1>3, <1>7, <2>1, <2>4, <2>5 DEF LinksInv, N
  <2> QED BY <2>2, <2>6, Zenon
<1>10. CASE FetchPrevFails \/ RollbackFails
  <2>1. /\ UNCHANGED <<nextLeaf, prevLeaf, entries, order, firstLeaf, lastLeaf, leaf>>
        /\ unlink' \in {"failed", "broken"}
        /\ unlink' \in {"next", "broken"} <=> unlink \in {"next", "broken"}
    BY <1>10, Zenon DEF FetchPrevFails, RollbackFails, links
  <2> QED BY <1>1, <2>1, Zenon DEF LeavesInv, LinksInv, EntriesInv, N
<1>11. CASE UnlinkNext
  <2>1. /\ unlink = "next" /\ unlink' = "idle" /\ leaf' = None
        /\ nextLeaf' = [nextLeaf EXCEPT ![leaf] = None]
        /\ prevLeaf' = [prevLeaf EXCEPT ![At(order, k + 1)] = At(order, k - 1), ![leaf] = None]
        /\ lastLeaf' = IF lastLeaf = leaf THEN At(order, k - 1) ELSE lastLeaf
        /\ UNCHANGED <<entries, firstLeaf>>
    BY <1>4, <1>6, <1>11, Zenon DEF UnlinkNext
  <2>2. PlaceOf(leaf) = k
    <3>1. leaf \in Range(order) /\ k \in 1..N
      BY <1>1, <1>2 DEF LeavesInv, Range, N
    <3>2. PlaceOf(leaf) \in 1..N /\ order[PlaceOf(leaf)] = leaf
      BY <3>1, PlaceFound, Zenon DEF N
    <3> QED BY <1>1, <3>1, <3>2, Zenon DEF LeavesInv, N
  <2>3. /\ order' \in Seq(Pages) /\ Len(order') = N - 1
        /\ \A i \in 0..N : At(order', i) = IF i < k THEN At(order, i) ELSE At(order, i + 1)
    <3>1. order' = SubSeq(order, 1, k - 1) \o SubSeq(order, k + 1, Len(order))
      BY <1>11, <2>2, Zenon DEF UnlinkNext
    <3>2. k \in 1..Len(order) /\ order \in Seq(Pages)
      BY <1>2 DEF LeavesInv, N
    <3> QED BY <3>1, <3>2, RemovedLeaf, Zenon DEF N
  <2>4. \A i \in 1..(N - 1) : order'[i] = At(order', i)
    BY <1>2, <2>3, Zenon DEF At
  <2>5. ASSUME NEW i \in 1..N
        PROVE  prevLeaf'[At(order', i)] = At(order', i - 1)
    <3>1. i \in 0..N /\ i - 1 \in 0..N /\ i \in Nat /\ k + 1 \in 1..(N + 1) /\ k \in 1..(N + 1)
      BY <1>2
    <3>2. CASE i < k
      <4>1. At(order', i) = At(order, i) /\ At(order', i - 1) = At(order, i - 1)
        BY <1>2, <2>3, <3>1, <3>2
      <4>2. i \in 1..(N + 1) /\ i # k /\ i # k + 1 /\ At(order, i) \in Nodes
        BY <1>2, <1>3, <3>1, <3>2
      <4>3. At(order, i) # At(order, k + 1) /\ At(order, i) # leaf
        BY <1>3, <1>4, <3>1, <4>2, Zenon
      <4> QED BY <1>3, <1>7, <2>1, <4>1, <4>2, <4>3, Zenon
    <3>3. CASE i = k
      <4>1. At(order', i) = At(order, k + 1) /\ At(order', i - 1) = At(order, k - 1)
        BY <1>2, <2>3, <3>1, <3>3
      <4>2. At(order, k + 1) # leaf /\ At(order, k + 1) \in Nodes
        BY <1>2, <1>3, <1>4, <3>1
      <4> QED BY <1>7, <2>1, <4>1, <4>2, Zenon
    <3>4. CASE i > k
      <4>1. At(order', i) = At(order, i + 1) /\ At(order', i - 1) = At(order, (i + 1) - 1)
        BY <1>2, <2>3, <3>1, <3>4
      <4>2. i + 1 \in 1..(N + 1) /\ i + 1 # k /\ i + 1 # k + 1 /\ At(order, i + 1) \in Nodes
        BY <1>2, <1>3, <3>1, <3>4
      <4>3. At(order, i + 1) # At(order, k + 1) /\ At(order, i + 1) # leaf
        BY <1>3, <1>4, <3>1, <4>2, Zenon
      <4> QED BY <1>3, <1>7, <2>1, <4>1, <4>2, <4>3, Zenon
    <3> QED BY <1>2, <3>1, <3>2, <3>3, <3>4
  <2>6. ASSUME NEW i \in 0..(N - 1)
        PROVE  nextLeaf'[At(order', i)] = At(order', i + 1)
    <3>1. i \in 0..N /\ i + 1 \in 0..N /\ i \in Nat /\ k \in 0..N
      BY <1>2
    <3>2. CASE i < k
      <4>1. At(order', i) = At(order, i)
        BY <2>3, <3>1, <3>2, Zenon
      <4>2. At(order', i + 1) = IF i = k - 1 THEN At(order, k + 1) ELSE At(order, i + 1)
        BY <1>2, <2>3, <3>1, <3>2
      <4>3. At(order, i) # leaf /\ At(order, i) \in Nodes
        BY <1>2, <1>3, <1>4, <3>1, <3>2
      <4> QED BY <1>7, <1>8, <2>1, <3>1, <4>1, <4>2, <4>3, Zenon
    <3>3. CASE i >= k
      <4>1. At(order', i) = At(order, i + 1) /\ At(order', i + 1) = At(order, (i + 1) + 1)
        BY <1>2, <2>3, <3>1, <3>3
      <4>2. At(order, i + 1) # leaf /\ At(order, i + 1) \in Nodes /\ i + 1 # k - 1
        BY <1>2, <1>3, <1>4, <3>1, <3>3
      <4> QED BY <1>7, <1>8, <2>1, <3>1, <4>1, <4>2, Zenon
    <3> QED BY <1>2, <3>1, <3>2, <3>3
  <2>7. LinksInv'
    <3>1. At(order, k + 1) \in Nodes /\ At(order, k - 1) \in Nodes
      BY <1>2, <1>3
    <3>2. nextLeaf' \in [Nodes -> Nodes \cup {None}] /\ prevLeaf' \in [Nodes -> Nodes \cup {None}]
      BY <1>4, <1>7, <2>1, <3>1, Zenon
    <3>3. 1..(Len(order') + 1) = 1..N /\ 0..Len(order') = 0..(N - 1)
      BY <1>2, <2>3
    <3>4. \A i \in 1..(Len(order') + 1) : prevLeaf'[At(order', i)] = At(order', i - 1)
      BY <2>5, <3>3, Zenon
    <3>5. \A i \in 0..Len(order') : nextLeaf'[At(order', i)] = At(order', i + 1)
      BY <2>6, <3>3, Zenon
    <3> QED BY <2>1, <3>2, <3>4, <3>5, Zenon DEF LinksInv
  <2>8. LeavesInv'
    <3>1. ASSUME NEW i \in 1..(N - 1), NEW j \in 1..(N - 1), order'[i] = order'[j]
          PROVE  i = j
      <4>1. At(order', i) = At(order', j) /\ i \in 0..N /\ j \in 0..N
        BY <1>2, <2>4, <3>1
      <4> DEFINE f(x) == IF x < k THEN x ELSE x + 1
      <4>2. f(i) \in 0..N /\ f(j) \in 0..N /\ (f(i) = f(j) => i = j)
        BY <1>2
      <4>3. At(order', i) = At(order, f(i)) /\ At(order', j) = At(order, f(j))
        BY <1>2, <2>3, <4>1, Zenon
      <4> HIDE DEF f
      <4> QED BY <1>3, <4>1, <4>2, <4>3, Zenon
    <3>2. firstLeaf' = order'[1]
      <4>1. order'[1] = At(order, 1)
        BY <1>2, <2>3, <2>4
      <4> QED BY <1>2, <1>3, <2>1, <4>1 DEF LeavesInv, N
    <3>3. lastLeaf' = order'[N - 1]
      <4>1. lastLeaf = order[N] /\ order[N] = At(order, N)
        BY <1>2, <1>3 DEF LeavesInv, N
      <4>2. order'[N - 1] = IF k = N THEN At(order, k - 1) ELSE At(order, N)
        BY <1>2, <2>3, <2>4
      <4>3. lastLeaf = leaf <=> k = N
        BY <1>2, <1>3, <1>4, <4>1
      <4> QED BY <2>1, <4>1, <4>2, <4>3, Zenon
    <3> QED BY <1>2, <2>1, <2>3, <3>1, <3>2, <3>3 DEF LeavesInv
  <2>9. EntriesInv'
    BY <2>1, Zenon DEF EntriesInv
  <2> QED BY <2>7, <2>8, <2>9, Zenon
<1> QED BY <1>9, <1>10, <1>11, Zenon

ChainInv == LeavesInv /\ LinksInv /\ EntriesInv

(* The invariant of the leaf list, over any splits and merges with fetches *)
(* that fail.                                                              *)
THEOREM ChainInvariant == ChainSpec => []ChainInv
<1>1. ChainInit => ChainInv
  <2> SUFFICES ASSUME ChainInit PROVE ChainInv
    BY Zenon
  <2>1. order = <<Root>> /\ Root \in Pages /\ unlink = "idle" /\ leaf = None
    BY LeafConstants, Zenon DEF ChainInit
  <2>2. order \in Seq(Pages) /\ Len(order) = 1 /\ order[1] = Root
    BY <2>1
  <2>3. LeavesInv
    BY <2>1, <2>2 DEF ChainInit, LeavesInv
  <2>4. At(order, 0) = Sentinel /\ At(order, 1) = Root /\ At(order, 2) = Sentinel
    BY <2>2 DEF At
  <2>5. /\ nextLeaf \in [Nodes -> Nodes \cup {None}] /\ prevLeaf = nextLeaf
        /\ nextLeaf[Root] = Sentinel /\ nextLeaf[Sentinel] = Root
    BY LeafConstants, Zenon DEF ChainInit, Nodes
  <2>6. LinksInv
    <3>1. 1..(Len(order) + 1) = {1, 2} /\ 0..Len(order) = {0, 1}
      BY <2>2
    <3> QED BY <2>1, <2>4, <2>5, <3>1 DEF LinksInv
  <2>7. EntriesInv
    BY LeafConstants DEF ChainInit, EntriesInv
  <2> QED BY <2>3, <2>6, <2>7, Zenon DEF ChainInv
<1>2. ChainInv /\ [ChainNext]_chainVars => ChainInv'
  <2> SUFFICES ASSUME ChainInv, [ChainNext]_chainVars PROVE ChainInv'
    BY Zenon
  <2>1. LeavesInv /\ LinksInv /\ EntriesInv
    BY Zenon DEF ChainInv
  <2>2. CASE UNCHANGED chainVars
    BY <2>1, <2>2, Zenon DEF chainVars, ChainInv, LeavesInv, LinksInv, EntriesInv
  <2>3. CASE ChainNext
    BY <2>1, <2>3, EntriesKeep, SplitKeeps, UnlinkKeeps, Zenon DEF ChainNext, ChainInv
  <2> QED BY <2>2, <2>3, Zenon
<1> QED BY <1>1, <1>2, PTL DEF ChainSpec

(* unlink_leaf leaves the ring of leaves intact, also where one of its     *)
(* fetches fails, and IndexScan reads every entry of every leaf once, in   *)
(* order, and stops.                                                       *)
THEOREM AlwaysScanVisitsAll == ChainSpec => []ScanVisitsAll
<1>1. ChainInv => ScanVisitsAll
  <2> SUFFICES ASSUME ChainInv PROVE ScanVisitsAll
    BY Zenon
  <2>1. LeavesInv /\ LinksInv /\ EntriesInv
    BY Zenon DEF ChainInv
  <2> DEFINE N == Len(order)
  <2>2. /\ order \in Seq(Pages) /\ N \in Nat /\ N >= 1 /\ DOMAIN order = 1..N
        /\ firstLeaf = order[1] /\ lastLeaf = order[N]
        /\ \A i, j \in 1..N : order[i] = order[j] => i = j
    BY <2>1 DEF LeavesInv
  <2>3. /\ \A i \in 1..N : At(order, i) = order[i] /\ order[i] \in Pages
        /\ At(order, 0) = Sentinel /\ At(order, N + 1) = Sentinel
    BY <2>1, RingPlaces, Zenon
  <2>4. ChainTypeOK
    <3>1. Range(order) \subseteq Pages /\ order[1] \in Range(order) /\ order[N] \in Range(order)
      BY <2>2, <2>3 DEF Range
    <3>2. order # <<>>
      BY <2>2
    <3> QED BY <2>1, <2>2, <3>1, <3>2, Zenon DEF ChainTypeOK, LeavesInv, LinksInv, EntriesInv
  <2>5. ASSUME unlink \notin {"next", "broken"}
        PROVE  /\ \A i \in 1..(N + 1) : prevLeaf[At(order, i)] = At(order, i - 1)
               /\ \A i \in 0..N : nextLeaf[At(order, i)] = At(order, i + 1)
    BY <2>1, <2>5, Zenon DEF LinksInv
  <2> HIDE DEF N
  <2>6. ASSUME unlink \in {"idle", "failed"}
        PROVE  Ring
    <3> DEFINE ring == <<Sentinel>> \o order
    <3>1. Len(ring) = N + 1 /\ \A i \in 1..(N + 1) : ring[i] = At(order, i - 1)
      BY <2>2 DEF At, N
    <3> HIDE DEF ring
    <3>2. ASSUME NEW i \in 1..(N + 1)
          PROVE  ring[(i % (N + 1)) + 1] = At(order, i)
      <4>1. CASE i = N + 1
        <5>1. i % (N + 1) = 0
          BY <2>2, <4>1
        <5> QED BY <2>2, <2>3, <3>1, <4>1, <5>1
      <4>2. CASE i # N + 1
        <5>1. i % (N + 1) = i /\ i + 1 \in 1..(N + 1) /\ (i + 1) - 1 = i
          BY <2>2, <4>2
        <5> QED BY <3>1, <5>1, Zenon
      <4> QED BY <4>1, <4>2, Zenon
    <3>3. ASSUME NEW i \in 1..(N + 1)
          PROVE  /\ nextLeaf[ring[i]] = ring[(i % (N + 1)) + 1]
                 /\ prevLeaf[ring[(i % (N + 1)) + 1]] = ring[i]
      <4>1. i - 1 \in 0..N /\ (i - 1) + 1 = i
        BY <2>2
      <4>2. nextLeaf[At(order, i - 1)] = At(order, i)
        BY <2>5, <2>6, <4>1, Zenon
      <4> QED BY <2>5, <2>6, <3>1, <3>2, <4>2, Zenon
    <3> QED BY <3>1, <3>3, Zenon DEF Ring, ring
  <2>7. ASSUME unlink = "idle", \A p \in Range(order) : entries[p] # <<>>
        PROVE  /\ LeafBegin = Slot(1, 0)
               /\ \A i \in DOMAIN order : \A k \in 0..(Len(entries[order[i]]) - 1) :
                    /\ Slot(i, k) # LeafEnd
                    /\ ScanNext(Slot(i, k)) =
                          IF k + 1 < Len(entries[order[i]]) THEN Slot(i, k + 1)
                          ELSE IF i < Len(order) THEN Slot(i + 1, 0)
                          ELSE LeafEnd
    <3>1. LeafBegin = Slot(1, 0)
      BY <2>2, Zenon DEF LeafBegin, Slot
    <3>2. ASSUME NEW i \in 1..N, NEW k \in 0..(Len(entries[order[i]]) - 1)
          PROVE  /\ Slot(i, k) # LeafEnd
                 /\ ScanNext(Slot(i, k)) =
                       IF k + 1 < Len(entries[order[i]]) THEN Slot(i, k + 1)
                       ELSE IF i < N THEN Slot(i + 1, 0)
                       ELSE LeafEnd
      <4> DEFINE size == Len(entries[order[i]])
      <4>1. size \in Nat /\ k \in Nat /\ k < size
        BY <2>1, <2>3 DEF EntriesInv
      <4>2. order[i] = lastLeaf <=> i = N
        BY <2>2
      <4>3. nextLeaf[order[i]] = At(order, i + 1)
        BY <2>2, <2>3, <2>5, <2>7
      <4>4. i < N => nextLeaf[order[i]] = order[i + 1]
        BY <2>2, <2>3, <4>3
      <4>5. Slot(i, k).page = order[i] /\ Slot(i, k).slot = k
        BY Zenon DEF Slot
      <4>6. LeafEnd.page = lastLeaf /\ LeafEnd.slot = Len(entries[lastLeaf])
        BY Zenon DEF LeafEnd
      <4>7. Slot(i, k) # LeafEnd
        <5> SUFFICES ASSUME Slot(i, k) = LeafEnd PROVE FALSE
          BY Zenon
        <5>1. order[i] = lastLeaf /\ k = Len(entries[order[i]])
          BY <4>5, <4>6, Zenon
        <5> QED BY <4>1, <5>1
      <4>8. ScanNext(Slot(i, k)) = IF order[i] # lastLeaf /\ k + 1 = size
                                   THEN [page |-> nextLeaf[order[i]], slot |-> 0]
                                   ELSE [page |-> order[i], slot |-> k + 1]
        BY DEF ScanNext, Slot
      <4>9. CASE k + 1 < size
        <5>1. ScanNext(Slot(i, k)) = [page |-> order[i], slot |-> k + 1]
          BY <4>1, <4>8, <4>9
        <5> QED BY <4>7, <4>9, <5>1, Zenon DEF Slot
      <4>10. CASE k + 1 = size /\ i < N
        <5>1. ScanNext(Slot(i, k)) = [page |-> order[i + 1], slot |-> 0]
          BY <2>2, <4>2, <4>4, <4>8, <4>10
        <5>2. ~(k + 1 < size)
          BY <4>1, <4>10
        <5> QED BY <4>7, <4>10, <5>1, <5>2, Zenon DEF Slot
      <4>11. CASE k + 1 = size /\ i = N
        <5>1. ScanNext(Slot(i, k)) = [page |-> order[i], slot |-> k + 1]
          BY <4>2, <4>8, <4>11, Zenon
        <5>2. ~(k + 1 < size) /\ ~(i < N)
          BY <2>2, <4>1, <4>11
        <5>3. LeafEnd = [page |-> order[i], slot |-> k + 1]
          BY <4>2, <4>11, Zenon DEF LeafEnd
        <5> QED BY <4>7, <5>1, <5>2, <5>3, Zenon
      <4> QED BY <2>2, <4>1, <4>7, <4>9, <4>10, <4>11
    <3> QED BY <2>2, <3>1, <3>2, Zenon DEF N
  <2> QED BY <2>4, <2>6, <2>7, Zenon DEF ScanVisitsAll
<1> QED BY <1>1, ChainInvariant, PTL
=============================================================================
