--------------------------- MODULE PageGuardProofs ---------------------------
(***************************************************************************)
(* Proofs about PageGuard, for any number of guards, descriptors, pages and*)
(* files and any pool size.                                                *)
(***************************************************************************)
EXTENDS PageGuard, FiniteSetTheorems, TLAPS

(* What closing a file relies on: its pages have no users while it is being*)
(* closed, the list of pages to delete covers all that are still resident, *)
(* and every resident page belongs to an open file.                        *)
Closing ==
    /\ closing.fd = NoFd <=> closing.step = "none"
    /\ closing.fd # NoFd => file[closing.fd] # NoFile
    /\ \A g \in Guards : guard[g].page # NoPage => guard[g].page[1] # closing.fd
    /\ closing.step = "delete" => resident \cap PagesOf(closing.fd) \subseteq todo
    /\ \A p \in resident : file[p[1]] # NoFile

IInv ==
    /\ TypeOK /\ PinsMatchGuards /\ ViewsArePinned
    /\ NoLostUpdate /\ NoStaleFrames /\ Closing

(* The part of the types that only the guards' fields are in.              *)
GuardTypes ==
    /\ guard \in [Guards -> [page : Pages \cup {NoPage}, dirty : BOOLEAN]]
    /\ \A g \in Guards : guard[g].page = NoPage => ~guard[g].dirty

(* Counting holders: taking one guard out of a set of guards, or putting   *)
(* one in, changes its size by one; only the empty set has size zero.      *)
LEMMA CountGuards ==
    ASSUME NEW S \in SUBSET Guards
    PROVE  /\ Cardinality(S) \in Nat
           /\ Cardinality(S) = 0 <=> S = {}
           /\ \A x \in S : Cardinality(S \ {x}) = Cardinality(S) - 1
           /\ \A x \in Guards \ S : Cardinality(S \cup {x}) = Cardinality(S) + 1
<1>1. IsFiniteSet(S)
  BY GuardsAssumption, FS_Subset, Zenon
<1>2. Cardinality(S) \in Nat
  BY <1>1, FS_CardinalityType, Zenon
<1>3. Cardinality(S) = 0 <=> S = {}
  BY <1>1, FS_EmptySet, Zenon
<1>4. \A x \in S : Cardinality(S \ {x}) = Cardinality(S) - 1
  BY <1>1, FS_RemoveElement, Zenon
<1>5. \A x \in Guards \ S : Cardinality(S \cup {x}) = Cardinality(S) + 1
  BY <1>1, FS_AddElement, Zenon
<1> QED BY <1>2, <1>3, <1>4, <1>5, Zenon

(* PageGuard::drop(): afterwards every page is counted without this guard, *)
(* and a modified page is marked dirty in the pool.                        *)
LEMMA DropPinEffect ==
    ASSUME TypeOK, PinsMatchGuards, NEW g \in Guards, DropPin(g)
    PROVE  /\ pins' \in [Pages -> Nat]
           /\ \A p \in Pages : pins'[p] = Cardinality(Holders(p) \ {g})
           /\ dirty \subseteq dirty'
           /\ dirty' \subseteq dirty \cup {guard[g].page}
           /\ guard[g].dirty => guard[g].page \in dirty'
           /\ guard[g].page = NoPage => dirty' = dirty
<1> DEFINE H(p) == Holders(p)
<1>1. \A p \in Pages : H(p) \in SUBSET Guards
  BY Zenon DEF Holders
<1>2. CASE guard[g].page = NoPage
  <2>1. pins' = pins /\ dirty' = dirty
    BY <1>2, Zenon DEF DropPin
  <2>2. \A p \in Pages : Holders(p) \ {g} = Holders(p)
    BY <1>2, NothingAssumption, Zenon DEF Holders
  <2>3. ~guard[g].dirty
    BY <1>2, Zenon DEF TypeOK
  <2>4. pins \in [Pages -> Nat] /\ \A p \in Pages : pins[p] = Cardinality(Holders(p))
    BY Zenon DEF TypeOK, PinsMatchGuards
  <2> QED BY <2>1, <2>2, <2>3, <2>4, Zenon
<1>3. CASE guard[g].page # NoPage
  <2> DEFINE q == guard[g].page
  <2>1. q \in Pages /\ g \in Holders(q)
    BY <1>3, Zenon DEF TypeOK, Holders
  <2>2. /\ pins' = [pins EXCEPT ![q] = @ - 1]
        /\ dirty' = IF guard[g].dirty THEN dirty \cup {q} ELSE dirty
    BY <1>3, Zenon DEF DropPin, Unpin
  <2>3. /\ Cardinality(Holders(q)) \in Nat /\ Cardinality(Holders(q)) # 0
        /\ Cardinality(Holders(q) \ {g}) = Cardinality(Holders(q)) - 1
    BY <2>1, <1>1, CountGuards, Zenon
  <2>4. \A p \in Pages : p # q => Holders(p) \ {g} = Holders(p)
    BY Zenon DEF Holders
  <2>5. pins \in [Pages -> Nat] /\ \A p \in Pages : pins[p] = Cardinality(Holders(p))
    BY Zenon DEF TypeOK, PinsMatchGuards
  <2>6. pins' \in [Pages -> Nat]
    BY <2>1, <2>2, <2>3, <2>5
  <2>7. \A p \in Pages : pins'[p] = Cardinality(Holders(p) \ {g})
    BY <2>1, <2>2, <2>3, <2>4, <2>5, Zenon
  <2>8. /\ dirty \subseteq dirty' /\ dirty' \subseteq dirty \cup {q}
        /\ guard[g].dirty => q \in dirty'
    BY <2>2, Zenon
  <2> QED BY <1>3, <2>6, <2>7, <2>8, Zenon
<1> QED BY <1>2, <1>3, Zenon

(* Initially no page is pinned, resident or held.                          *)
LEMMA InitInv == Init => IInv
<1> SUFFICES ASSUME Init PROVE IInv
  BY Zenon
<1> USE DEF Init
<1>1. TypeOK
  BY Zenon DEF TypeOK, Empty, Steps
<1>2. PinsMatchGuards
  <2>1. \A p \in Pages : Holders(p) = {}
    BY NothingAssumption, Zenon DEF Holders, Empty
  <2>2. Cardinality({}) = 0
    BY FS_EmptySet, Zenon
  <2> QED BY <2>1, <2>2, Zenon DEF PinsMatchGuards
<1>3. ViewsArePinned /\ NoLostUpdate /\ NoStaleFrames
  BY Zenon DEF ViewsArePinned, NoLostUpdate, NoStaleFrames, Empty
<1>4. Closing
  BY Zenon DEF Closing, Empty
<1> QED BY <1>1, <1>2, <1>3, <1>4, Zenon DEF IInv

(* Acquire pins a page no closing file owns; a victim has no holder, so its*)
(* changes are marked dirty and reach the disk.                            *)
LEMMA AcquireInv ==
    ASSUME IInv, NEW g \in Guards, NEW p \in Pages, Acquire(g, p)
    PROVE  IInv'
<1>a. TypeOK /\ PinsMatchGuards /\ ViewsArePinned /\ NoLostUpdate /\ NoStaleFrames /\ Closing
  BY Zenon DEF IInv
<1>b. p[1] \in Fds
  BY Zenon DEF Pages
<1>c. /\ guard[g].page = NoPage /\ file[p[1]] # NoFile /\ closing.fd # p[1]
      /\ pins' = [pins EXCEPT ![p] = @ + 1]
      /\ guard' = [guard EXCEPT ![g] = [page |-> p, dirty |-> FALSE]]
      /\ view' = [view EXCEPT ![g] = p]
      /\ UNCHANGED <<file, closing, todo>>
  BY Zenon DEF Acquire, Pin, fileVars
<1>d. p # NoPage
  BY NothingAssumption, Zenon
<1>e. \A q \in Pages : pins[q] = 0 => Holders(q) = {}
  BY <1>a, CountGuards, Zenon DEF PinsMatchGuards, Holders
<1> DEFINE Loaded(gn) ==
        /\ \A q \in gn : Holders(q) = {}
        /\ resident' = (resident \ gn) \cup {p}
        /\ dirty' = dirty \ gn
        /\ changed' = changed \ (gn \cap dirty)
        /\ origin' \in [Pages -> Files \cup {NoFile}]
        /\ origin'[p] = file[p[1]]
        /\ \A q \in Pages : q # p => origin'[q] = origin[q]
<1>f. ASSUME NEW gn \in SUBSET resident, p \notin resident, LoadOver(p, gn),
             \A q \in gn : pins[q] = 0
      PROVE  gn \in SUBSET (resident \ {p}) /\ Loaded(gn)
  <2>1. \A q \in gn : Holders(q) = {}
    BY <1>a, <1>e, <1>f, Zenon DEF TypeOK
  <2>2. /\ origin' \in [Pages -> Files \cup {NoFile}]
        /\ origin'[p] = file[p[1]]
        /\ \A q \in Pages : q # p => origin'[q] = origin[q]
    <3>1. origin' = [origin EXCEPT ![p] = file[p[1]]]
      BY <1>f, Zenon DEF LoadOver
    <3>2. origin \in [Pages -> Files \cup {NoFile}] /\ file[p[1]] \in Files \cup {NoFile}
      BY <1>a, <1>b, Zenon DEF TypeOK
    <3> QED BY <3>1, <3>2, Zenon
  <2> QED BY <1>f, <2>1, <2>2, Zenon DEF LoadOver
<1>1. PICK gone \in SUBSET (resident \ {p}) : Loaded(gone)
  <2>1. CASE p \in resident /\ UNCHANGED <<resident, dirty, changed, origin>>
    <3>1. origin[p] = file[p[1]] /\ origin \in [Pages -> Files \cup {NoFile}]
      BY <1>a, <2>1, Zenon DEF NoStaleFrames, TypeOK
    <3>2. Loaded({})
      BY <2>1, <3>1, Zenon
    <3>3. {} \in SUBSET (resident \ {p})
      BY Zenon
    <3> HIDE DEF Loaded
    <3> QED BY <3>2, <3>3, Zenon
  <2>2. CASE p \notin resident /\ LoadOver(p, {})
    BY <1>f, <2>2
  <2>3. CASE p \notin resident /\ \E q \in resident : pins[q] = 0 /\ LoadOver(p, {q})
    <3>1. PICK q \in resident : pins[q] = 0 /\ LoadOver(p, {q})
      BY <2>3, Zenon
    <3>2. Loaded({q}) /\ {q} \in SUBSET (resident \ {p})
      BY <1>f, <2>3, <3>1
    <3> QED BY <3>2, ZenonT(30)
  <2> QED BY <2>1, <2>2, <2>3, Zenon DEF Acquire, Pin
<1>2. Holders(p)' = Holders(p) \cup {g} /\ g \notin Holders(p)
  BY <1>a, <1>c, <1>d, Zenon DEF Holders, TypeOK
<1>3. \A q \in Pages : q # p => Holders(q)' = Holders(q)
  BY <1>a, <1>c, NothingAssumption DEF Holders, TypeOK
<1>4. TypeOK'
  <2>1. GuardTypes'
    BY <1>a, <1>c, <1>d, Zenon DEF GuardTypes, TypeOK
  <2>2. pins' \in [Pages -> Nat]
    BY <1>a, <1>c DEF TypeOK
  <2>3. view' \in [Guards -> Pages \cup {NoPage}]
    BY <1>a, <1>c, Zenon DEF TypeOK
  <2>4. resident' \subseteq Pages /\ dirty' \subseteq resident'
    BY <1>a, <1>1, Zenon DEF TypeOK
  <2> QED BY <1>a, <1>c, <1>1, <2>1, <2>2, <2>3, <2>4, Zenon DEF TypeOK, GuardTypes
<1>5. PinsMatchGuards'
  <2>1. Cardinality(Holders(p) \cup {g}) = Cardinality(Holders(p)) + 1
    BY <1>2, CountGuards, Zenon DEF Holders
  <2> QED BY <1>a, <1>c, <1>2, <1>3, <2>1, ZenonT(30) DEF PinsMatchGuards, TypeOK
<1>6. ViewsArePinned'
  <2>1. \A h \in Guards : guard'[h].page # NoPage => guard'[h].page \in resident'
    <3> TAKE h \in Guards
    <3>1. CASE h = g
      BY <1>a, <1>c, <1>1, <3>1, Zenon DEF TypeOK
    <3>2. CASE h # g
      <4>1. guard'[h] = guard[h]
        BY <1>a, <1>c, <3>2, Zenon DEF TypeOK
      <4>2. guard[h].page # NoPage => guard[h].page \in resident /\ h \in Holders(guard[h].page)
        BY <1>a, Zenon DEF ViewsArePinned, Holders
      <4> QED BY <4>1, <4>2, <1>1, Zenon
    <3> QED BY <3>1, <3>2, Zenon
  <2>2. \A h \in Guards : view'[h] # NoPage => view'[h] = guard'[h].page
    BY <1>a, <1>c, Zenon DEF ViewsArePinned, TypeOK
  <2> QED BY <2>1, <2>2, Zenon DEF ViewsArePinned
<1>7. NoLostUpdate'
  <2> SUFFICES ASSUME NEW q \in changed'
               PROVE  q \in dirty' \/ \E h \in Holders(q)' : guard'[h].dirty
    BY Zenon DEF NoLostUpdate
  <2>1. q \in changed /\ ~(q \in gone /\ q \in dirty)
    BY <1>1, Zenon
  <2>2. CASE q \in dirty
    BY <1>1, <2>1, <2>2, Zenon
  <2>3. CASE q \notin dirty
    <3>1. PICK h \in Guards : guard[h].page = q /\ guard[h].dirty
      BY <1>a, <2>1, <2>3, Zenon DEF NoLostUpdate, Holders
    <3>2. q # NoPage
      BY <1>a, <3>1, Zenon DEF TypeOK
    <3>3. h # g /\ guard'[h] = guard[h]
      BY <1>a, <1>c, <3>1, <3>2, Zenon DEF TypeOK
    <3> QED BY <3>1, <3>3, Zenon DEF Holders
  <2> QED BY <2>2, <2>3, Zenon
<1>8. NoStaleFrames'
  BY <1>a, <1>c, <1>1, Zenon DEF NoStaleFrames, TypeOK
<1>9. Closing'
  <2>1. \A h \in Guards : guard'[h].page # NoPage => guard'[h].page[1] # closing.fd
    BY <1>a, <1>c, Zenon DEF Closing, TypeOK
  <2>2. closing.step = "delete" => resident' \cap PagesOf(closing.fd) \subseteq todo
    BY <1>a, <1>c, <1>1, Zenon DEF Closing, PagesOf
  <2>3. \A q \in resident' : file[q[1]] # NoFile
    BY <1>a, <1>c, <1>1, Zenon DEF Closing
  <2> QED BY <1>a, <1>c, <2>1, <2>2, <2>3, Zenon DEF Closing, PagesOf
<1> QED BY <1>4, <1>5, <1>6, <1>7, <1>8, <1>9, Zenon DEF IInv

(* Facts about a step that only gives guards new pages among those already *)
(* held, and leaves frames and files alone: what remains to be shown of    *)
(* IInv' is about pins, views and dirty marks.                             *)
LEMMA HeldPagesInv ==
    ASSUME IInv, GuardTypes', pins' \in [Pages -> Nat],
           view' \in [Guards -> Pages \cup {NoPage}],
           dirty' \subseteq resident,
           UNCHANGED <<resident, origin, file, closing, todo>>,
           \A h \in Guards : guard'[h].page # NoPage =>
               \E k \in Guards : guard[k].page = guard'[h].page,
           \A h \in Guards : view'[h] # NoPage => view'[h] = guard'[h].page,
           PinsMatchGuards', NoLostUpdate'
    PROVE  IInv'
<1>1. TypeOK'
  BY Zenon DEF IInv, TypeOK, GuardTypes
<1>2. ViewsArePinned'
  BY Zenon DEF IInv, ViewsArePinned
<1>3. NoStaleFrames'
  BY Zenon DEF IInv, NoStaleFrames
<1>4. Closing'
  <2>1. Closing
    BY Zenon DEF IInv
  <2>2. \A h \in Guards : guard'[h].page # NoPage => guard'[h].page[1] # closing.fd
    BY <2>1 DEF Closing
  <2> QED BY <2>1, <2>2, Zenon DEF Closing, PagesOf
<1> QED BY <1>1, <1>2, <1>3, <1>4, Zenon DEF IInv

(* mark_dirty(): the guard itself now answers for the change.              *)
LEMMA ModifyInv ==
    ASSUME IInv, NEW g \in Guards, Modify(g)
    PROVE  IInv'
<1>a. TypeOK /\ PinsMatchGuards /\ ViewsArePinned /\ NoLostUpdate
  BY Zenon DEF IInv
<1>b. /\ guard' = [guard EXCEPT ![g].dirty = TRUE]
      /\ changed' = changed \cup {view[g]} /\ view[g] # NoPage
      /\ UNCHANGED <<view, pins, resident, dirty, origin, file, closing, todo>>
  BY Zenon DEF Modify, fileVars
<1>c. view[g] = guard[g].page /\ guard[g].page # NoPage
  BY <1>a, <1>b, Zenon DEF ViewsArePinned
<1>1. /\ \A h \in Guards : guard'[h].page = guard[h].page
      /\ \A h \in Guards : h # g => guard'[h] = guard[h]
      /\ guard'[g].dirty
  BY <1>a, <1>b, Zenon DEF TypeOK
<1>2. GuardTypes'
  <2>0. guard \in [Guards -> [page : Pages \cup {NoPage}, dirty : BOOLEAN]]
    BY <1>a, Zenon DEF TypeOK
  <2>1. guard' \in [Guards -> [page : Pages \cup {NoPage}, dirty : BOOLEAN]]
    BY <1>b, <2>0, Zenon
  <2>2. \A h \in Guards : guard'[h].page = NoPage => ~guard'[h].dirty
    BY <1>a, <1>1, <1>c, Zenon DEF TypeOK
  <2> QED BY <2>1, <2>2, Zenon DEF GuardTypes
<1>3. \A p : Holders(p)' = Holders(p)
  BY <1>1, Zenon DEF Holders
<1>4. PinsMatchGuards'
  BY <1>a, <1>b, <1>3, Zenon DEF PinsMatchGuards
<1>5. NoLostUpdate'
  <2> SUFFICES ASSUME NEW q \in changed'
               PROVE  q \in dirty' \/ \E h \in Holders(q)' : guard'[h].dirty
    BY Zenon DEF NoLostUpdate
  <2>1. CASE q = view[g]
    BY <1>1, <1>c, <2>1, Zenon DEF Holders
  <2>2. CASE q \in changed
    <3>1. q \in dirty \/ \E h \in Holders(q) : guard[h].dirty
      BY <1>a, <2>2, Zenon DEF NoLostUpdate
    <3>2. ASSUME NEW h \in Holders(q), guard[h].dirty
          PROVE  guard'[h].dirty
      BY <1>1, <3>2, Zenon DEF Holders
    <3> QED BY <1>b, <1>3, <3>1, <3>2, Zenon
  <2> QED BY <1>b, <2>1, <2>2, Zenon
<1>6. /\ pins' \in [Pages -> Nat] /\ view' \in [Guards -> Pages \cup {NoPage}]
      /\ dirty' \subseteq resident
  BY <1>a, <1>b, Zenon DEF TypeOK
<1>7. \A h \in Guards : view'[h] # NoPage => view'[h] = guard'[h].page
  BY <1>a, <1>b, <1>1, Zenon DEF ViewsArePinned
<1> QED BY <1>b, <1>1, <1>2, <1>4, <1>5, <1>6, <1>7, HeldPagesInv, Zenon

(* drop(): one pin is given back and the dirty mark goes to the pool.      *)
LEMMA DropInv ==
    ASSUME IInv, NEW g \in Guards, Drop(g)
    PROVE  IInv'
<1>a. TypeOK /\ PinsMatchGuards /\ ViewsArePinned /\ NoLostUpdate
  BY Zenon DEF IInv
<1>b. /\ DropPin(g)
      /\ guard' = [guard EXCEPT ![g] = Empty]
      /\ view' = [view EXCEPT ![g] = NoPage]
      /\ UNCHANGED <<resident, changed, origin, file, closing, todo>>
  BY Zenon DEF Drop, fileVars
<1>c. /\ pins' \in [Pages -> Nat]
      /\ \A p \in Pages : pins'[p] = Cardinality(Holders(p) \ {g})
      /\ dirty \subseteq dirty'
      /\ dirty' \subseteq dirty \cup {guard[g].page}
      /\ guard[g].dirty => guard[g].page \in dirty'
      /\ guard[g].page = NoPage => dirty' = dirty
  BY <1>a, <1>b, DropPinEffect, Zenon
<1>1. /\ \A h \in Guards : h # g => guard'[h] = guard[h]
      /\ guard'[g] = [page |-> NoPage, dirty |-> FALSE]
  BY <1>a, <1>b, Zenon DEF TypeOK, Empty
<1>2. GuardTypes'
  BY <1>a, <1>b, Zenon DEF GuardTypes, TypeOK, Empty
<1>3. \A p \in Pages : Holders(p)' = Holders(p) \ {g}
  BY <1>1, NothingAssumption DEF Holders
<1>4. PinsMatchGuards'
  BY <1>c, <1>3, Zenon DEF PinsMatchGuards
<1>5. NoLostUpdate'
  <2> SUFFICES ASSUME NEW q \in changed
               PROVE  q \in dirty' \/ \E h \in Holders(q)' : guard'[h].dirty
    BY <1>b, Zenon DEF NoLostUpdate
  <2>1. CASE q \in dirty
    BY <1>c, <2>1, Zenon
  <2>2. CASE q \notin dirty
    <3>1. PICK h \in Holders(q) : guard[h].dirty
      BY <1>a, <2>2, Zenon DEF NoLostUpdate
    <3>2. CASE h = g
      BY <1>c, <3>1, <3>2, Zenon DEF Holders
    <3>3. CASE h # g
      BY <1>1, <3>1, <3>3, Zenon DEF Holders
    <3> QED BY <3>2, <3>3, Zenon
  <2> QED BY <2>1, <2>2, Zenon
<1>6. dirty' \subseteq resident
  BY <1>a, <1>c, Zenon DEF TypeOK, ViewsArePinned
<1>7. view' \in [Guards -> Pages \cup {NoPage}]
  BY <1>a, <1>b, Zenon DEF TypeOK
<1>8. \A h \in Guards : view'[h] # NoPage => view'[h] = guard'[h].page
  BY <1>a, <1>b, <1>1, Zenon DEF ViewsArePinned, TypeOK
<1>9. \A h \in Guards : guard'[h].page # NoPage =>
        \E k \in Guards : guard[k].page = guard'[h].page
  BY <1>1
<1> QED BY <1>b, <1>c, <1>2, <1>4, <1>5, <1>6, <1>7, <1>8, <1>9, HeldPagesInv, Zenon

(* A pin that changes hands: h takes over what k holds, k becomes empty,   *)
(* and the count of every page is the one without h's former page.         *)
LEMMA Handover ==
    ASSUME TypeOK, NEW h \in Guards, NEW k \in Guards, h # k,
           guard' = [guard EXCEPT ![h] = guard[k], ![k] = Empty]
    PROVE  /\ GuardTypes'
           /\ guard'[h] = guard[k] /\ guard'[k].page = NoPage
           /\ \A x \in Guards \ {h, k} : guard'[x] = guard[x]
           /\ \A p \in Pages :
                 Cardinality(Holders(p)') = Cardinality(Holders(p) \ {h})
<1>1. GuardTypes'
  BY Zenon DEF GuardTypes, TypeOK, Empty
<1>2. /\ guard'[h] = guard[k] /\ guard'[k].page = NoPage
      /\ \A x \in Guards \ {h, k} : guard'[x] = guard[x]
  BY Zenon DEF TypeOK, Empty
<1>3. ASSUME NEW p \in Pages
      PROVE  Cardinality(Holders(p)') = Cardinality(Holders(p) \ {h})
  <2> DEFINE R == Holders(p) \ {h}
  <2>0. R \in SUBSET Guards
    BY Zenon DEF Holders
  <2>1. CASE guard[k].page = p
    <3>1. k \in R /\ Holders(p)' = (R \ {k}) \cup {h} /\ h \in Guards \ (R \ {k})
      BY <1>2, <2>1, NothingAssumption, Zenon DEF Holders
    <3>2. Cardinality(R \ {k}) = Cardinality(R) - 1 /\ Cardinality(R) \in Nat
      BY <2>0, <3>1, CountGuards, Zenon
    <3>3. Cardinality((R \ {k}) \cup {h}) = Cardinality(R \ {k}) + 1
      BY <2>0, <3>1, CountGuards, Zenon
    <3> QED BY <3>1, <3>2, <3>3
  <2>2. CASE guard[k].page # p
    <3>1. Holders(p)' = R
      BY <1>2, <2>2, NothingAssumption, Zenon DEF Holders
    <3> QED BY <3>1, Zenon
  <2> QED BY <2>1, <2>2, Zenon
<1> QED BY <1>1, <1>2, <1>3, Zenon

(* Move assignment and construction: the target's own pin is dropped first.*)
LEMMA MoveInv ==
    ASSUME IInv, NEW g \in Guards, NEW h \in Guards, Move(g, h)
    PROVE  IInv'
<1>a. TypeOK /\ PinsMatchGuards /\ ViewsArePinned /\ NoLostUpdate
  BY Zenon DEF IInv
<1>b. /\ g # h /\ DropPin(g)
      /\ guard' = [guard EXCEPT ![g] = guard[h], ![h] = Empty]
      /\ view' = [view EXCEPT ![g] = view[h], ![h] = NoPage]
      /\ UNCHANGED <<resident, changed, origin, file, closing, todo>>
  BY Zenon DEF Move, fileVars
<1>c. /\ pins' \in [Pages -> Nat]
      /\ \A p \in Pages : pins'[p] = Cardinality(Holders(p) \ {g})
      /\ dirty \subseteq dirty'
      /\ dirty' \subseteq dirty \cup {guard[g].page}
      /\ guard[g].dirty => guard[g].page \in dirty'
      /\ guard[g].page = NoPage => dirty' = dirty
  BY <1>a, <1>b, DropPinEffect, Zenon
<1>1. /\ GuardTypes'
      /\ guard'[g] = guard[h] /\ guard'[h].page = NoPage
      /\ \A x \in Guards \ {g, h} : guard'[x] = guard[x]
      /\ \A p \in Pages : Cardinality(Holders(p)') = Cardinality(Holders(p) \ {g})
  BY <1>a, <1>b, Handover, Zenon
<1>2. PinsMatchGuards'
  BY <1>c, <1>1, Zenon DEF PinsMatchGuards
<1>3. NoLostUpdate'
  <2> SUFFICES ASSUME NEW q \in changed
               PROVE  q \in dirty' \/ \E x \in Holders(q)' : guard'[x].dirty
    BY <1>b, ZenonT(30) DEF NoLostUpdate
  <2>1. CASE q \in dirty
    BY <1>c, <2>1, Zenon
  <2>2. CASE q \notin dirty
    <3>1. PICK k \in Holders(q) : guard[k].dirty
      BY <1>a, <2>2, Zenon DEF NoLostUpdate
    <3>2. CASE k = g
      BY <1>c, <3>1, <3>2, Zenon DEF Holders
    <3>3. CASE k = h
      BY <1>1, <3>1, <3>3, Zenon DEF Holders
    <3>4. CASE k # g /\ k # h
      BY <1>1, <3>1, <3>4, Zenon DEF Holders
    <3> QED BY <3>2, <3>3, <3>4, Zenon
  <2> QED BY <2>1, <2>2, Zenon
<1>4. dirty' \subseteq resident
  BY <1>a, <1>c, Zenon DEF TypeOK, ViewsArePinned
<1>5. view' \in [Guards -> Pages \cup {NoPage}]
  BY <1>a, <1>b, Zenon DEF TypeOK
<1>6. \A x \in Guards : view'[x] # NoPage => view'[x] = guard'[x].page
  BY <1>a, <1>b, <1>1, Zenon DEF ViewsArePinned, TypeOK
<1>7. \A x \in Guards : guard'[x].page # NoPage =>
        \E k \in Guards : guard[k].page = guard'[x].page
  BY <1>1, Zenon
<1> QED BY <1>b, <1>c, <1>1, <1>2, <1>3, <1>4, <1>5, <1>6, <1>7, HeldPagesInv, Zenon

(* IndexNode::release(): the pin and its dirty flag move to a fresh guard. *)
LEMMA ReleaseInv ==
    ASSUME IInv, NEW g \in Guards, NEW h \in Guards, Release(g, h)
    PROVE  IInv'
<1>a. TypeOK /\ PinsMatchGuards /\ ViewsArePinned /\ NoLostUpdate
  BY Zenon DEF IInv
<1>b. /\ g # h /\ guard[h].page = NoPage
      /\ guard' = [guard EXCEPT ![h] = guard[g], ![g] = Empty]
      /\ view' = [view EXCEPT ![g] = NoPage]
      /\ UNCHANGED <<pins, dirty, resident, changed, origin, file, closing, todo>>
  BY Zenon DEF Release, fileVars, poolVars
<1>1. /\ GuardTypes'
      /\ guard'[h] = guard[g] /\ guard'[g].page = NoPage
      /\ \A x \in Guards \ {h, g} : guard'[x] = guard[x]
      /\ \A p \in Pages : Cardinality(Holders(p)') = Cardinality(Holders(p) \ {h})
  BY <1>a, <1>b, Handover, Zenon
<1>2. PinsMatchGuards'
  <2>1. \A p \in Pages : Holders(p) \ {h} = Holders(p)
    BY <1>b, NothingAssumption, Zenon DEF Holders
  <2> QED BY <1>a, <1>b, <1>1, <2>1, Zenon DEF PinsMatchGuards
<1>3. NoLostUpdate'
  <2> SUFFICES ASSUME NEW q \in changed, q \notin dirty
               PROVE  \E x \in Holders(q)' : guard'[x].dirty
    BY <1>b, ZenonT(30) DEF NoLostUpdate
  <2>1. PICK k \in Holders(q) : guard[k].dirty
    BY <1>a, Zenon DEF NoLostUpdate
  <2>2. k # h
    BY <1>a, <1>b, <2>1, Zenon DEF TypeOK, Holders
  <2>3. CASE k = g
    BY <1>1, <2>1, <2>3, Zenon DEF Holders
  <2>4. CASE k # g
    BY <1>1, <2>1, <2>2, <2>4, Zenon DEF Holders
  <2> QED BY <2>3, <2>4, Zenon
<1>4. view' \in [Guards -> Pages \cup {NoPage}] /\ pins' \in [Pages -> Nat] /\ dirty' \subseteq resident
  BY <1>a, <1>b, Zenon DEF TypeOK
<1>5. \A x \in Guards : view'[x] # NoPage => view'[x] = guard'[x].page
  BY <1>a, <1>b, <1>1 DEF ViewsArePinned, TypeOK
<1>6. \A x \in Guards : guard'[x].page # NoPage =>
        \E k \in Guards : guard[k].page = guard'[x].page
  BY <1>1, Zenon
<1> QED BY <1>b, <1>1, <1>2, <1>3, <1>4, <1>5, <1>6, HeldPagesInv, Zenon

(* Opening and closing files leaves the guards alone: the counts and views *)
(* stay as they are.                                                       *)
LEMMA FileStepInv ==
    ASSUME IInv, UNCHANGED <<guard, view, pins>>
    PROVE  /\ PinsMatchGuards'
           /\ \A p : Holders(p)' = Holders(p)
           /\ TypeOK' <=> /\ resident' \subseteq Pages /\ dirty' \subseteq resident'
                          /\ origin' \in [Pages -> Files \cup {NoFile}]
                          /\ file' \in [Fds -> Files \cup {NoFile}]
                          /\ closing' \in [fd : Fds \cup {NoFd}, step : Steps]
                          /\ todo' \subseteq Pages
<1>1. \A p : Holders(p)' = Holders(p)
  BY Zenon DEF Holders
<1>2. PinsMatchGuards'
  BY <1>1, Zenon DEF IInv, PinsMatchGuards
<1>3. GuardTypes' /\ view' \in [Guards -> Pages \cup {NoPage}] /\ pins' \in [Pages -> Nat]
  BY Zenon DEF IInv, TypeOK, GuardTypes
<1> QED BY <1>1, <1>2, <1>3, Zenon DEF TypeOK, GuardTypes

(* A descriptor number that is opened has no frame in the pool.            *)
LEMMA OpenFileInv ==
    ASSUME IInv, NEW d \in Fds, NEW f \in Files, OpenFile(d, f)
    PROVE  IInv'
<1>a. TypeOK /\ ViewsArePinned /\ NoLostUpdate /\ NoStaleFrames /\ Closing
  BY Zenon DEF IInv
<1>b. /\ file[d] = NoFile /\ file' = [file EXCEPT ![d] = f]
      /\ UNCHANGED <<guard, view, pins, resident, dirty, changed, origin, closing, todo>>
  BY Zenon DEF OpenFile, guardVars, poolVars
<1>c. \A p \in resident : p[1] \in Fds /\ p[1] # d
  BY <1>a, <1>b, Zenon DEF TypeOK, Closing, Pages
<1>1. TypeOK' /\ PinsMatchGuards'
  BY <1>a, <1>b, FileStepInv, Zenon DEF TypeOK
<1>2. ViewsArePinned' /\ NoLostUpdate'
  BY <1>a, <1>b, Zenon DEF ViewsArePinned, NoLostUpdate, Holders
<1>3. NoStaleFrames'
  BY <1>a, <1>b, <1>c, Zenon DEF NoStaleFrames, TypeOK
<1>4. Closing'
  <2>1. \A p \in resident : file'[p[1]] # NoFile
    BY <1>a, <1>b, <1>c, Zenon DEF Closing, TypeOK
  <2>2. closing.fd # NoFd => file'[closing.fd] # NoFile
    BY <1>a, <1>b, Zenon DEF Closing, TypeOK
  <2> QED BY <1>a, <1>b, <2>1, <2>2, Zenon DEF Closing, PagesOf
<1> QED BY <1>1, <1>2, <1>3, <1>4, Zenon DEF IInv

(* close_file starts only when no guard holds a page of the file.          *)
LEMMA BeginCloseInv ==
    ASSUME IInv, NEW d \in Fds, BeginClose(d)
    PROVE  IInv'
<1>a. TypeOK /\ ViewsArePinned /\ NoLostUpdate /\ NoStaleFrames /\ Closing
  BY Zenon DEF IInv
<1>b. /\ file[d] # NoFile /\ closing' = [fd |-> d, step |-> "flush"]
      /\ \A g \in Guards : guard[g].page \notin PagesOf(d)
      /\ UNCHANGED <<guard, view, pins, resident, dirty, changed, origin, file, todo>>
  BY Zenon DEF BeginClose, guardVars, poolVars
<1>1. TypeOK' /\ PinsMatchGuards'
  BY <1>a, <1>b, FileStepInv, Zenon DEF TypeOK, Steps
<1>2. ViewsArePinned' /\ NoLostUpdate' /\ NoStaleFrames'
  BY <1>a, <1>b, Zenon DEF ViewsArePinned, NoLostUpdate, NoStaleFrames, Holders
<1>3. Closing'
  <2>1. \A g \in Guards : guard[g].page # NoPage => guard[g].page[1] # d
    BY <1>a, <1>b, Zenon DEF TypeOK, PagesOf
  <2>2. d # NoFd
    BY NothingAssumption, Zenon
  <2> QED BY <1>a, <1>b, <2>1, <2>2, Zenon DEF Closing
<1> QED BY <1>1, <1>2, <1>3, Zenon DEF IInv

(* flush_all_pages writes every frame of the file.                         *)
LEMMA FlushAllPagesInv ==
    ASSUME IInv, FlushAllPages
    PROVE  IInv'
<1>a. TypeOK /\ ViewsArePinned /\ NoLostUpdate /\ NoStaleFrames /\ Closing
  BY Zenon DEF IInv
<1>b. /\ closing.step = "flush"
      /\ closing' = [closing EXCEPT !.step = "snapshot"]
      /\ dirty' = dirty \ PagesOf(closing.fd)
      /\ changed' = changed \ (resident \cap PagesOf(closing.fd))
      /\ UNCHANGED <<guard, view, pins, resident, origin, file, todo>>
  BY Zenon DEF FlushAllPages, guardVars
<1>c. closing'.fd = closing.fd /\ closing'.step = "snapshot"
  BY <1>a, <1>b, Zenon DEF TypeOK
<1>1. TypeOK' /\ PinsMatchGuards'
  BY <1>a, <1>b, FileStepInv, Zenon DEF TypeOK, Steps
<1>2. ViewsArePinned' /\ NoStaleFrames'
  BY <1>a, <1>b, Zenon DEF ViewsArePinned, NoStaleFrames
<1>3. NoLostUpdate'
  <2> SUFFICES ASSUME NEW q \in changed, ~(q \in resident /\ q \in PagesOf(closing.fd))
               PROVE  q \in dirty' \/ \E h \in Holders(q)' : guard'[h].dirty
    BY <1>b, Zenon DEF NoLostUpdate
  <2>1. q \in dirty => q \in dirty'
    BY <1>a, <1>b, Zenon DEF TypeOK
  <2>2. q \in dirty \/ \E h \in Holders(q) : guard[h].dirty
    BY <1>a, Zenon DEF NoLostUpdate
  <2> QED BY <1>b, <2>1, <2>2, Zenon DEF Holders
<1>4. Closing'
  BY <1>a, <1>b, <1>c, Zenon DEF Closing
<1> QED BY <1>1, <1>2, <1>3, <1>4, Zenon DEF IInv

(* The collected list covers the resident pages of the file.               *)
LEMMA CollectPagesInv ==
    ASSUME IInv, CollectPages
    PROVE  IInv'
<1>a. TypeOK /\ ViewsArePinned /\ NoLostUpdate /\ NoStaleFrames /\ Closing
  BY Zenon DEF IInv
<1>b. /\ closing.step = "snapshot"
      /\ closing' = [closing EXCEPT !.step = "delete"]
      /\ todo' = resident \cap PagesOf(closing.fd)
      /\ UNCHANGED <<guard, view, pins, resident, dirty, changed, origin, file>>
  BY Zenon DEF CollectPages, guardVars, poolVars
<1>c. closing'.fd = closing.fd /\ closing'.step = "delete"
  BY <1>a, <1>b, Zenon DEF TypeOK
<1>1. TypeOK' /\ PinsMatchGuards'
  BY <1>a, <1>b, FileStepInv, Zenon DEF TypeOK, Steps
<1>2. ViewsArePinned' /\ NoLostUpdate' /\ NoStaleFrames'
  BY <1>a, <1>b, Zenon DEF ViewsArePinned, NoLostUpdate, NoStaleFrames, Holders
<1>3. Closing'
  BY <1>a, <1>b, <1>c, Zenon DEF Closing, PagesOf
<1> QED BY <1>1, <1>2, <1>3, Zenon DEF IInv

(* delete_page: no page of the file that is being closed is pinned, so     *)
(* every page taken off the list has left the pool.                        *)
LEMMA DeletePageInv ==
    ASSUME IInv, DeletePage
    PROVE  IInv'
<1>a. TypeOK /\ PinsMatchGuards /\ ViewsArePinned /\ NoLostUpdate /\ NoStaleFrames /\ Closing
  BY Zenon DEF IInv
<1>b. PICK p \in todo :
        /\ todo' = todo \ {p}
        /\ resident' = IF pins[p] = 0 THEN resident \ {p} ELSE resident
        /\ dirty' = IF pins[p] = 0 THEN dirty \ {p} ELSE dirty
        /\ changed' = IF pins[p] = 0 THEN changed \ {p} ELSE changed
  BY Zenon DEF DeletePage
<1>c. closing.step = "delete" /\ UNCHANGED <<guard, view, pins, origin, file, closing>>
  BY Zenon DEF DeletePage, guardVars
<1>d. p \in Pages
  BY <1>a, Zenon DEF TypeOK
<1>e. pins[p] = 0 <=> Holders(p) = {}
  BY <1>a, <1>d, CountGuards, ZenonT(30) DEF PinsMatchGuards, Holders
<1>1. TypeOK' /\ PinsMatchGuards'
  <2>1. resident' \subseteq Pages /\ dirty' \subseteq resident' /\ todo' \subseteq Pages
    BY <1>a, <1>b, Zenon DEF TypeOK
  <2> QED BY <1>a, <1>c, <2>1, FileStepInv, Zenon DEF TypeOK
<1>2. ViewsArePinned'
  BY <1>a, <1>b, <1>c, <1>e, Zenon DEF ViewsArePinned, Holders
<1>3. NoLostUpdate'
  <2>1. changed' \subseteq changed
    BY <1>b, Zenon
  <2>2. \A q \in changed' : q \in dirty => q \in dirty'
    BY <1>b, Zenon
  <2> QED BY <1>a, <1>c, <2>1, <2>2, Zenon DEF NoLostUpdate, Holders
<1>4. NoStaleFrames'
  BY <1>a, <1>b, <1>c, Zenon DEF NoStaleFrames
<1>5. Closing'
  <2>1. p \in PagesOf(closing.fd) => Holders(p) = {}
    BY <1>a, NothingAssumption, Zenon DEF Closing, PagesOf, Holders
  <2>2. resident' \cap PagesOf(closing.fd) \subseteq todo'
    BY <1>a, <1>b, <1>c, <1>e, <2>1, Zenon DEF Closing
  <2>3. \A q \in resident' : file[q[1]] # NoFile
    BY <1>a, <1>b, Zenon DEF Closing
  <2> QED BY <1>a, <1>c, <2>2, <2>3, Zenon DEF Closing, PagesOf
<1> QED BY <1>1, <1>2, <1>3, <1>4, <1>5, Zenon DEF IInv

(* close(fd): by then no frame of the file is left.                        *)
LEMMA CloseFdInv ==
    ASSUME IInv, CloseFd
    PROVE  IInv'
<1>a. TypeOK /\ ViewsArePinned /\ NoLostUpdate /\ NoStaleFrames /\ Closing
  BY Zenon DEF IInv
<1>b. /\ closing.step = "delete" /\ todo = {}
      /\ file' = [file EXCEPT ![closing.fd] = NoFile]
      /\ closing' = [fd |-> NoFd, step |-> "none"]
      /\ UNCHANGED <<guard, view, pins, resident, dirty, changed, origin, todo>>
  BY Zenon DEF CloseFd, guardVars, poolVars
<1>c. \A q \in resident : q[1] \in Fds /\ q[1] # closing.fd
  BY <1>a, <1>b, Zenon DEF Closing, TypeOK, PagesOf, Pages
<1>1. TypeOK' /\ PinsMatchGuards'
  BY <1>a, <1>b, FileStepInv, ZenonT(30) DEF TypeOK, Steps
<1>2. ViewsArePinned' /\ NoLostUpdate'
  BY <1>a, <1>b, Zenon DEF ViewsArePinned, NoLostUpdate, Holders
<1>3. NoStaleFrames'
  BY <1>a, <1>b, <1>c, Zenon DEF NoStaleFrames, TypeOK
<1>4. Closing'
  <2>1. \A q \in resident : file'[q[1]] # NoFile
    BY <1>a, <1>b, <1>c, Zenon DEF Closing, TypeOK
  <2>2. \A g \in Guards : guard[g].page # NoPage => guard[g].page[1] # NoFd
    BY <1>a, NothingAssumption DEF TypeOK, Pages
  <2> QED BY <1>b, <2>1, <2>2, Zenon DEF Closing
<1> QED BY <1>1, <1>2, <1>3, <1>4, Zenon DEF IInv

(* Every step of a guard, of the pool or of a closing file keeps IInv.     *)
LEMMA StepInv == IInv /\ [Next]_vars => IInv'
<1> SUFFICES ASSUME IInv, [Next]_vars PROVE IInv'
  BY Zenon
<1>1. CASE UNCHANGED vars
  <2> USE <1>1 DEF vars
  <2>0. TypeOK'
    BY Zenon DEF IInv, TypeOK
  <2>1. PinsMatchGuards'
    BY Zenon DEF IInv, PinsMatchGuards, Holders
  <2>2. ViewsArePinned' /\ NoLostUpdate' /\ NoStaleFrames'
    BY Zenon DEF IInv, ViewsArePinned, NoLostUpdate, NoStaleFrames, Holders
  <2>3. Closing'
    BY Zenon DEF IInv, Closing, PagesOf
  <2> QED BY <2>0, <2>1, <2>2, <2>3, Zenon DEF IInv
<1>2. CASE Next
  BY <1>2, AcquireInv, ModifyInv, DropInv, MoveInv, ReleaseInv, OpenFileInv, BeginCloseInv,
     FlushAllPagesInv, CollectPagesInv, DeletePageInv, CloseFdInv, Zenon DEF Next
<1> QED BY <1>1, <1>2, Zenon

(* IInv holds in every reachable state.                                    *)
THEOREM PageGuardInvariant == Spec => []IInv
BY InitInv, StepInv, PTL DEF Spec

(* Guards, pool, files and the close in progress keep their types.         *)
THEOREM PageGuardTypeCorrect == Spec => []TypeOK
<1>1. IInv => TypeOK
  BY Zenon DEF IInv
<1> QED BY <1>1, PageGuardInvariant, PTL

(* PageGuard gives back every pin exactly once, for any number of guards   *)
(* and any order of moves, releases and drops.                             *)
THEOREM PinsAlwaysMatchGuards == Spec => []PinsMatchGuards
<1>1. IInv => PinsMatchGuards
  BY Zenon DEF IInv
<1> QED BY <1>1, PageGuardInvariant, PTL

(* What a guard holds or an IndexNode looks at stays in its frame.         *)
THEOREM ViewsAlwaysPinned == Spec => []ViewsArePinned
<1>1. IInv => ViewsArePinned
  BY Zenon DEF IInv
<1> QED BY <1>1, PageGuardInvariant, PTL

(* A change marked through a guard reaches the disk or is still known.     *)
THEOREM UpdatesAreNeverLost == Spec => []NoLostUpdate
<1>1. IInv => NoLostUpdate
  BY Zenon DEF IInv
<1> QED BY <1>1, PageGuardInvariant, PTL

(* discard_file_pages makes the reuse of descriptor numbers safe, however  *)
(* its steps interleave with the other threads' use of the pool.           *)
THEOREM FramesNeverStale == Spec => []NoStaleFrames
<1>1. IInv => NoStaleFrames
  BY Zenon DEF IInv
<1> QED BY <1>1, PageGuardInvariant, PTL
=============================================================================
