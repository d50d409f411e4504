----------------------------- MODULE FileProofs -----------------------------
(***************************************************************************)
(* Proofs about the file of an index, for any page size, key length and    *)
(* number of pages, errors and crashes.                                    *)
(***************************************************************************)
EXTENDS IndexFile, FiniteSetTheorems, WellFoundedInduction, TLAPS

-----------------------------------------------------------------------------
(* Least and greatest elements, which stand in for induction.              *)

(* A set of naturals that is not empty has a least element.                *)
LEMMA LeastOf ==
    ASSUME NEW S \in SUBSET Nat, S # {}
    PROVE  \E m \in S : \A k \in S : m <= k
<1> DEFINE R == OpToRel(<, Nat)
<1>1. IsWellFoundedOn(R, Nat)
  BY NatLessThanWellFounded, Zenon
<1>2. ASSUME NEW y \in Nat, NEW x \in Nat, y < x
      PROVE  <<y, x>> \in R
  BY <1>2, Zenon DEF OpToRel
<1> HIDE DEF R
<1>3. PICK x \in S : \A y \in S : ~ (<<y, x>> \in R)
  BY <1>1, WFMin, Zenon
<1>4. ASSUME NEW y \in S
      PROVE  x <= y
  <2>1. y \in Nat /\ x \in Nat
    BY Zenon
  <2>2. ~(y < x)
    BY <1>2, <1>3, <2>1, Zenon
  <2> QED BY <2>1, <2>2
<1> QED BY <1>4, Zenon

(* A set of integers with an upper bound has a greatest element.           *)
LEMMA GreatestOf ==
    ASSUME NEW S \in SUBSET Int, S # {}, NEW b \in Int, \A k \in S : k <= b
    PROVE  \E m \in S : \A k \in S : k <= m
<1> DEFINE T == {n \in Nat : b - n \in S}
<1>1. T \in SUBSET Nat /\ T # {}
  <2>1. PICK k \in S : TRUE
    BY Zenon
  <2>2. b - k \in Nat /\ b - (b - k) = k
    OBVIOUS
  <2> QED BY <2>1, <2>2, Zenon
<1>2. PICK n \in T : \A k \in T : n <= k
  BY <1>1, LeastOf, Zenon
<1>3. ASSUME NEW k \in S
      PROVE  k <= b - n
  <2>1. b - k \in T
    OBVIOUS
  <2>2. n \in Nat /\ k \in Int
    BY Zenon
  <2> HIDE DEF T
  <2>3. n <= b - k
    BY <1>2, <2>1, Zenon
  <2> QED BY <2>2, <2>3
<1> QED BY <1>2, <1>3, Zenon

-----------------------------------------------------------------------------
(* The layout of a node.                                                   *)

(* What C++ division and remainder give here: operands are not negative.   *)
LEMMA DivMod ==
    ASSUME NEW a \in Int, NEW b \in Nat \ {0}
    PROVE  /\ a \div b \in Int /\ a % b \in 0..(b - 1)
           /\ a = b * (a \div b) + (a % b)
OBVIOUS

(* A multiple of the alignment added to an aligned offset is aligned.      *)
LEMMA AlignedSum ==
    ASSUME NEW A \in Nat \ {0}, NEW a \in Nat, a % A = 0, NEW q \in Int
    PROVE  (a + q * A) % A = 0
<1> DEFINE n == a + q * A
<1>1. n \in Int
  OBVIOUS
<1>2. n \div A \in Int /\ a \div A \in Int
  BY <1>1, DivMod
<1>3. n % A \in 0..(A - 1) /\ n = A * (n \div A) + (n % A)
  BY <1>1, DivMod, Zenon
<1>4. a = A * (a \div A)
  BY DivMod
<1> DEFINE k == (a \div A) + q - (n \div A)
<1>5. k \in Int
  BY <1>2
<1>6. n % A = A * k
  <2> HIDE DEF n
  <2>1. n = a + q * A
    BY Zenon DEF n
  <2>2. \A x, y \in Int : A * (x + q - y) = A * x + A * q - A * y
    OBVIOUS
  <2>3. A * k = A * (a \div A) + A * q - A * (n \div A)
    BY <1>2, <2>2, Zenon
  <2>4. A * q = q * A
    OBVIOUS
  <2> QED BY <1>1, <1>2, <1>3, <1>4, <2>1, <2>3, <2>4
<1> HIDE DEF k
<1>7. k = 0
  <2>1. CASE k >= 1
    <3>1. A * k >= A
      BY <1>5, <2>1
    <3> QED BY <1>3, <1>6, <3>1
  <2>2. CASE k <= -1
    <3>1. A * k <= -A
      BY <1>5, <2>2
    <3> QED BY <1>3, <1>6, <3>1
  <2> QED BY <1>5, <2>1, <2>2
<1> QED BY <1>6, <1>7

(* calculate_keys_region_size: the region holds the keys of the order and  *)
(* one more, and is a multiple of the alignment of a Rid.                  *)
LEMMA KeysRegionHolds ==
    ASSUME NEW o \in Nat, NEW key \in Nat \ {0}
    PROVE  /\ KeysRegion(o, key) \in Nat
           /\ KeysRegion(o, key) >= (o + 1) * key
           /\ (PageHeader + KeysRegion(o, key)) % RidAlign = 0
<1> DEFINE x == (o + 1) * key + RidAlign - 1
<1>1. RidAlign \in Nat \ {0} /\ PageHeader \in Nat /\ PageHeader % RidAlign = 0
  BY IndexConstants, Zenon
<1>2. (o + 1) * key \in Nat
  OBVIOUS
<1>3. x \in Nat
  BY <1>1, <1>2
<1>4. x \div RidAlign \in Int /\ x % RidAlign \in 0..(RidAlign - 1)
      /\ x = RidAlign * (x \div RidAlign) + (x % RidAlign)
  BY <1>1, <1>3, DivMod
<1>5. KeysRegion(o, key) = (x \div RidAlign) * RidAlign
  BY Zenon DEF KeysRegion
<1>6. (x \div RidAlign) * RidAlign = RidAlign * (x \div RidAlign)
  BY <1>1, <1>4
<1>7. KeysRegion(o, key) >= (o + 1) * key
  <2> HIDE DEF x
  <2>1. x = (o + 1) * key + RidAlign - 1
    BY Zenon DEF x
  <2> QED BY <1>1, <1>2, <1>3, <1>4, <1>5, <1>6, <2>1
<1>8. KeysRegion(o, key) \in Nat
  BY <1>1, <1>2, <1>4, <1>5, <1>7
<1>9. (PageHeader + KeysRegion(o, key)) % RidAlign = 0
  <2> HIDE DEF x
  <2> QED BY <1>1, <1>4, <1>5, AlignedSum
<1> QED BY <1>7, <1>8, <1>9, Zenon

(* The loop of create_index ends at the largest order whose layout fits:   *)
(* above its estimate none does, though the estimate ignores alignment.    *)
LEMMA TreeOrderIsLargest ==
    ASSUME NEW key \in Nat \ {0}, TreeOrder(key) > 2, LayoutFits(TreeOrder(key), key)
    PROVE  TreeOrder(key) \in Nat /\ ~LayoutFits(TreeOrder(key) + 1, key)
<1> DEFINE F == FirstOrder(key)
           d == key + RidSize
           a == PageSize - PageHeader
<1>1. d \in Nat \ {0} /\ a \in Int /\ RidSize \in Nat /\ PageSize \in Nat /\ PageHeader \in Nat
  BY IndexConstants
<1>2. F \in Int /\ a < d * (F + 2)
  <2>1. a \div d \in Int /\ a % d \in 0..(d - 1) /\ a = d * (a \div d) + (a % d)
    BY <1>1, DivMod, Zenon
  <2>2. F = (a \div d) - 1
    BY Zenon DEF FirstOrder
  <2> HIDE DEF F, d, a
  <2>3. d * (F + 2) = d * (a \div d) + d
    BY <1>1, <2>1, <2>2
  <2> QED BY <1>1, <2>1, <2>2, <2>3
<1>3. F > 2
  BY <1>2 DEF TreeOrder
<1> DEFINE T == {o \in 2..F : o = 2 \/ LayoutFits(o, key)}
           Good(o) == /\ o = 2 \/ LayoutFits(o, key)
                      /\ \A larger \in (o + 1)..F : ~LayoutFits(larger, key)
<1>4. \E o \in 2..F : Good(o)
  <2>1. T \in SUBSET Int /\ 2 \in T /\ \A k \in T : k <= F
    BY <1>2, <1>3
  <2>2. PICK o \in T : \A k \in T : k <= o
    BY <1>2, <2>1, GreatestOf, Zenon
  <2>3. ASSUME NEW larger \in (o + 1)..F
        PROVE  ~LayoutFits(larger, key)
    <3>1. o \in 2..F /\ larger \in 2..F /\ larger > o
      BY <1>2, <2>2
    <3> QED BY <2>2, <3>1
  <2> QED BY <2>2, <2>3, Zenon
<1>5. TreeOrder(key) = CHOOSE o \in 2..F : Good(o)
  <2>1. ~(F <= 2)
    BY <1>2, <1>3
  <2> QED BY <2>1, Zenon DEF TreeOrder
<1>6. TreeOrder(key) \in 2..F /\ Good(TreeOrder(key))
  BY <1>4, <1>5, Zenon
<1>7. TreeOrder(key) \in Nat
  BY <1>2, <1>6
<1>8. CASE TreeOrder(key) < F
  BY <1>2, <1>6, <1>7, <1>8
<1>9. CASE TreeOrder(key) = F
  <2>1. F + 1 \in Nat /\ F + 2 \in Nat
    BY <1>7, <1>9
  <2>2. KeysRegion(F + 1, key) \in Nat /\ KeysRegion(F + 1, key) >= (F + 2) * key
    <3>1. (F + 1) + 1 = F + 2
      BY <2>1, <1>2
    <3> QED BY <2>1, <3>1, KeysRegionHolds, Zenon
  <2>3. d * (F + 2) = (F + 2) * key + (F + 2) * RidSize
    <3> HIDE DEF F
    <3> QED BY <1>1, <1>2
  <2>4. LayoutFits(F + 1, key) <=> PageHeader + KeysRegion(F + 1, key) + (F + 2) * RidSize <= PageSize
    <3>1. (F + 1) + 1 = F + 2
      BY <1>2
    <3> QED BY <3>1, Zenon DEF LayoutFits
  <2>5. (F + 2) * key \in Nat /\ (F + 2) * RidSize \in Nat
    BY <2>1, <1>1
  <2> HIDE DEF F, d
  <2> QED BY <1>1, <1>2, <1>9, <2>2, <2>3, <2>4, <2>5
<1> QED BY <1>2, <1>6, <1>8, <1>9

(* The greatest of a bounded set of integers, as Max chooses it.           *)
LEMMA MaxOf ==
    ASSUME NEW S \in SUBSET Int, S # {}, NEW b \in Int, \A k \in S : k <= b
    PROVE  Max(S) \in S /\ \A k \in S : k <= Max(S)
<1>1. \E m \in S : \A k \in S : m >= k
  <2>1. PICK m \in S : \A k \in S : k <= m
    BY GreatestOf, Zenon
  <2>2. \A k \in S : m >= k
    BY <2>1, Zenon
  <2> QED BY <2>2, Zenon
<1>2. Max(S) \in S /\ \A k \in S : Max(S) >= k
  BY <1>1, Zenon DEF Max
<1> QED BY <1>2, Zenon

-----------------------------------------------------------------------------
(* IndexFile                                                               *)

Headers == [cols : Int, key : Int, order : Int, region : Int, pages : Int]
GoodHeader(h) == h \in Headers /\ Deserializes(h) /\ NodesFillPages(h)

(* The header that create_index writes passes the checks of deserialize,   *)
(* and its nodes fill their pages.                                         *)
LEMMA NewHeaderIsGood ==
    ASSUME NEW s \in Schemas, ValidSchema(s)
    PROVE  GoodHeader(NewHeader(s)) /\ NewHeader(s).pages = InitialPages
<1> DEFINE h == NewHeader(s)
           o == TreeOrder(s.key)
<1>1. s.cols \in Nat /\ s.key \in Nat \ {0}
  BY IndexFileConstants, Zenon
<1>2. o > 2 /\ LayoutFits(o, s.key) /\ s.cols \in 1..MaxColumns /\ s.key <= MaxKeyLength
  BY Zenon DEF ValidSchema
<1>3. o \in Nat /\ ~LayoutFits(o + 1, s.key)
  BY <1>1, <1>2, TreeOrderIsLargest, Zenon
<1>4. /\ KeysRegion(o, s.key) \in Nat
      /\ KeysRegion(o, s.key) >= (o + 1) * s.key
      /\ (PageHeader + KeysRegion(o, s.key)) % RidAlign = 0
  BY <1>1, <1>3, KeysRegionHolds, Zenon
<1>5. /\ h.cols = s.cols /\ h.key = s.key /\ h.order = o
      /\ h.region = KeysRegion(o, s.key) /\ h.pages = InitialPages
  BY Zenon DEF NewHeader
<1>6. h \in Headers
  BY <1>1, <1>3, <1>4 DEF NewHeader, Headers, InitialPages
<1> HIDE DEF h, o
<1>7. Deserializes(h)
  BY <1>1, <1>2, <1>5 DEF Deserializes
<1>8. NodesFillPages(h)
  <2>1. PageHeader \in Nat /\ RidSize \in Nat /\ (o + 1) * s.key \in Int
    BY <1>1, <1>3, IndexConstants
  <2>2. PageHeader + (h.order + 1) * h.key <= PageHeader + h.region
    BY <1>4, <1>5, <2>1
  <2>3. PageHeader + h.region + (h.order + 1) * RidSize <= PageSize
    BY <1>2, <1>5, Zenon DEF LayoutFits
  <2> QED BY <1>3, <1>4, <1>5, <2>2, <2>3, Zenon DEF NodesFillPages
<1> QED BY <1>5, <1>6, <1>7, <1>8, Zenon DEF GoodHeader, h

(* create_node and record_page_deletion change only the page count.        *)
LEMMA PageCountOnly ==
    ASSUME NEW h, GoodHeader(h), NEW n \in Int
    PROVE  GoodHeader([h EXCEPT !.pages = n]) /\ [h EXCEPT !.pages = n].pages = n
<1> DEFINE g == [h EXCEPT !.pages = n]
<1>1. h \in Headers
  BY Zenon DEF GoodHeader
<1>2. g \in Headers /\ g.pages = n /\ g.cols = h.cols /\ g.key = h.key
      /\ g.order = h.order /\ g.region = h.region
  BY <1>1, Zenon DEF Headers
<1> HIDE DEF g
<1>3. Deserializes(g) /\ NodesFillPages(g)
  BY <1>2, Zenon DEF GoodHeader, Deserializes, NodesFillPages
<1> QED BY <1>2, <1>3, Zenon DEF GoodHeader, g

(* The value that stands for no header is not taken for one.               *)
LEMMA NoHeaderIsBad == ~GoodHeader(NoHeader) /\ NoHeader.pages = 0
  <1>1. NoHeader.cols = 0 /\ NoHeader.pages = 0
    BY Zenon DEF NoHeader
  <1>2. MaxColumns \in Int
    BY IndexConstants DEF MaxColumns
  <1> QED BY <1>1, <1>2 DEF GoodHeader, Deserializes

(* The pages of the tree are in the file or in the buffer pool, which has  *)
(* pages of an open tree only, and those not in the file; allocation has   *)
(* passed all of them.                                                     *)
PagesInv ==
    /\ written \subseteq 1..(MaxPages - 1) /\ live \subseteq 1..(MaxPages - 1)
    /\ live \subseteq written \cup dirty /\ dirty \subseteq live /\ dirty \cap written = {}
    /\ alloc \in 0..MaxPages
    /\ pc = "root" => 1 \in written
    /\ pc \notin {"open", "discard"} => dirty = {}
    /\ pc \in {"open", "discard"} => alloc >= 1 /\ \A p \in live \cup written : p < alloc

Creating == {"file", "header", "sentinel", "root", "created"}

(* Every header there is passes deserialize, and there is one where it is  *)
(* read: in memory while the index is created or open, in the file from    *)
(* create_index on.                                                        *)
HeadersInv ==
    /\ pc \in Creating \cup {"closed", "orphaned", "opening", "open", "discard"}
    /\ exists \in BOOLEAN /\ ready \in BOOLEAN
    /\ header = NoHeader \/ GoodHeader(header)
    /\ mem = NoHeader \/ GoodHeader(mem)
    /\ pc \in Creating => exists /\ GoodHeader(mem) /\ mem.pages = InitialPages
    /\ pc \in {"sentinel", "root", "created"} => header = mem
    /\ pc \in {"opening", "open", "discard"} => ready
    /\ pc \in {"open", "discard"} => GoodHeader(mem) /\ mem.pages <= alloc
    /\ ready => exists /\ GoodHeader(header)
    /\ header.pages <= MaxPages /\ mem.pages <= MaxPages

(* page_count_ falls only where a page of the file leaves the tree.        *)
CountsInv ==
    /\ GoodHeader(header) => header.pages >= InitialPages - Cardinality(written \ live)
    /\ GoodHeader(mem) =>
          mem.pages >= InitialPages + Cardinality(dirty) - Cardinality(written \ live)

FdsInv == fds \in 0..1 /\ DescriptorsReturned

IndexInv == PagesInv /\ HeadersInv /\ CountsInv /\ FdsInv

(* Counting the pages: the sets are finite, and one page more or less      *)
(* changes their size by one.                                              *)
LEMMA CountPages ==
    ASSUME NEW S \in SUBSET (1..(MaxPages - 1))
    PROVE  /\ Cardinality(S) \in Nat /\ Cardinality(S) <= MaxPages - 1
           /\ Cardinality({}) = 0
           /\ \A p \in S : Cardinality(S \ {p}) = Cardinality(S) - 1
           /\ \A p : p \notin S => Cardinality(S \cup {p}) = Cardinality(S) + 1
<1>1. MaxPages - 1 \in Int /\ MaxPages - 1 >= 1
  BY IndexFileConstants DEF InitialPages
<1>2. IsFiniteSet(1..(MaxPages - 1)) /\ Cardinality(1..(MaxPages - 1)) = MaxPages - 1
  BY <1>1, FS_Interval
<1>3. IsFiniteSet(S) /\ Cardinality(S) <= MaxPages - 1
  BY <1>2, FS_Subset
<1>4. Cardinality(S) \in Nat /\ Cardinality({}) = 0
  BY <1>3, FS_CardinalityType, FS_EmptySet, Zenon
<1>5. \A p \in S : Cardinality(S \ {p}) = Cardinality(S) - 1
  BY <1>3, FS_RemoveElement, Zenon
<1>6. \A p : p \notin S => Cardinality(S \cup {p}) = Cardinality(S) + 1
  BY <1>3, FS_AddElement, Zenon
<1> QED BY <1>3, <1>4, <1>5, <1>6, Zenon

(* The steps of create_index, in order, and an error in one of them.       *)
LEMMA CreateKeeps ==
    ASSUME PagesInv, HeadersInv, CountsInv, FdsInv,
           \/ \E s \in Schemas : CreateIndexFile(s)
           \/ OpenCreated \/ WriteHeader \/ WriteSentinel \/ WriteRoot \/ CloseCreated \/ CreateFails
    PROVE  IndexInv'
<1> USE DEF Goto, IOError, diskVars, openVars
<1>b. MaxPages \in Nat /\ MaxPages >= 3 /\ InitialPages = 3
  BY IndexFileConstants, Zenon DEF InitialPages
<1>c. ~GoodHeader(NoHeader) /\ NoHeader.pages = 0
  BY NoHeaderIsBad, Zenon
<1>1. ASSUME NEW s \in Schemas, CreateIndexFile(s)
      PROVE  IndexInv'
  <2>1. GoodHeader(mem') /\ mem'.pages = InitialPages
    BY <1>1, NewHeaderIsGood, Zenon DEF CreateIndexFile
  <2>2. PagesInv'
    BY <1>1, Zenon DEF PagesInv, CreateIndexFile
  <2>3. HeadersInv'
    BY <1>1, <1>b, <2>1, Zenon DEF HeadersInv, CreateIndexFile, Creating
  <2>4. CountsInv'
    <3>1. Cardinality(written \ live) \in Nat /\ Cardinality({}) = 0
      BY CountPages, Zenon DEF PagesInv
    <3>2. dirty' = {} /\ UNCHANGED <<header, written, live>>
      BY <1>1, Zenon DEF PagesInv, CreateIndexFile
    <3> QED BY <1>b, <2>1, <3>1, <3>2 DEF CountsInv
  <2>5. FdsInv'
    BY <1>1, Zenon DEF FdsInv, DescriptorsReturned, CreateIndexFile
  <2> QED BY <2>2, <2>3, <2>4, <2>5, Zenon DEF IndexInv
<1>2. CASE OpenCreated
  BY <1>2 DEF OpenCreated, IndexInv, PagesInv, HeadersInv, CountsInv, FdsInv, DescriptorsReturned, Creating
<1>3. CASE WriteHeader
  <2>1. PagesInv' /\ FdsInv'
    BY <1>3, Zenon DEF WriteHeader, PagesInv, FdsInv, DescriptorsReturned
  <2>2. GoodHeader(mem) /\ mem.pages = InitialPages /\ header' = mem /\ pc = "header"
    BY <1>3, Zenon DEF WriteHeader, HeadersInv, Creating
  <2>3. HeadersInv'
    BY <1>3, <1>b, <2>2, Zenon DEF WriteHeader, HeadersInv, Creating
  <2>4. CountsInv'
    <3>1. Cardinality(written \ live) \in Nat
      BY CountPages, Zenon DEF PagesInv
    <3> QED BY <1>3, <1>b, <2>2, <3>1 DEF WriteHeader, CountsInv
  <2> QED BY <2>1, <2>3, <2>4, Zenon DEF IndexInv
<1>4. CASE WriteSentinel \/ WriteRoot
  <2>1. UNCHANGED <<exists, header, ready, mem, alloc, dirty, fds>>
    BY <1>4, Zenon DEF WriteSentinel, WriteRoot
  <2>2. {1, 2} \subseteq 1..(MaxPages - 1)
    BY <1>b
  <2>3. PagesInv'
    <3>1. CASE WriteSentinel
      BY <2>1, <2>2, <3>1, Zenon DEF WriteSentinel, PagesInv
    <3>2. CASE WriteRoot
      BY <2>1, <2>2, <3>2, Zenon DEF WriteRoot, PagesInv
    <3> QED BY <1>4, <3>1, <3>2, Zenon
  <2>4. HeadersInv' /\ FdsInv'
    BY <1>4, <2>1, Zenon DEF WriteSentinel, WriteRoot, HeadersInv, Creating, FdsInv, DescriptorsReturned
  <2>5. GoodHeader(mem) /\ mem.pages = InitialPages /\ header = mem /\ dirty = {}
    BY <1>4, Zenon DEF WriteSentinel, WriteRoot, HeadersInv, Creating, PagesInv
  <2>6. Cardinality(written' \ live') \in Nat /\ Cardinality({}) = 0
    BY <2>3, CountPages, Zenon DEF PagesInv
  <2>7. CountsInv'
    BY <1>b, <2>1, <2>5, <2>6 DEF CountsInv
  <2> QED BY <2>3, <2>4, <2>7, Zenon DEF IndexInv
<1>5. CASE CloseCreated
  BY <1>5, <1>b, <1>c DEF CloseCreated, IndexInv, PagesInv, HeadersInv, CountsInv, FdsInv,
        DescriptorsReturned, Creating
<1>6. CASE CreateFails
  BY <1>6, Zenon DEF CreateFails, IndexInv, PagesInv, HeadersInv, CountsInv, FdsInv, DescriptorsReturned, Creating
<1> QED BY <1>1, <1>2, <1>3, <1>4, <1>5, <1>6, Zenon

(* destroy_index, open_index, and an error in the constructor.             *)
LEMMA OpenKeeps ==
    ASSUME PagesInv, HeadersInv, CountsInv, FdsInv,
           DestroyIndex \/ OpenIndexFile \/ ReadIndex \/ OpenFails
    PROVE  IndexInv'
<1> USE DEF Goto, IOError, diskVars, openVars
<1>b. MaxPages \in Nat /\ MaxPages >= 3 /\ InitialPages = 3
  BY IndexFileConstants, Zenon DEF InitialPages
<1>c. ~GoodHeader(NoHeader) /\ NoHeader.pages = 0
  BY NoHeaderIsBad, Zenon
<1>1. CASE DestroyIndex
  <2>1. PagesInv'
    BY <1>1, Zenon DEF DestroyIndex, PagesInv
  <2>2. HeadersInv'
    <3>1. /\ pc' = "closed" /\ exists' = FALSE /\ ready' = FALSE
          /\ header' = NoHeader /\ mem' = NoHeader
      BY <1>1, Zenon DEF DestroyIndex
    <3>2. header'.pages <= MaxPages /\ mem'.pages <= MaxPages
      BY <1>b, <1>c, <3>1
    <3> QED BY <3>1, <3>2, Zenon DEF HeadersInv, Creating
  <2>4. CountsInv'
    BY <1>1, <1>c, Zenon DEF DestroyIndex, CountsInv
  <2>3. FdsInv'
    BY <1>1, Zenon DEF DestroyIndex, FdsInv, DescriptorsReturned
  <2> QED BY <2>1, <2>2, <2>3, <2>4, Zenon DEF IndexInv
<1>2. CASE OpenIndexFile
  BY <1>2 DEF OpenIndexFile, IndexInv, PagesInv, HeadersInv, CountsInv, FdsInv, DescriptorsReturned, Creating
<1>3. CASE ReadIndex
  <2>1. GoodHeader(header) /\ ready /\ exists /\ dirty = {} /\ pc = "opening" /\ pc' = "open"
    BY <1>3, Zenon DEF ReadIndex, HeadersInv, PagesInv
  <2>2. header # NoHeader /\ header.pages \in Int /\ header.pages <= MaxPages
    BY <1>c, <2>1, Zenon DEF GoodHeader, Headers, HeadersInv
  <2> DEFINE P == {p + 1 : p \in written} \cup {1}
  <2>3. PhysicalPages = Max(P)
    BY <2>2, Zenon DEF PhysicalPages
  <2>4. written \subseteq Int /\ \A p \in written : p >= 1 /\ p <= MaxPages - 1
    BY <1>b DEF PagesInv
  <2>5. P \in SUBSET Int /\ 1 \in P /\ \A k \in P : k <= MaxPages
    BY <1>b, <2>4
  <2>p. \A p \in written : p + 1 \in P
    BY Zenon
  <2> HIDE DEF P
  <2>6. Max(P) \in P /\ \A k \in P : k <= Max(P)
    BY <1>b, <2>5, MaxOf
  <2>7. Max(P) \in Int /\ Max(P) <= MaxPages
    BY <2>5, <2>6, Zenon
  <2> DEFINE Q == {header.pages, Max(P)}
  <2>8. Max(Q) \in Q /\ \A k \in Q : k <= Max(Q)
    <3>1. Q \in SUBSET Int /\ Q # {} /\ \A k \in Q : k <= MaxPages
      BY <1>b, <2>2, <2>7, Zenon
    <3>2. MaxPages \in Int
      BY <1>b
    <3> HIDE DEF Q
    <3> QED BY <3>1, <3>2, MaxOf, Zenon
  <2>9. /\ alloc' \in {header.pages, Max(P)}
        /\ header.pages <= alloc' /\ Max(P) <= alloc'
    BY <1>3, <2>3, <2>8, Zenon DEF ReadIndex
  <2>u. mem' = header /\ UNCHANGED <<exists, header, written, ready, live, dirty, fds>>
    BY <1>3, Zenon DEF ReadIndex
  <2>10. alloc' \in Int /\ alloc' <= MaxPages /\ alloc' >= 1
    BY <1>b, <2>2, <2>5, <2>6, <2>7, <2>9
  <2>11. \A p \in written : p < alloc'
    BY <2>4, <2>6, <2>7, <2>9, <2>10, <2>p
  <2>12. PagesInv'
    BY <1>b, <2>1, <2>10, <2>11, <2>u DEF PagesInv
  <2>13. HeadersInv'
    BY <2>1, <2>2, <2>9, <2>u, Zenon DEF HeadersInv, Creating
  <2>14. CountsInv'
    <3>1. Cardinality(written \ live) \in Nat /\ Cardinality({}) = 0
      BY CountPages, Zenon DEF PagesInv
    <3> QED BY <1>b, <2>1, <2>2, <2>u, <3>1 DEF CountsInv
  <2>15. FdsInv'
    BY <2>1, <2>u, Zenon DEF FdsInv, DescriptorsReturned
  <2> QED BY <2>12, <2>13, <2>14, <2>15, Zenon DEF IndexInv
<1>4. CASE OpenFails
  BY <1>4 DEF OpenFails, IndexInv, PagesInv, HeadersInv, CountsInv, FdsInv, DescriptorsReturned, Creating
<1> QED BY <1>1, <1>2, <1>3, <1>4, Zenon

(* The steps of an open tree: create_node, record_page_deletion and the    *)
(* buffer pool.                                                            *)
LEMMA TreeKeeps ==
    ASSUME PagesInv, HeadersInv, CountsInv, FdsInv,
           CreateNode \/ (\E p \in live : DeleteNode(p)) \/ (\E p \in dirty : Evict(p))
    PROVE  IndexInv'
<1> USE DEF Goto, diskVars
<1>b. MaxPages \in Nat /\ MaxPages >= 3 /\ InitialPages = 3
  BY IndexFileConstants, Zenon DEF InitialPages
<1>c. pc = "open" /\ pc' = "open" /\ fds' = fds /\ header' = header
  BY Zenon DEF CreateNode, DeleteNode, Evict
<1>d. FdsInv'
  BY <1>c, Zenon DEF FdsInv, DescriptorsReturned
<1>e. /\ GoodHeader(mem) /\ mem.pages \in Int /\ mem.pages <= alloc
      /\ GoodHeader(header) /\ header.pages \in Int
  BY <1>c, Zenon DEF HeadersInv, GoodHeader, Headers
<1>f. /\ Cardinality(written \ live) \in Nat /\ Cardinality(dirty) \in Nat
      /\ \A p \in dirty : Cardinality(dirty \ {p}) = Cardinality(dirty) - 1
      /\ \A p : p \notin dirty => Cardinality(dirty \cup {p}) = Cardinality(dirty) + 1
      /\ \A p : p \notin written \ live =>
             Cardinality((written \ live) \cup {p}) = Cardinality(written \ live) + 1
  BY CountPages, Zenon DEF PagesInv
<1>g. /\ header.pages >= InitialPages - Cardinality(written \ live)
      /\ mem.pages >= InitialPages + Cardinality(dirty) - Cardinality(written \ live)
  BY <1>e, Zenon DEF CountsInv
<1>1. CASE CreateNode
  <2>1. /\ alloc' = alloc + 1 /\ mem' = [mem EXCEPT !.pages = mem.pages + 1]
        /\ live' = live \cup {alloc} /\ dirty' = dirty \cup {alloc} /\ written' = written
        /\ alloc < MaxPages
    BY <1>1, Zenon DEF CreateNode
  <2>2. alloc \in 1..(MaxPages - 1) /\ alloc \notin live /\ alloc \notin written /\ alloc \notin dirty
    BY <1>b, <1>c, <2>1 DEF PagesInv
  <2>3. PagesInv'
    BY <1>b, <1>c, <2>1, <2>2 DEF PagesInv
  <2>4. GoodHeader(mem') /\ mem'.pages = mem.pages + 1
    BY <1>e, <2>1, PageCountOnly
  <2>5. HeadersInv'
    <3>1. mem'.pages <= alloc' /\ mem'.pages <= MaxPages
      BY <1>b, <1>e, <2>1, <2>2, <2>4
    <3>2. UNCHANGED <<exists, ready>>
      BY <1>1, Zenon DEF CreateNode
    <3> QED BY <1>c, <2>4, <3>1, <3>2, Zenon DEF HeadersInv, Creating
  <2>6. Cardinality(written' \ live') = Cardinality(written \ live)
    <3>1. written' \ live' = written \ live
      BY <2>1, <2>2, Zenon
    <3> QED BY <3>1, Zenon
  <2>7. Cardinality(dirty') = Cardinality(dirty) + 1
    BY <1>f, <2>1, <2>2, Zenon
  <2>8. CountsInv'
    BY <1>b, <1>c, <1>e, <1>f, <1>g, <2>4, <2>6, <2>7 DEF CountsInv
  <2> QED BY <1>d, <2>3, <2>5, <2>8, Zenon DEF IndexInv
<1>2. ASSUME NEW p \in live, DeleteNode(p)
      PROVE  IndexInv'
  <2>1. /\ mem' = [mem EXCEPT !.pages = mem.pages - 1]
        /\ live' = live \ {p} /\ dirty' = dirty \ {p} /\ UNCHANGED <<written, alloc>>
    BY <1>2, Zenon DEF DeleteNode
  <2>2. PagesInv'
    BY <1>c, <2>1, Zenon DEF PagesInv
  <2>3. GoodHeader(mem') /\ mem'.pages = mem.pages - 1
    BY <1>e, <2>1, PageCountOnly
  <2>4. HeadersInv'
    <3>1. mem'.pages <= alloc' /\ mem'.pages <= MaxPages
      BY <1>b, <1>e, <2>1, <2>3 DEF PagesInv
    <3>2. UNCHANGED <<exists, ready>>
      BY <1>2, Zenon DEF DeleteNode
    <3> QED BY <1>c, <2>3, <3>1, <3>2, Zenon DEF HeadersInv, Creating
  <2>5. CountsInv'
    <3>1. CASE p \in dirty
      <4>1. Cardinality(written' \ live') = Cardinality(written \ live)
        <5>1. written' \ live' = written \ live
          BY <2>1, <3>1, Zenon DEF PagesInv
        <5> QED BY <5>1, Zenon
      <4>2. Cardinality(dirty') = Cardinality(dirty) - 1
        BY <1>f, <2>1, <3>1, Zenon
      <4> QED BY <1>b, <1>c, <1>e, <1>f, <1>g, <2>3, <4>1, <4>2 DEF CountsInv
    <3>2. CASE p \notin dirty
      <4>1. written' \ live' = (written \ live) \cup {p} /\ dirty' = dirty /\ p \notin written \ live
        BY <2>1, <3>2, Zenon DEF PagesInv
      <4>2. Cardinality(written' \ live') = Cardinality(written \ live) + 1
        BY <1>f, <4>1, Zenon
      <4> QED BY <1>b, <1>c, <1>e, <1>f, <1>g, <2>3, <4>1, <4>2 DEF CountsInv
    <3> QED BY <3>1, <3>2, Zenon
  <2> QED BY <1>d, <2>2, <2>4, <2>5, Zenon DEF IndexInv
<1>3. ASSUME NEW p \in dirty, Evict(p)
      PROVE  IndexInv'
  <2>1. dirty' = dirty \ {p} /\ written' = written \cup {p} /\ UNCHANGED <<mem, alloc, live>>
    BY <1>3, Zenon DEF Evict
  <2>2. PagesInv'
    BY <1>c, <2>1, Zenon DEF PagesInv
  <2>3. HeadersInv'
    BY <1>3, <1>c, Zenon DEF HeadersInv, Evict, Creating
  <2>4. Cardinality(written' \ live') = Cardinality(written \ live)
    <3>1. written' \ live' = written \ live
      BY <2>1, Zenon DEF PagesInv
    <3> QED BY <3>1, Zenon
  <2>5. Cardinality(dirty') = Cardinality(dirty) - 1
    BY <1>f, <2>1, Zenon
  <2>6. CountsInv'
    BY <1>b, <1>c, <1>e, <1>f, <1>g, <2>1, <2>4, <2>5 DEF CountsInv
  <2> QED BY <1>d, <2>2, <2>3, <2>6, Zenon DEF IndexInv
<1> QED BY <1>1, <1>2, <1>3, Zenon

(* close_index, an error in it, and a crash at any point.                  *)
LEMMA CloseKeeps ==
    ASSUME PagesInv, HeadersInv, CountsInv, FdsInv,
           CloseHeader \/ CloseDiscard \/ CloseFails \/ Crash
    PROVE  IndexInv'
<1> USE DEF Goto, IOError, diskVars, openVars
<1>b. MaxPages \in Nat /\ MaxPages >= 3 /\ InitialPages = 3
  BY IndexFileConstants, Zenon DEF InitialPages
<1>c. ~GoodHeader(NoHeader) /\ NoHeader.pages = 0
  BY NoHeaderIsBad, Zenon
<1>d. Cardinality(written \ live) \in Nat /\ Cardinality(dirty) \in Nat /\ Cardinality({}) = 0
  BY CountPages, Zenon DEF PagesInv
<1>1. CASE CloseHeader
  <2>1. /\ pc = "open" /\ pc' = "discard" /\ header' = mem
        /\ UNCHANGED <<exists, written, ready, mem, alloc, live, dirty, fds>>
    BY <1>1, Zenon DEF CloseHeader
  <2>2. GoodHeader(mem) /\ mem.pages \in Int /\ mem.pages <= alloc /\ alloc \in Int /\ alloc <= MaxPages
    BY <1>b, <2>1 DEF HeadersInv, GoodHeader, Headers, PagesInv
  <2>3. PagesInv' /\ FdsInv'
    BY <2>1, Zenon DEF PagesInv, FdsInv, DescriptorsReturned
  <2>4. HeadersInv'
    BY <1>b, <2>1, <2>2, Zenon DEF HeadersInv, Creating
  <2>5. CountsInv'
    BY <1>b, <1>d, <2>1, <2>2 DEF CountsInv
  <2> QED BY <2>3, <2>4, <2>5, Zenon DEF IndexInv
<1>2. CASE CloseDiscard
  <2>1. /\ pc = "discard" /\ pc' = "closed" /\ written' = written \cup dirty /\ dirty' = {}
        /\ mem' = NoHeader /\ fds' = fds - 1
        /\ UNCHANGED <<exists, header, ready, alloc, live>>
    BY <1>2, Zenon DEF CloseDiscard
  <2>2. PagesInv'
    BY <2>1, Zenon DEF PagesInv
  <2>3. HeadersInv' /\ FdsInv'
    BY <1>b, <1>c, <2>1 DEF HeadersInv, Creating, FdsInv, DescriptorsReturned
  <2>4. Cardinality(written' \ live') = Cardinality(written \ live)
    <3>1. written' \ live' = written \ live
      BY <2>1, Zenon DEF PagesInv
    <3> QED BY <3>1, Zenon
  <2>5. CountsInv'
    BY <1>c, <2>1, <2>4, Zenon DEF CountsInv
  <2> QED BY <2>2, <2>3, <2>5, Zenon DEF IndexInv
<1>3. CASE CloseFails
  BY <1>3, Zenon DEF CloseFails, IndexInv, PagesInv, HeadersInv, CountsInv, FdsInv, DescriptorsReturned, Creating
<1>4. CASE Crash
  <2>1. /\ pc' = "closed" /\ live' = live \ dirty /\ dirty' = {} /\ mem' = NoHeader
        /\ alloc' = 0 /\ fds' = 0
        /\ UNCHANGED <<exists, header, written, ready>>
    BY <1>4, Zenon DEF Crash
  <2>2. PagesInv'
    BY <1>b, <2>1 DEF PagesInv
  <2>3. HeadersInv' /\ FdsInv'
    BY <1>b, <1>c, <2>1 DEF HeadersInv, Creating, FdsInv, DescriptorsReturned
  <2>4. Cardinality(written' \ live') = Cardinality(written \ live)
    <3>1. written' \ live' = written \ live
      BY <2>1, Zenon DEF PagesInv
    <3> QED BY <3>1, Zenon
  <2>5. CountsInv'
    BY <1>c, <2>1, <2>4, Zenon DEF CountsInv
  <2> QED BY <2>2, <2>3, <2>5, Zenon DEF IndexInv
<1> QED BY <1>1, <1>2, <1>3, <1>4, Zenon

(* The invariant of an index file, over every create, open, close, I/O     *)
(* error and crash.                                                        *)
THEOREM IndexInvariant == IndexSpec => []IndexInv
<1>1. IndexInit => IndexInv
  <2> SUFFICES ASSUME IndexInit PROVE IndexInv
    BY Zenon
  <2>1. MaxPages \in Nat /\ MaxPages >= 3
    BY IndexFileConstants, Zenon DEF InitialPages
  <2>2. ~GoodHeader(NoHeader) /\ NoHeader.pages = 0
    BY NoHeaderIsBad, Zenon
  <2>3. PagesInv /\ FdsInv
    BY <2>1 DEF IndexInit, PagesInv, FdsInv, DescriptorsReturned
  <2>4. header.pages <= MaxPages /\ mem.pages <= MaxPages
    BY <2>1, <2>2 DEF IndexInit
  <2>5. HeadersInv
    BY <2>4, Zenon DEF IndexInit, HeadersInv, Creating
  <2>6. CountsInv
    BY <2>2, Zenon DEF IndexInit, CountsInv
  <2> QED BY <2>3, <2>5, <2>6, Zenon DEF IndexInv
<1>2. IndexInv /\ [IndexNext]_indexVars => IndexInv'
  <2> SUFFICES ASSUME IndexInv, [IndexNext]_indexVars PROVE IndexInv'
    BY Zenon
  <2>1. PagesInv /\ HeadersInv /\ CountsInv /\ FdsInv
    BY Zenon DEF IndexInv
  <2>2. CASE UNCHANGED indexVars
    BY <2>1, <2>2 DEF indexVars, IndexInv, PagesInv, HeadersInv, CountsInv, FdsInv, DescriptorsReturned
  <2>3. CASE IndexNext
    BY <2>1, <2>3, CreateKeeps, OpenKeeps, TreeKeeps, CloseKeeps, Zenon DEF IndexNext
  <2> QED BY <2>2, <2>3, Zenon
<1> QED BY <1>1, <1>2, PTL DEF IndexSpec

(* create_node never hands out a page of the tree or one present in the    *)
(* file, whatever was deleted, evicted or lost in crashes before.          *)
THEOREM AlwaysNewPagesFresh == IndexSpec => []NewPagesAreFresh
<1>1. IndexInv => NewPagesAreFresh
  <2> SUFFICES ASSUME IndexInv PROVE NewPagesAreFresh
    BY Zenon
  <2> USE DEF IndexInv
  <2>1. MaxPages \in Nat /\ MaxPages >= 3 /\ InitialPages = 3
    BY IndexFileConstants, Zenon DEF InitialPages
  <2>2. /\ Cardinality(written \ live) \in Nat /\ Cardinality(written \ live) <= MaxPages - 1
        /\ Cardinality(dirty) \in Nat
    BY CountPages, Zenon DEF PagesInv
  <2>3. header.pages \in -MaxPages..MaxPages
    <3>1. CASE header = NoHeader
      BY <2>1, <3>1, NoHeaderIsBad
    <3>2. CASE GoodHeader(header)
      <4>1. header.pages \in Int /\ header.pages <= MaxPages
        BY <3>2, Zenon DEF GoodHeader, Headers, HeadersInv
      <4> QED BY <2>1, <2>2, <3>2, <4>1 DEF CountsInv
    <3> QED BY <3>1, <3>2, Zenon DEF HeadersInv
  <2>4. mem.pages \in -MaxPages..MaxPages
    <3>1. CASE mem = NoHeader
      BY <2>1, <3>1, NoHeaderIsBad
    <3>2. CASE GoodHeader(mem)
      <4>1. mem.pages \in Int /\ mem.pages <= MaxPages
        BY <2>1, <3>2, Zenon DEF GoodHeader, Headers, HeadersInv, PagesInv
      <4> QED BY <2>1, <2>2, <3>2, <4>1 DEF CountsInv
    <3> QED BY <3>1, <3>2, Zenon DEF HeadersInv
  <2>5. IndexTypeOK
    <3>1. written \subseteq 1..MaxPages /\ live \subseteq 1..MaxPages
      BY <2>1 DEF PagesInv
    <3> QED BY <2>3, <2>4, <3>1, Zenon DEF IndexTypeOK, PagesInv, HeadersInv, Creating, FdsInv
  <2> QED BY <2>5, Zenon DEF NewPagesAreFresh, PagesInv
<1> QED BY <1>1, IndexInvariant, PTL

(* After a close every page of the tree is in the file, after a crash      *)
(* every page that had been written; and no path of IndexManager but a     *)
(* failed create_index keeps a descriptor.                                 *)
THEOREM AlwaysClosedTreeOnDisk == IndexSpec => []ClosedTreeOnDisk
<1>1. IndexInv => ClosedTreeOnDisk
  BY Zenon DEF IndexInv, PagesInv, FdsInv, ClosedTreeOnDisk
<1> QED BY <1>1, IndexInvariant, PTL

(* The limits that create_index checks imply those of deserialize, for     *)
(* every page size and every schema, and no larger order would fit.        *)
THEOREM AlwaysAcceptedSchemaWorks == IndexSpec => []AcceptedSchemaWorks
<1>1. IndexInv => AcceptedSchemaWorks
  BY Zenon DEF IndexInv, HeadersInv, GoodHeader, AcceptedSchemaWorks, CreatedIndexOpens
<1> QED BY <1>1, IndexInvariant, PTL
=============================================================================
