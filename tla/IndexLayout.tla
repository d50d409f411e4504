---------------------------- MODULE IndexLayout ----------------------------
(***************************************************************************)
(* The layout of an index file: IndexFileHeader (index/index_types.cpp),   *)
(* and the order that IndexManager::create_index gives the tree.           *)
(*                                                                         *)
(* An index schema is [cols, key]: the number of its columns and the sum   *)
(* of their lengths.                                                       *)
(***************************************************************************)
EXTENDS Integers

CONSTANTS
    PageSize, PageHeader, RidSize, RidAlign,     \* PAGE_SIZE and sizeofs
    FixedHeader, ColumnHeader,   \* bytes of IndexFileHeader and per column
    MaxKeyLength     \* INDEX_MAX_KEY_LENGTH

ASSUME IndexConstants ==
    /\ {PageSize, PageHeader, RidSize, RidAlign, FixedHeader, ColumnHeader} \subseteq Nat \ {0}
    /\ PageHeader % RidAlign = 0

InitialPages == 3      \* INDEX_INITIAL_PAGE_COUNT: header, sentinel, root

(* Mutant: no room for the spare slot.                                     *)
KeysRegionNoSpare(order, key) ==
    ((order * key + RidAlign - 1) \div RidAlign) * RidAlign

(* calculate_keys_region_size and page_layout_fits                         *)
KeysRegion(order, key) ==
    (((order + 1) * key + RidAlign - 1) \div RidAlign) * RidAlign
LayoutFits(order, key) ==
    PageHeader + KeysRegion(order, key) + (order + 1) * RidSize <= PageSize

(* max_serialized_columns                                                  *)
MaxColumns == (PageSize - FixedHeader) \div ColumnHeader

(* The order of a tree: create_index starts from an estimate that ignores  *)
(* alignment and goes down to the first order that fits, or to 2.          *)
FirstOrder(key) == ((PageSize - PageHeader) \div (key + RidSize)) - 1

TreeOrder(key) ==
    IF FirstOrder(key) <= 2 THEN FirstOrder(key)
    ELSE CHOOSE o \in 2..FirstOrder(key) :
            /\ o = 2 \/ LayoutFits(o, key)
            /\ \A larger \in (o + 1)..FirstOrder(key) : ~LayoutFits(larger, key)

(* The checks of create_index that throw before the file is made.          *)
ValidSchema(s) ==
    /\ s.cols \in 1..MaxColumns /\ s.key <= MaxKeyLength
    /\ TreeOrder(s.key) > 2 /\ LayoutFits(TreeOrder(s.key), s.key)

NewHeader(s) ==
    [cols |-> s.cols, key |-> s.key, order |-> TreeOrder(s.key),
     region |-> KeysRegion(TreeOrder(s.key), s.key), pages |-> InitialPages]

(* The checks of deserialize.                                              *)
Deserializes(h) ==
    /\ h.cols \in 1..MaxColumns
    /\ h.key > 0 /\ h.key <= MaxKeyLength /\ h.order > 2
    /\ h.region = KeysRegion(h.order, h.key) /\ LayoutFits(h.order, h.key)

(* In a node the keys, the Rids and the one slot more that insert and      *)
(* delete use for a moment do not overlap and stay within the page, and    *)
(* no larger order would.                                                  *)
NodesFillPages(h) ==
    LET rids == PageHeader + h.region
    IN  /\ PageHeader + (h.order + 1) * h.key <= rids
        /\ rids % RidAlign = 0
        /\ rids + (h.order + 1) * RidSize <= PageSize
        /\ ~LayoutFits(h.order + 1, h.key)
=============================================================================
