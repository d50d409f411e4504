----------------------------- MODULE RecordFile ----------------------------
(***************************************************************************)
(* The file of one table: RmManager, the constructor of RmFileHandle,      *)
(* RmPageHandle and Bitmap (src/src/record), over clean restarts.          *)
(*                                                                         *)
(* What insert_record, delete_record and RmScan do with a page is taken    *)
(* from the comments in their (empty) bodies and from record/README.md;    *)
(* the bitmap operations they are told to use are the code's.              *)
(***************************************************************************)
EXTENDS RecordLayout, Sequences, FiniteSets

CONSTANTS
    Sizes,        \* record sizes of the tables
    WorkedSize,   \* the one whose table also gets records
    LastPage,     \* bound on page numbers
    MaxDeletes    \* bound on deletes

VARIABLES
    hdr,       \* page 0: RmFileHdr
    fileHdr,   \* file_hdr_ of the open handle
    nextPage,  \* fd2pageno_ of its descriptor
    pages,     \* the data pages: [bitmap, num, next]
    records,   \* history: the Rids of the records that are in the table
    deletes

tableVars == <<hdr, fileHdr, nextPage, pages, records, deletes>>

NoHdr == [size |-> 0, pages |-> 0, slots |-> 0, free |-> NoPage, bitmap |-> 0]
Rid(p, s) == [page |-> p, slot |-> s]

TableInit ==
    /\ hdr = NoHdr /\ fileHdr = NoHdr /\ nextPage = 0 /\ pages = <<>>
    /\ records = {} /\ deletes = 0

-----------------------------------------------------------------------------
(* Bitmap, as bytes.  Bucket counts from 1.                                *)
Bucket(pos) == pos \div BitmapWidth + 1
Bit(pos) == 2^(BitmapWidth - 1 - (pos % BitmapWidth))

IsSet(bm, pos) == (bm[Bucket(pos)] \div Bit(pos)) % 2 = 1

SetBit(bm, pos) == IF IsSet(bm, pos) THEN bm ELSE [bm EXCEPT ![Bucket(pos)] = @ + Bit(pos)]

(* Mutant: reset clears the whole byte.                                    *)
ResetByte(bm, pos) == [bm EXCEPT ![Bucket(pos)] = 0]

Reset(bm, pos) == IF IsSet(bm, pos) THEN [bm EXCEPT ![Bucket(pos)] = @ - Bit(pos)] ELSE bm

NextBit(bit, bm, max, curr) ==
    LET hits == {i \in (curr + 1)..(max - 1) : IsSet(bm, i) = bit}
    IN  IF hits = {} THEN max ELSE CHOOSE i \in hits : \A k \in hits : i <= k
FirstBit(bit, bm, max) == NextBit(bit, bm, max, -1)

-----------------------------------------------------------------------------
(* create_file                                                             *)
CreateTableFile(size) ==
    /\ hdr = NoHdr /\ size \in 1..MaxRecordSize
    /\ hdr' = NewFileHdr(size)
    /\ UNCHANGED <<fileHdr, nextPage, pages, records, deletes>>

(* open_file with the constructor, and close_file.                         *)
OpenTableFile ==
    /\ hdr # NoHdr /\ fileHdr = NoHdr
    /\ fileHdr' = hdr /\ nextPage' = hdr.pages
    /\ UNCHANGED <<hdr, pages, records, deletes>>

CloseTableFile ==
    /\ fileHdr # NoHdr
    /\ hdr' = fileHdr /\ fileHdr' = NoHdr
    /\ UNCHANGED <<nextPage, pages, records, deletes>>

(* destroy_file, of a closed file.                                         *)
DestroyTableFile ==
    /\ hdr # NoHdr /\ fileHdr = NoHdr
    /\ hdr' = NoHdr /\ pages' = <<>> /\ records' = {}
    /\ UNCHANGED <<fileHdr, nextPage, deletes>>

-----------------------------------------------------------------------------
(* create_new_page_handle: a page with nothing in it, first in the list of *)
(* pages with free slots.                                                  *)
NewPage == [bitmap |-> [b \in 1..fileHdr.bitmap |-> 0], num |-> 0, next |-> fileHdr.free]

(* A record is put into page p at the first free slot; a full page leaves  *)
(* the list.                                                               *)
PutRecord(p, page, h) ==
    LET slot == FirstBit(FALSE, page.bitmap, h.slots)
        full == page.num + 1 = h.slots
    IN  /\ pages' = [q \in DOMAIN pages \cup {p} |->
                        IF q # p THEN pages[q]
                        ELSE [page EXCEPT !.bitmap = SetBit(@, slot), !.num = @ + 1]]
        /\ fileHdr' = [h EXCEPT !.free = IF full THEN page.next ELSE p]
        /\ records' = records \cup {Rid(p, slot)}

InsertRecord ==
    /\ fileHdr.size = WorkedSize
    /\ IF fileHdr.free = NoPage
       THEN /\ nextPage <= LastPage
            /\ PutRecord(nextPage, NewPage, [fileHdr EXCEPT !.pages = @ + 1])
            /\ nextPage' = nextPage + 1
       ELSE PutRecord(fileHdr.free, pages[fileHdr.free], fileHdr) /\ UNCHANGED nextPage
    /\ UNCHANGED <<hdr, deletes>>

(* delete_record, with release_page_handle for a page that was full.       *)
DeleteRecord(rid) ==
    LET page == pages[rid.page]
        full == page.num = fileHdr.slots
    IN  /\ fileHdr # NoHdr /\ deletes < MaxDeletes /\ deletes' = deletes + 1
        /\ IsSet(page.bitmap, rid.slot)
        /\ pages' = [pages EXCEPT ![rid.page] =
                [bitmap |-> Reset(page.bitmap, rid.slot), num |-> page.num - 1,
                 next |-> IF full THEN fileHdr.free ELSE page.next]]
        /\ fileHdr' = IF full THEN [fileHdr EXCEPT !.free = rid.page] ELSE fileHdr
        /\ records' = records \ {rid}
        /\ UNCHANGED <<hdr, nextPage>>

TableNext ==
    \/ \E s \in Sizes : CreateTableFile(s)
    \/ OpenTableFile \/ CloseTableFile \/ DestroyTableFile \/ InsertRecord
    \/ \E rid \in records : DeleteRecord(rid)

TableSpec == TableInit /\ [][TableNext]_tableVars

-----------------------------------------------------------------------------
(* RmScan: from slot to slot by next_bit, over the pages of the header.    *)
ScanPage(bm, slots) ==
    LET found[s \in -1..slots] ==
            LET n == NextBit(TRUE, bm, slots, s) IN IF n = slots THEN {} ELSE {n} \cup found[n]
    IN  found[-1]
Scan(h) ==
    UNION {{Rid(p, s) : s \in ScanPage(pages[p].bitmap, h.slots)} :
              p \in FirstRecordPage..(h.pages - 1)}

(* The pages of the list of pages with free slots, in its order.           *)
FreeList(h) ==
    LET from[n \in 0..LastPage] ==
            IF n = 0 THEN IF h.free = NoPage THEN <<>> ELSE <<h.free>>
            ELSE LET l == from[n - 1]
                 IN  IF l = <<>> \/ Len(l) < n \/ pages[l[n]].next = NoPage THEN l
                     ELSE Append(l, pages[l[n]].next)
    IN  from[LastPage]

(* The variables have their types, and whatever the size of the records a  *)
(* page has room for its bitmap and slots.                                 *)
TableTypeOK ==
    /\ \A h \in {hdr, fileHdr} \ {NoHdr} :
        h.size \in 1..MaxRecordSize /\ h.pages \in 1..(LastPage + 1) /\ RecordsFillPages(h)
    /\ DOMAIN pages \subseteq 1..LastPage
    /\ fileHdr # NoHdr => nextPage = fileHdr.pages

(* A scan finds the records of the table, no more and no fewer, after any  *)
(* inserts, deletes and restarts: bitmap, page numbers and header agree.   *)
(* num_records counts the bits that are set, and the list of pages with    *)
(* free slots has each page that is not full, once (record/README.md).     *)
(* The variables also keep their types (TableTypeOK).                      *)
ScanFindsRecords ==
    /\ TableTypeOK
    /\ fileHdr # NoHdr =>
        /\ Scan(fileHdr) = records
        /\ \A p \in DOMAIN pages : pages[p].num = Cardinality({r \in records : r.page = p})
        /\ LET l == FreeList(fileHdr)
           IN  /\ {l[i] : i \in DOMAIN l} = {p \in DOMAIN pages : pages[p].num < fileHdr.slots}
               /\ Len(l) = Cardinality({l[i] : i \in DOMAIN l})
=============================================================================
