---------------------------- MODULE RecordLayout ---------------------------
(***************************************************************************)
(* The layout of a table file's pages, as RmManager::create_file computes  *)
(* it and RmPageHandle reads it (record/rm_manager.h, rm_file_handle.h):   *)
(* the page's own header, RmPageHdr, the bitmap, the slots.                *)
(***************************************************************************)
EXTENDS Integers

CONSTANTS
    RmPageSize,        \* PAGE_SIZE
    PagePrefix,        \* Page::OFFSET_PAGE_HDR
    RmPageHdrSize,     \* sizeof(RmPageHdr)
    BitmapWidth,       \* BITMAP_WIDTH
    MaxRecordSize      \* RM_MAX_RECORD_SIZE

ASSUME RecordConstants ==
    /\ {RmPageSize, PagePrefix, RmPageHdrSize, BitmapWidth, MaxRecordSize} \subseteq Nat \ {0}
    /\ PagePrefix + RmPageHdrSize + 1 + MaxRecordSize <= RmPageSize

FirstRecordPage == 1
NoPage == -1

BitmapSize(records) == (records + BitmapWidth - 1) \div BitmapWidth
RequiredBytes(records, size) ==
    PagePrefix + RmPageHdrSize + BitmapSize(records) + records * size

(* The first estimate leaves out the bitmap; it goes down until the whole  *)
(* layout fits.                                                            *)
RecordsPerPage(size) ==
    LET estimate == (RmPageSize - PagePrefix - RmPageHdrSize) \div size
    IN  CHOOSE n \in 0..estimate :
            /\ RequiredBytes(n, size) <= RmPageSize
            /\ \A more \in (n + 1)..estimate : RequiredBytes(more, size) > RmPageSize

NewFileHdr(size) ==
    [size |-> size, pages |-> FirstRecordPage, slots |-> RecordsPerPage(size),
     free |-> NoPage, bitmap |-> BitmapSize(RecordsPerPage(size))]

(* RmPageHandle: where the bitmap and a slot begin.                        *)
BitmapStart == PagePrefix + RmPageHdrSize
SlotStart(hdr, slot) == BitmapStart + hdr.bitmap + slot * hdr.size

(* A page has at least one slot, every slot has its bit, and bitmap and    *)
(* slots end within the page, which has no room for a slot more.           *)
RecordsFillPages(hdr) ==
    /\ hdr.slots >= 1 /\ hdr.slots <= hdr.bitmap * BitmapWidth
    /\ SlotStart(hdr, hdr.slots) <= RmPageSize
    /\ RequiredBytes(hdr.slots + 1, hdr.size) > RmPageSize
=============================================================================
