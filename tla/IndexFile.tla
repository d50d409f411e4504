----------------------------- MODULE IndexFile -----------------------------
(***************************************************************************)
(* The file of one B+-tree index: IndexManager, IndexFileHeader and the    *)
(* page bookkeeping of BPlusTree (src/src/index), with I/O errors and      *)
(* crashes between any two of its disk operations.                         *)
(*                                                                         *)
(* A page is its number.  Of the tree only the set of its pages is kept:   *)
(* split and coalesce, which are exercises, take them by create_node and   *)
(* return them by record_page_deletion.  The buffer pool may write a page  *)
(* at any time.  The catalog opens an index after create_index returned.   *)
(***************************************************************************)
EXTENDS IndexLayout, FiniteSets, FiniteSetsExt

CONSTANTS
    Schemas,     \* index columns: their number and the sum of their lengths
    Worked,      \* those whose index is also used, and meets errors and crashes
    MaxPages,        \* bound on page numbers
    MaxFaults,       \* bound on I/O errors
    MaxCrashes       \* bound on restarts of the process

(* create_index refuses a column of length 0 (index_manager.cpp:60).       *)
ASSUME IndexFileConstants ==
    /\ Schemas \subseteq [cols : Nat, key : Nat \ {0}]
    /\ MaxPages \in Nat /\ MaxPages >= InitialPages

NoHeader == [cols |-> 0, key |-> 0, order |-> 0, region |-> 0, pages |-> 0]

VARIABLES
    pc,        \* what IndexManager is doing
    exists,    \* the file
    header,    \* its page 0
    written,   \* pages from 1 on that have been written to it
    ready,     \* create_index has returned
    mem,       \* file_header_ of the open tree
    alloc,     \* fd2pageno_ of its descriptor
    live,      \* pages of the tree
    dirty,     \* pages of the tree only the buffer pool has
    fds,       \* open descriptors of the file
    faults, crashes

indexVars == <<pc, exists, header, written, ready, mem, alloc, live, dirty, fds, faults, crashes>>
diskVars == <<exists, header, written>>
openVars == <<mem, alloc, live, dirty>>

IndexInit ==
    /\ pc = "closed" /\ exists = FALSE /\ header = NoHeader /\ written = {}
    /\ ready = FALSE /\ mem = NoHeader /\ alloc = 0 /\ live = {} /\ dirty = {}
    /\ fds = 0 /\ faults = 0 /\ crashes = 0

(* The file's length in pages, rounded up.                                 *)
PhysicalPages == Max({p + 1 : p \in written} \cup {IF header = NoHeader THEN 0 ELSE 1})

Goto(from, to) == pc = from /\ pc' = to /\ UNCHANGED <<faults, crashes>>

(* The bounds: pages, errors and crashes for the indexes of Worked only.   *)
IsWorked == \E s \in Worked, h \in {mem, header} : h.cols = s.cols /\ h.key = s.key

(* A disk operation throws; the caller gets the exception.                 *)
IOError(from, to) ==
    /\ pc \in from /\ pc' = to /\ IsWorked
    /\ faults < MaxFaults /\ faults' = faults + 1
    /\ UNCHANGED <<diskVars, ready, openVars, crashes>>

-----------------------------------------------------------------------------
(* create_index, up to create_file; and open_file.                         *)
CreateIndexFile(s) ==
    /\ Goto("closed", "file") /\ ~exists /\ ValidSchema(s)
    /\ exists' = TRUE
    /\ mem' = NewHeader(s)
    /\ UNCHANGED <<header, written, ready, alloc, live, dirty, fds>>

OpenCreated ==
    /\ Goto("file", "header")
    /\ fds' = fds + 1
    /\ UNCHANGED <<diskVars, ready, openVars>>

(* Each write_page of create_index, in order.                              *)
WriteHeader ==
    /\ Goto("header", "sentinel")
    /\ header' = mem
    /\ UNCHANGED <<exists, written, ready, openVars, fds>>

WriteSentinel ==
    /\ Goto("sentinel", "root")
    /\ written' = written \cup {1}
    /\ UNCHANGED <<exists, header, ready, openVars, fds>>

WriteRoot ==
    /\ Goto("root", "created")
    /\ written' = written \cup {2} /\ live' = {1, 2}
    /\ UNCHANGED <<exists, header, ready, mem, alloc, dirty, fds>>

(* set_fd2pageno and close_file.                                           *)
CloseCreated ==
    /\ Goto("created", "closed")
    /\ ready' = TRUE /\ mem' = NoHeader /\ alloc' = InitialPages /\ fds' = fds - 1
    /\ UNCHANGED <<diskVars, live, dirty>>

(* An exception in create_index closes and removes nothing.  The name is   *)
(* then taken: create_file refuses to make the file again, and             *)
(* destroy_file to remove one whose descriptor is open.                    *)
CreateFails ==
    /\ IOError({"file", "header", "sentinel", "root", "created"}, "orphaned")
    /\ UNCHANGED fds

(* destroy_index, for DROP INDEX.                                          *)
DestroyIndex ==
    /\ Goto("closed", "closed") /\ ready
    /\ exists' = FALSE /\ header' = NoHeader /\ written' = {} /\ ready' = FALSE
    /\ mem' = NoHeader /\ live' = {}
    /\ UNCHANGED <<alloc, dirty, fds>>

(* open_index: open_file, read_page and deserialize.                       *)
OpenIndexFile ==
    /\ Goto("closed", "opening") /\ ready
    /\ fds' = fds + 1
    /\ UNCHANGED <<diskVars, ready, openVars>>

(* Mutant: allocation starts where the header says.                        *)
ReadIndexHeader ==
    /\ Goto("opening", "open") /\ Deserializes(header)
    /\ mem' = header
    /\ alloc' = header.pages
    /\ UNCHANGED <<diskVars, ready, live, dirty, fds>>

(* The constructor of BPlusTree: page_count_ is not trusted as the         *)
(* high-water mark of the file.                                            *)
ReadIndex ==
    /\ Goto("opening", "open") /\ Deserializes(header)
    /\ mem' = header
    /\ alloc' = Max({header.pages, PhysicalPages})
    /\ UNCHANGED <<diskVars, ready, live, dirty, fds>>

(* The constructor throws: open_index closes the descriptor.               *)
OpenFails ==
    IOError({"opening"}, "closed") /\ fds' = fds - 1

-----------------------------------------------------------------------------
(* create_node                                                             *)
CreateNode ==
    /\ Goto("open", "open") /\ alloc < MaxPages /\ IsWorked
    /\ alloc' = alloc + 1
    /\ mem' = [mem EXCEPT !.pages = @ + 1]
    /\ live' = live \cup {alloc} /\ dirty' = dirty \cup {alloc}
    /\ UNCHANGED <<diskVars, ready, fds>>

(* record_page_deletion: a page of the tree, never the sentinel, is not    *)
(* used any more.  Its number is not given back.                           *)
DeleteNode(p) ==
    /\ Goto("open", "open") /\ p \in live \ {1} /\ Cardinality(live) > 2
    /\ mem' = [mem EXCEPT !.pages = @ - 1]
    /\ live' = live \ {p} /\ dirty' = dirty \ {p}
    /\ UNCHANGED <<diskVars, ready, alloc, fds>>

(* The buffer pool writes a page, to evict it.                             *)
Evict(p) ==
    /\ Goto("open", "open") /\ p \in dirty
    /\ dirty' = dirty \ {p} /\ written' = written \cup {p}
    /\ UNCHANGED <<exists, header, ready, mem, alloc, live, fds>>

(* close_index: the header, the cached pages, the descriptor.              *)
CloseHeader ==
    /\ Goto("open", "discard")
    /\ header' = mem
    /\ UNCHANGED <<exists, written, ready, openVars, fds>>

(* Mutant: the file is closed with its pages still in the buffer pool.     *)
CloseWithoutDiscard ==
    /\ Goto("discard", "closed")
    /\ dirty' = {}
    /\ mem' = NoHeader /\ fds' = fds - 1
    /\ UNCHANGED <<exists, header, written, ready, alloc, live>>

CloseDiscard ==
    /\ Goto("discard", "closed")
    /\ written' = written \cup dirty /\ dirty' = {}
    /\ mem' = NoHeader /\ fds' = fds - 1
    /\ UNCHANGED <<exists, header, ready, alloc, live>>

CloseFails == IOError({"open", "discard"}, "open") /\ UNCHANGED fds

(* The process ends and what the buffer pool had is lost.  The file of an  *)
(* index that was not finished stays: create_file will refuse its name.    *)
Crash ==
    /\ crashes < MaxCrashes /\ crashes' = crashes + 1 /\ IsWorked
    /\ pc' = "closed"
    /\ live' = live \ dirty /\ dirty' = {} /\ mem' = NoHeader /\ alloc' = 0 /\ fds' = 0
    /\ UNCHANGED <<diskVars, ready, faults>>

IndexNext ==
    \/ \E s \in Schemas : CreateIndexFile(s)
    \/ OpenCreated \/ WriteHeader \/ WriteSentinel \/ WriteRoot \/ CloseCreated \/ CreateFails
    \/ DestroyIndex \/ OpenIndexFile \/ ReadIndex \/ OpenFails
    \/ CreateNode \/ (\E p \in live : DeleteNode(p)) \/ (\E p \in dirty : Evict(p))
    \/ CloseHeader \/ CloseDiscard \/ CloseFails \/ Crash

IndexSpec == IndexInit /\ [][IndexNext]_indexVars

-----------------------------------------------------------------------------
(* The variables have their types; the buffer pool holds pages of the tree *)
(* only, and the index has at most one descriptor.                         *)
IndexTypeOK ==
    /\ pc \in {"closed", "file", "header", "sentinel", "root", "created", "orphaned",
               "opening", "open", "discard"}
    /\ exists \in BOOLEAN /\ ready \in BOOLEAN
    /\ written \subseteq 1..MaxPages /\ live \subseteq 1..MaxPages /\ dirty \subseteq live
    /\ alloc \in 0..MaxPages
    /\ {mem.pages, header.pages} \subseteq -MaxPages..MaxPages   \* see the README
    /\ fds \in 0..1

(* An index that create_index made can be opened: the limits it checks     *)
(* imply those deserialize checks, for every schema, and page 0 is a valid *)
(* header from then on.                                                    *)
CreatedIndexOpens == ready => exists /\ Deserializes(header)

(* Whatever schema create_index accepts, the index opens again and its     *)
(* nodes have the room that the B+ tree counts on.                         *)
AcceptedSchemaWorks == CreatedIndexOpens /\ (header # NoHeader => NodesFillPages(header))

(* The page create_node hands out is neither a page of the tree nor one    *)
(* that is present in the file, whatever was deleted, evicted or lost in a *)
(* crash before ("Never reuse a page that is already present").            *)
(* The variables also keep their types (IndexTypeOK).                      *)
NewPagesAreFresh ==
    /\ IndexTypeOK
    /\ pc = "open" => \A p \in live \cup written : p < alloc

(* Unless create_index has failed, a descriptor is open exactly while an   *)
(* operation on the index or an open tree uses it.                         *)
DescriptorsReturned ==
    pc # "orphaned" => fds = IF pc \in {"closed", "file"} THEN 0 ELSE 1

(* After a close or a crash every page of the tree that had been written,  *)
(* and after a close every page, is in the file; and the descriptor was    *)
(* given back, by open_index also when the constructor throws.             *)
ClosedTreeOnDisk ==
    /\ DescriptorsReturned
    /\ pc = "closed" /\ ready => live \subseteq written
=============================================================================
