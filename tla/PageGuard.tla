------------------------------ MODULE PageGuard ------------------------------
(***************************************************************************)
(* Page guards (storage/page_guard.cpp) and their owners in the index      *)
(* (IndexNode, index/b_plus_tree.h), against the contract of the buffer    *)
(* pool; and discard_file_pages, which close_file and close_index run      *)
(* before a descriptor number is given back.                               *)
(*                                                                         *)
(* The pool's own operations are a lab exercise.  They appear here as their*)
(* documented contract: fetch pins, unpin releases one pin and keeps a     *)
(* dirty mark, only unpinned frames are evicted, and only frames marked    *)
(* dirty are written back.                                                 *)
(***************************************************************************)
EXTENDS Naturals, FiniteSets

CONSTANTS Guards,       \* guard objects of all threads
          Fds,          \* descriptor numbers of data files
          PageNos,      \* page numbers
          Files,        \* files that may be opened
          PoolSize,     \* frames of the pool
          NoPage, NoFile, NoFd

ASSUME GuardsAssumption == IsFiniteSet(Guards)

Pages == Fds \X PageNos
ASSUME NothingAssumption ==
    NoPage \notin Pages /\ NoFile \notin Files /\ NoFd \notin Fds

VARIABLES
    guard,      \* per object: page_ with page_id_, and dirty_
    view,       \* per IndexNode: the page its view_ points into
    pins,       \* pool: pin_count_ of each page
    resident,   \* pool: the pages in page_table_
    dirty,      \* pool: pages whose is_dirty_ is set
    changed,    \* history: pages whose frame differs from the disk
    origin,     \* history, per resident page: the file its bytes come from
    file,       \* per descriptor number: the file it refers to
    closing,    \* descriptor that close_file or close_index works on
    todo        \* discard_file_pages: resident_pages still to delete

guardVars == <<guard, view>>
poolVars == <<pins, resident, dirty, changed, origin>>
fileVars == <<file, closing, todo>>
vars == <<guard, view, pins, resident, dirty, changed, origin, file, closing, todo>>

Empty == [page |-> NoPage, dirty |-> FALSE]
Steps == {"none", "flush", "snapshot", "delete"}

Init ==
    /\ guard = [g \in Guards |-> Empty]
    /\ view = [g \in Guards |-> NoPage]
    /\ pins = [p \in Pages |-> 0]
    /\ resident = {} /\ dirty = {} /\ changed = {}
    /\ origin = [p \in Pages |-> NoFile]
    /\ file = [d \in Fds |-> NoFile]
    /\ closing = [fd |-> NoFd, step |-> "none"]
    /\ todo = {}

-----------------------------------------------------------------------------
(* The pool's contract.                                                    *)

(* fetch_page or new_page brings p in, over a free frame or over an        *)
(* unpinned victim q, which is written back if it is marked dirty.         *)
LoadOver(p, gone) ==
    /\ resident' = (resident \ gone) \cup {p}
    /\ dirty' = dirty \ gone
    /\ changed' = changed \ (gone \cap dirty)
    /\ origin' = [origin EXCEPT ![p] = file[p[1]]]

Pin(p) ==
    /\ pins' = [pins EXCEPT ![p] = @ + 1]
    /\ \/ p \in resident /\ UNCHANGED <<resident, dirty, changed, origin>>
       \/ /\ p \notin resident /\ Cardinality(resident) < PoolSize
          /\ LoadOver(p, {})
       \/ /\ p \notin resident /\ Cardinality(resident) = PoolSize
          /\ \E q \in resident : pins[q] = 0 /\ LoadOver(p, {q})

(* unpin_page(page_id, is_dirty)                                           *)
Unpin(p, isDirty) ==
    /\ pins' = [pins EXCEPT ![p] = @ - 1]
    /\ dirty' = IF isDirty THEN dirty \cup {p} ELSE dirty

-----------------------------------------------------------------------------
(* PageGuard and IndexNode.                                                *)

(* fetch_page_guard or new_page_guard into a fresh IndexNode.  A file that *)
(* is being closed has no users.                                           *)
Acquire(g, p) ==
    /\ guard[g].page = NoPage
    /\ file[p[1]] # NoFile /\ closing.fd # p[1]
    /\ Pin(p)
    /\ guard' = [guard EXCEPT ![g] = [page |-> p, dirty |-> FALSE]]
    /\ view' = [view EXCEPT ![g] = p]
    /\ UNCHANGED fileVars

(* A user changes the page through the view and calls mark_dirty().        *)
Modify(g) ==
    /\ view[g] # NoPage
    /\ guard' = [guard EXCEPT ![g].dirty = TRUE]
    /\ changed' = changed \cup {view[g]}
    /\ UNCHANGED <<view, pins, resident, dirty, origin, fileVars>>

(* Mutant: drop() forgets that the page was modified.                      *)
DropClean(g) ==
    IF guard[g].page = NoPage THEN UNCHANGED <<pins, dirty>>
    ELSE Unpin(guard[g].page, FALSE)

(* drop(): nothing to do for an empty guard, else one unpin_page.          *)
DropPin(g) ==
    IF guard[g].page = NoPage THEN UNCHANGED <<pins, dirty>>
    ELSE Unpin(guard[g].page, guard[g].dirty)

(* drop(), or the destructor at the end of a scope.                        *)
Drop(g) ==
    /\ DropPin(g)
    /\ guard' = [guard EXCEPT ![g] = Empty]
    /\ view' = [view EXCEPT ![g] = NoPage]
    /\ UNCHANGED <<resident, changed, origin, fileVars>>

(* Mutant: the old page of the target is overwritten without drop().       *)
MoveWithoutDrop(g, h) ==
    /\ g # h
    /\ guard' = [guard EXCEPT ![g] = guard[h], ![h] = Empty]
    /\ view' = [view EXCEPT ![g] = view[h], ![h] = NoPage]
    /\ UNCHANGED <<poolVars, fileVars>>

(* g = std::move(h), or the construction of g from h when g is fresh: what *)
(* g held is dropped, then every field is exchanged.  A self-move returns. *)
Move(g, h) ==
    /\ g # h
    /\ DropPin(g)
    /\ guard' = [guard EXCEPT ![g] = guard[h], ![h] = Empty]
    /\ view' = [view EXCEPT ![g] = view[h], ![h] = NoPage]
    /\ UNCHANGED <<resident, changed, origin, fileVars>>

(* Mutant: release() leaves the view of the node in place.                 *)
ReleaseKeepsView(g, h) ==
    /\ g # h /\ guard[h].page = NoPage
    /\ guard' = [guard EXCEPT ![h] = guard[g], ![g] = Empty]
    /\ UNCHANGED <<view, poolVars, fileVars>>

(* IndexNode::release(): the pin leaves the node, its view is reset.       *)
Release(g, h) ==
    /\ g # h /\ guard[h].page = NoPage
    /\ guard' = [guard EXCEPT ![h] = guard[g], ![g] = Empty]
    /\ view' = [view EXCEPT ![g] = NoPage]
    /\ UNCHANGED <<poolVars, fileVars>>

-----------------------------------------------------------------------------
(* Files: open_file, and close_file or close_index.                        *)

PagesOf(d) == {p \in Pages : p[1] = d}

OpenFile(d, f) ==
    /\ file[d] = NoFile
    /\ \A e \in Fds : file[e] # f
    /\ file' = [file EXCEPT ![d] = f]
    /\ UNCHANGED <<guardVars, poolVars, closing, todo>>

(* Precondition of discard_file_pages: no page of the file is pinned.      *)
BeginClose(d) ==
    /\ closing.fd = NoFd
    /\ file[d] # NoFile
    /\ \A g \in Guards : guard[g].page \notin PagesOf(d)
    /\ closing' = [fd |-> d, step |-> "flush"]
    /\ UNCHANGED <<guardVars, poolVars, file, todo>>

(* flush_all_pages(fd)                                                     *)
FlushAllPages ==
    /\ closing.step = "flush"
    /\ closing' = [closing EXCEPT !.step = "snapshot"]
    /\ dirty' = dirty \ PagesOf(closing.fd)
    /\ changed' = changed \ (resident \cap PagesOf(closing.fd))
    /\ UNCHANGED <<guardVars, pins, resident, origin, file, todo>>

(* The pages of the file are collected under latch_.                       *)
CollectPages ==
    /\ closing.step = "snapshot"
    /\ closing' = [closing EXCEPT !.step = "delete"]
    /\ todo' = resident \cap PagesOf(closing.fd)
    /\ UNCHANGED <<guardVars, poolVars, file>>

(* Mutant: the pages are flushed but stay in the pool.                     *)
DeleteNothing ==
    /\ closing.step = "delete"
    /\ \E p \in todo : todo' = todo \ {p}
    /\ UNCHANGED <<guardVars, poolVars, file, closing>>

(* delete_page, page by page, each under a latch_ of its own: a pinned page*)
(* stays, one that was evicted meanwhile is gone already.                  *)
DeletePage ==
    /\ closing.step = "delete"
    /\ \E p \in todo :
          /\ todo' = todo \ {p}
          /\ resident' = IF pins[p] = 0 THEN resident \ {p} ELSE resident
          /\ dirty' = IF pins[p] = 0 THEN dirty \ {p} ELSE dirty
          /\ changed' = IF pins[p] = 0 THEN changed \ {p} ELSE changed
    /\ UNCHANGED <<guardVars, pins, origin, file, closing>>

(* disk_manager_->close_file(fd): the number is free for the next open.    *)
CloseFd ==
    /\ closing.step = "delete" /\ todo = {}
    /\ file' = [file EXCEPT ![closing.fd] = NoFile]
    /\ closing' = [fd |-> NoFd, step |-> "none"]
    /\ UNCHANGED <<guardVars, poolVars, todo>>

Next ==
    \/ \E g \in Guards : Modify(g) \/ Drop(g) \/ \E p \in Pages : Acquire(g, p)
    \/ \E g, h \in Guards : Move(g, h) \/ Release(g, h)
    \/ \E d \in Fds : BeginClose(d) \/ \E f \in Files : OpenFile(d, f)
    \/ FlushAllPages \/ CollectPages \/ DeletePage \/ CloseFd

Spec == Init /\ [][Next]_vars

-----------------------------------------------------------------------------
(* Types of the guards, the pool and the files; an empty guard is clean,   *)
(* and only resident pages are marked dirty.                               *)
TypeOK ==
    /\ guard \in [Guards -> [page : Pages \cup {NoPage}, dirty : BOOLEAN]]
    /\ \A g \in Guards : guard[g].page = NoPage => ~guard[g].dirty
    /\ view \in [Guards -> Pages \cup {NoPage}]
    /\ pins \in [Pages -> Nat]
    /\ resident \subseteq Pages /\ dirty \subseteq resident
    /\ origin \in [Pages -> Files \cup {NoFile}]
    /\ file \in [Fds -> Files \cup {NoFile}]
    /\ closing \in [fd : Fds \cup {NoFd}, step : Steps]
    /\ todo \subseteq Pages

Holders(p) == {g \in Guards : guard[g].page = p}

(* The pin count of a page is the number of guards that hold it: however   *)
(* guards are moved, overwritten, released and dropped, each pin is given  *)
(* back exactly once.                                                      *)
PinsMatchGuards == \A p \in Pages : pins[p] = Cardinality(Holders(p))

(* A guard's page, and what an IndexNode's view points into, stays in its  *)
(* frame: it cannot be evicted or discarded under its user.                *)
ViewsArePinned ==
    /\ \A g \in Guards : guard[g].page # NoPage => guard[g].page \in resident
    /\ \A g \in Guards : view[g] # NoPage => view[g] = guard[g].page

(* A modification is never lost: until it is on disk, either the pool knows*)
(* that the frame is dirty or a guard will tell it, also after moves.      *)
NoLostUpdate ==
    \A p \in changed : p \in dirty \/ \E g \in Holders(p) : guard[g].dirty

(* discard_file_pages: after a descriptor number is reused, no frame shows *)
(* pages of the file it referred to before.                                *)
NoStaleFrames == \A p \in resident : origin[p] = file[p[1]]
=============================================================================
