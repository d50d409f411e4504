------------------------------ MODULE Catalog ------------------------------
(***************************************************************************)
(* The DDL of system/sm_manager.cpp over record/rm_manager.h: what happens *)
(* to the catalog in memory (db_), the record handles (fhs_), the table    *)
(* files and db.meta when any single system call fails, or the process is  *)
(* killed, between two steps.                                              *)
(*                                                                         *)
(* One database, whose directory is the unit of create_db and drop_db.     *)
(* SmManager does not support DDL concurrent with other statements         *)
(* (sm_manager.h), so at most one operation is under way.  DiskManager's   *)
(* file operations are those its contract names: create_file refuses an    *)
(* existing file, destroy_file an open one.                                *)
(***************************************************************************)
EXTENDS Naturals

CONSTANTS Tables,       \* table names
          NoTable,      \* no create_table is under way
          MaxFaults,    \* bound on failing system calls
          MaxCrashes    \* bound on kills of the process

ASSUME TablesAssumption == NoTable \notin Tables
ASSUME CatalogBounds == MaxFaults \in Nat /\ MaxCrashes \in Nat

VARIABLES
    up,         \* the server process runs
    pc,         \* step of the operation under way
    tab,        \* create_table: its tab_name
    opened,     \* db_.name_ is set: open_db has succeeded
    db,         \* db_.tabs_
    fhs,        \* fhs_: tables with a record handle
    open,       \* DiskManager: files that are open
    dir,        \* the database directory exists
    meta,       \* db.meta: absent, torn (truncated or half written), or ok
    log,        \* the log file exists
    files,      \* per table: no file, one without header, or a ready one
    leaky,      \* history: a step failed that the code does not undo
    dropping,   \* history: drop_db has begun to remove the directory
    faults, crashes

memVars == <<opened, db, fhs, open>>
diskVars == <<dir, meta, log, files>>
budget == <<faults, crashes>>
vars == <<up, pc, tab, opened, db, fhs, open, dir, meta, log, files, leaky,
          dropping, faults, crashes>>

NoMeta == [state |-> "absent", tabs |-> {}]
TornMeta == [state |-> "torn", tabs |-> {}]
MetaOf(tabs) == [state |-> "ok", tabs |-> tabs]

CreateTablePCs == {"mkfile", "mkopen", "mkhdr", "mkclose", "openfd", "handle",
                   "trunc", "write", "swap", "rbclose", "rbdestroy"}
PCs == CreateTablePCs \cup {"idle", "dbmeta", "dbwrite", "dblog", "dbundo",
                            "flush", "flushwrite", "remove"}

Init ==
    /\ up = TRUE /\ pc = "idle" /\ tab = NoTable
    /\ opened = FALSE /\ db = {} /\ fhs = {} /\ open = {}
    /\ dir = FALSE /\ meta = NoMeta /\ log = FALSE
    /\ files = [t \in Tables |-> "none"]
    /\ leaky = FALSE /\ dropping = FALSE
    /\ faults = 0 /\ crashes = 0

-----------------------------------------------------------------------------
Goto(from, to) == up /\ UNCHANGED up /\ pc = from /\ pc' = to

(* The operation returns to its caller, normally or by an exception.       *)
Done(from) == Goto(from, "idle") /\ tab' = NoTable

(* A system call of this step fails.                                       *)
Fails == faults < MaxFaults /\ faults' = faults + 1 /\ UNCHANGED crashes

(* A failure after which nothing is undone.                                *)
FailsForGood(from) == Done(from) /\ Fails /\ leaky' = TRUE

-----------------------------------------------------------------------------
(* create_db and drop_db.                                                  *)

CreateDb ==
    /\ Goto("idle", "dbmeta")
    /\ ~dir
    /\ dir' = TRUE
    /\ UNCHANGED <<tab, memVars, meta, log, files, leaky, dropping, budget>>

(* write_meta_file: ofstream(trunc), then write and flush.                 *)
CreateDbTruncate ==
    /\ \/ Goto("dbmeta", "dbwrite") /\ meta' = TornMeta /\ UNCHANGED budget
       \/ Goto("dbmeta", "dbundo") /\ Fails /\ UNCHANGED meta
    /\ UNCHANGED <<tab, memVars, dir, log, files, leaky, dropping>>

CreateDbWrite ==
    /\ \/ Goto("dbwrite", "dblog") /\ meta' = MetaOf({}) /\ UNCHANGED budget
       \/ Goto("dbwrite", "dbundo") /\ Fails /\ UNCHANGED meta
    /\ UNCHANGED <<tab, memVars, dir, log, files, leaky, dropping>>

CreateDbLog ==
    /\ \/ Goto("dblog", "idle") /\ log' = TRUE /\ UNCHANGED budget
       \/ Goto("dblog", "dbundo") /\ Fails /\ UNCHANGED log
    /\ UNCHANGED <<tab, memVars, dir, meta, files, leaky, dropping>>

(* catch: remove_all with its error ignored.                               *)
CreateDbUndo ==
    /\ Goto("dbundo", "idle")
    /\ \/ /\ dir' = FALSE /\ meta' = NoMeta
          /\ UNCHANGED <<budget, leaky>>
       \/ /\ Fails /\ leaky' = TRUE
          /\ UNCHANGED <<dir, meta>>
    /\ UNCHANGED <<tab, memVars, log, files, dropping>>

(* drop_db: only a database with a db.meta that is not open.               *)
DropDb ==
    /\ Goto("idle", "remove")
    /\ dir /\ meta.state # "absent"
    /\ ~opened
    /\ dropping' = TRUE
    /\ UNCHANGED <<tab, memVars, diskVars, leaky, budget>>

(* remove_all deletes the entries in no particular order, then the         *)
(* directory; an error ends it half way.                                   *)
RemoveEntry ==
    /\ \/ /\ Goto("remove", "remove")
          /\ \/ /\ meta.state # "absent" /\ meta' = NoMeta
                /\ UNCHANGED <<log, files>>
             \/ /\ log /\ log' = FALSE
                /\ UNCHANGED <<meta, files>>
             \/ \E t \in Tables :
                   /\ files[t] # "none"
                   /\ files' = [files EXCEPT ![t] = "none"]
                   /\ UNCHANGED <<meta, log>>
          /\ UNCHANGED <<dir, dropping, budget>>
       \/ /\ Goto("remove", "idle")
          /\ meta.state = "absent" /\ ~log /\ \A t \in Tables : files[t] = "none"
          /\ dir' = FALSE /\ dropping' = FALSE
          /\ UNCHANGED <<meta, log, files, budget>>
       \/ Goto("remove", "idle") /\ Fails /\ UNCHANGED <<diskVars, dropping>>
    /\ UNCHANGED <<tab, memVars, leaky>>

-----------------------------------------------------------------------------
(* open_db and close_db, bodies of a later lab: open_db parses db.meta and *)
(* opens every table in it, close_db closes them and forgets the catalog.  *)

OpenDb ==
    /\ up /\ pc = "idle"
    /\ ~opened
    /\ dir /\ meta.state = "ok"
    /\ \A t \in meta.tabs : files[t] = "ready" /\ t \notin open
    /\ opened' = TRUE
    /\ db' = meta.tabs /\ fhs' = meta.tabs /\ open' = open \cup meta.tabs
    /\ UNCHANGED <<up, pc, tab, diskVars, leaky, dropping, budget>>

CloseDb ==
    /\ up /\ pc = "idle"
    /\ opened
    /\ opened' = FALSE
    /\ db' = {} /\ fhs' = {} /\ open' = open \ fhs
    /\ UNCHANGED <<up, pc, tab, diskVars, leaky, dropping, budget>>

(* flush_meta: the catalog overwrites db.meta.                             *)
FlushMeta ==
    /\ Goto("idle", "flush")
    /\ opened
    /\ UNCHANGED <<tab, memVars, diskVars, leaky, dropping, budget>>

FlushTruncate ==
    /\ \/ Goto("flush", "flushwrite") /\ meta' = TornMeta /\ UNCHANGED budget
       \/ Goto("flush", "idle") /\ Fails /\ UNCHANGED meta
    /\ UNCHANGED <<tab, memVars, dir, log, files, leaky, dropping>>

FlushWrite ==
    /\ Goto("flushwrite", "idle")
    /\ \/ meta' = MetaOf(db) /\ UNCHANGED budget
       \/ Fails /\ UNCHANGED meta
    /\ UNCHANGED <<tab, memVars, dir, log, files, leaky, dropping>>

-----------------------------------------------------------------------------
(* create_table(t): the checks up to the candidate catalog next_db.        *)
CreateTable(t) ==
    /\ Goto("idle", "mkfile")
    /\ opened
    /\ t \notin db /\ t \notin fhs
    /\ tab' = t
    /\ UNCHANGED <<memVars, diskVars, leaky, dropping, budget>>

(* RmManager::create_file: an exception here passes create_table, whose    *)
(* try block has not begun.                                                *)
CreateFile ==
    /\ \/ /\ Goto("mkfile", "mkopen") /\ files[tab] = "none"
          /\ files' = [files EXCEPT ![tab] = "blank"]
          /\ UNCHANGED <<tab, budget>>
       \/ Done("mkfile") /\ files[tab] # "none" /\ UNCHANGED <<files, budget>>
       \/ Done("mkfile") /\ files[tab] = "none" /\ Fails /\ UNCHANGED files
    /\ UNCHANGED <<memVars, dir, meta, log, leaky, dropping>>

CreateFileOpen ==
    /\ \/ /\ Goto("mkopen", "mkhdr")
          /\ open' = open \cup {tab}
          /\ UNCHANGED <<tab, leaky, budget>>
       \/ FailsForGood("mkopen") /\ UNCHANGED open
    /\ UNCHANGED <<opened, db, fhs, diskVars, dropping>>

(* Mutant: the file is left without its header page.                       *)
CreateFileNoHeader ==
    /\ Goto("mkhdr", "mkclose")
    /\ UNCHANGED <<tab, memVars, diskVars, leaky, dropping, budget>>

CreateFileHeader ==
    /\ \/ /\ Goto("mkhdr", "mkclose")
          /\ files' = [files EXCEPT ![tab] = "ready"]
          /\ UNCHANGED <<tab, leaky, budget>>
       \/ FailsForGood("mkhdr") /\ UNCHANGED files
    /\ UNCHANGED <<memVars, dir, meta, log, dropping>>

CreateFileClose ==
    /\ \/ /\ Goto("mkclose", "openfd")
          /\ open' = open \ {tab}
          /\ UNCHANGED <<tab, leaky, budget>>
       \/ FailsForGood("mkclose") /\ UNCHANGED open
    /\ UNCHANGED <<opened, db, fhs, diskVars, dropping>>

(* RmManager::open_file: the descriptor, then the handle that reads the    *)
(* header; the descriptor is not closed when the handle's constructor      *)
(* throws.                                                                 *)
OpenFile ==
    /\ \/ /\ Goto("openfd", "handle")
          /\ open' = open \cup {tab}
          /\ UNCHANGED budget
       \/ Goto("openfd", "rbdestroy") /\ Fails /\ UNCHANGED open
    /\ UNCHANGED <<tab, opened, db, fhs, diskVars, leaky, dropping>>

MakeHandle ==
    /\ \/ /\ Goto("handle", "trunc")
          /\ fhs' = fhs \cup {tab}
          /\ UNCHANGED <<leaky, budget>>
       \/ Goto("handle", "rbdestroy") /\ Fails /\ leaky' = TRUE /\ UNCHANGED fhs
    /\ UNCHANGED <<tab, opened, db, open, diskVars, dropping>>

(* write_meta_file(DB_META_NAME, next_db).                                 *)
TruncateMeta ==
    /\ \/ Goto("trunc", "write") /\ meta' = TornMeta /\ UNCHANGED budget
       \/ Goto("trunc", "rbclose") /\ Fails /\ UNCHANGED meta
    /\ UNCHANGED <<tab, memVars, dir, log, files, leaky, dropping>>

WriteMeta ==
    /\ \/ Goto("write", "swap") /\ meta' = MetaOf(db \cup {tab}) /\ UNCHANGED budget
       \/ Goto("write", "rbclose") /\ Fails /\ UNCHANGED meta
    /\ UNCHANGED <<tab, memVars, dir, log, files, leaky, dropping>>

(* db_ = std::move(next_db)                                                *)
SwapCatalog ==
    /\ Done("swap")
    /\ db' = db \cup {tab}
    /\ UNCHANGED <<opened, fhs, open, diskVars, leaky, dropping, budget>>

(* Mutant: the handle of the closed file is kept.                          *)
RollbackKeepsHandle ==
    /\ Goto("rbclose", "rbdestroy")
    /\ open' = open \ {tab}
    /\ UNCHANGED <<tab, opened, db, fhs, diskVars, leaky, dropping, budget>>

(* catch: close_file and erase the handle; an exception here escapes.      *)
RollbackClose ==
    /\ \/ /\ Goto("rbclose", "rbdestroy")
          /\ open' = open \ {tab}
          /\ fhs' = fhs \ {tab}
          /\ UNCHANGED <<tab, leaky, budget>>
       \/ FailsForGood("rbclose") /\ UNCHANGED <<open, fhs>>
    /\ UNCHANGED <<opened, db, diskVars, dropping>>

(* Mutant: the file of the failed statement stays.                         *)
RollbackKeepsFile ==
    /\ Done("rbdestroy")
    /\ UNCHANGED <<memVars, diskVars, leaky, dropping, budget>>

(* catch: destroy_file, which refuses a file that is still open.           *)
RollbackDestroy ==
    /\ \/ /\ Done("rbdestroy") /\ tab \notin open
          /\ files' = [files EXCEPT ![tab] = "none"]
          /\ UNCHANGED <<leaky, budget>>
       \/ Done("rbdestroy") /\ tab \in open /\ UNCHANGED <<files, leaky, budget>>
       \/ FailsForGood("rbdestroy") /\ UNCHANGED files
    /\ UNCHANGED <<memVars, dir, meta, log, dropping>>

-----------------------------------------------------------------------------
(* The process is killed: memory is gone, the disk is as it was.           *)
Crash ==
    /\ up
    /\ crashes < MaxCrashes
    /\ crashes' = crashes + 1
    /\ up' = FALSE /\ pc' = "idle" /\ tab' = NoTable
    /\ opened' = FALSE /\ db' = {} /\ fhs' = {} /\ open' = {}
    /\ leaky' = (leaky \/ pc # "idle")
    /\ UNCHANGED <<diskVars, dropping, faults>>

Restart ==
    /\ ~up
    /\ up' = TRUE
    /\ UNCHANGED <<pc, tab, memVars, diskVars, leaky, dropping, budget>>

(* An operation whose checks fail throws before it changes anything.       *)
Refuse == up /\ pc = "idle" /\ UNCHANGED vars

Next ==
    \/ CreateDb \/ CreateDbTruncate \/ CreateDbWrite \/ CreateDbLog \/ CreateDbUndo
    \/ DropDb \/ RemoveEntry \/ OpenDb \/ CloseDb
    \/ FlushMeta \/ FlushTruncate \/ FlushWrite
    \/ \E t \in Tables : CreateTable(t)
    \/ CreateFile \/ CreateFileOpen \/ CreateFileHeader \/ CreateFileClose
    \/ OpenFile \/ MakeHandle \/ TruncateMeta \/ WriteMeta \/ SwapCatalog
    \/ RollbackClose \/ RollbackDestroy
    \/ Crash \/ Restart \/ Refuse

Spec == Init /\ [][Next]_vars

-----------------------------------------------------------------------------
(* Types of the catalog in memory and on disk; create_table's argument     *)
(* exists exactly while that statement runs.                               *)
TypeOK ==
    /\ up \in BOOLEAN /\ pc \in PCs
    /\ tab \in Tables \cup {NoTable} /\ (tab # NoTable <=> pc \in CreateTablePCs)
    /\ opened \in BOOLEAN /\ db \subseteq Tables /\ fhs \subseteq Tables
    /\ open \subseteq Tables
    /\ dir \in BOOLEAN /\ log \in BOOLEAN
    /\ meta \in [state : {"absent", "torn", "ok"}, tabs : SUBSET Tables]
    /\ files \in [Tables -> {"none", "blank", "ready"}]
    /\ leaky \in BOOLEAN /\ dropping \in BOOLEAN
    /\ faults \in 0..MaxFaults /\ crashes \in 0..MaxCrashes

(* Whenever the process dies, a db.meta that can be parsed names only      *)
(* tables whose file exists with its header, so open_db can open them:     *)
(* create_table makes the file before it writes db.meta and removes it only*)
(* if that write did not take place.                                       *)
MetaNamesReadyTables ==
    meta.state = "ok" /\ ~dropping => \A t \in meta.tabs : files[t] = "ready"

(* At every step, also after a statement failed half way, each table of the*)
(* catalog has its record handle, and each handle an open file behind it.  *)
HandlesBackCatalog ==
    /\ db \subseteq fhs
    /\ \A t \in fhs : t \in open /\ files[t] = "ready"

(* A create_table that failed leaves the handles, the open files and the   *)
(* table files as they were, so that it can be retried, provided that none *)
(* of the steps without undo failed and no process was killed in mid-air.  *)
RollbackComplete ==
    opened /\ pc = "idle" /\ ~leaky /\ ~dropping =>
        fhs = db /\ open = db /\ {t \in Tables : files[t] # "none"} = db

(* create_table promises to clean up only its own handle and file and to   *)
(* keep the former catalog for its caller (sm_manager.cpp, create_table):  *)
(* when it rolls back, db.meta still holds that catalog.                   *)
RollbackKeepsMeta ==
    pc \in {"rbclose", "rbdestroy"} => meta = MetaOf(db)
=============================================================================
