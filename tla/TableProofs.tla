---------------------------- MODULE TableProofs ----------------------------
(***************************************************************************)
(* TLAPS proofs about tables: their entries in the catalog (Catalog, for   *)
(* any set of table names and any number of failing calls and crashes) and *)
(* their rows (InsertRow, for any number of sessions, positions, indexes   *)
(* and keys).                                                              *)
(*                                                                         *)
(* The core of the argument for Catalog: while the database is open, a     *)
(* db.meta that can be parsed is the catalog in memory (plus, between its  *)
(* write and the swap of db_, the table being created).  So the file that  *)
(* a rollback removes is never one that db.meta names.  For InsertRow: a   *)
(* running INSERT owns its position alone, and its row has entries in the  *)
(* first done indexes and in no other.                                     *)
(***************************************************************************)
EXTENDS Catalog, InsertRow, TLAPS

CreateDbPCs == {"dbmeta", "dbwrite", "dblog", "dbundo"}

(* Steps of create_table at which the record handle exists, at which the   *)
(* file is open, and at which its header is written.                       *)
WithHandle == {"trunc", "write", "swap", "rbclose"}
WithOpenFile == WithHandle \cup {"mkhdr", "mkclose", "handle"}
WithHeader == WithHandle \cup {"mkclose", "openfd", "handle", "rbdestroy"}

(* Which operation can be under way, and what an intact db.meta holds.     *)
Phase ==
    /\ ~opened => db = {} /\ fhs = {}
    /\ opened => dir
    /\ pc \in CreateTablePCs \cup {"flush", "flushwrite"} => opened
    /\ pc \in CreateDbPCs \cup {"remove"} => ~opened
    /\ pc = "remove" => dropping
    /\ opened /\ meta.state = "ok" /\ pc # "swap" => meta.tabs = db
    /\ opened /\ meta.state = "ok" /\ pc = "swap" => meta.tabs = db \cup {tab}

(* What create_table has done so far for its table.                        *)
Statement ==
    pc \in CreateTablePCs =>
        /\ tab \notin db
        /\ tab \in fhs <=> pc \in WithHandle
        /\ pc \in {"mkopen", "mkhdr"} => files[tab] = "blank"
        /\ pc \in WithHeader => files[tab] = "ready"
        /\ pc \in WithOpenFile => tab \in open

(* As long as every failure was undone, handles, open files and table files*)
(* are those of the catalog and of the statement under way.                *)
Clean ==
    ~leaky =>
        /\ opened => \A t \in Tables :
              /\ t \in fhs <=> t \in db \/ (t = tab /\ pc \in WithHandle)
              /\ t \in open <=> t \in db \/ (t = tab /\ pc \in WithOpenFile)
        /\ ~opened => open = {}

CleanFiles ==
    ~leaky /\ ~dropping =>
        /\ opened => \A t \in Tables : files[t] # "none" <=>
              t \in db \/ (t = tab /\ pc \in CreateTablePCs \ {"mkfile"})
        /\ ~opened => \A t \in Tables :
              /\ meta.state = "ok" => (files[t] # "none" <=> t \in meta.tabs)
              /\ ~dir \/ pc \in CreateDbPCs => files[t] = "none"

IInv ==
    /\ TypeOK
    /\ MetaNamesReadyTables
    /\ HandlesBackCatalog
    /\ Phase
    /\ Statement
    /\ Clean
    /\ CleanFiles

(* TypeOK in two parts: the Boolean variables, and the others.             *)
Flags ==
    /\ up \in BOOLEAN /\ opened \in BOOLEAN /\ dir \in BOOLEAN
    /\ log \in BOOLEAN /\ leaky \in BOOLEAN /\ dropping \in BOOLEAN

Others ==
    /\ pc \in PCs
    /\ tab \in Tables \cup {NoTable} /\ (tab # NoTable <=> pc \in CreateTablePCs)
    /\ db \subseteq Tables /\ fhs \subseteq Tables /\ open \subseteq Tables
    /\ meta \in [state : {"absent", "torn", "ok"}, tabs : SUBSET Tables]
    /\ files \in [Tables -> {"none", "blank", "ready"}]
    /\ faults \in 0..MaxFaults /\ crashes \in 0..MaxCrashes

-----------------------------------------------------------------------------
(* The strengthened invariant holds before anything has been created.      *)
LEMMA InitInv == Init => IInv
<1> SUFFICES ASSUME Init PROVE IInv
  BY Zenon
<1> USE TablesAssumption, CatalogBounds
    DEF Init, NoMeta, PCs, CreateTablePCs, CreateDbPCs
<1>1. TypeOK
  <2>1. Flags
    BY Zenon DEF Flags
  <2>2. Others
    BY DEF Others
  <2> QED
    BY <2>1, <2>2, Zenon DEF TypeOK, Flags, Others
<1>2. MetaNamesReadyTables /\ HandlesBackCatalog
  BY Zenon DEF MetaNamesReadyTables, HandlesBackCatalog
<1>3. Phase /\ Statement
  BY Zenon DEF Phase, Statement
<1>4. Clean /\ CleanFiles
  BY Zenon DEF Clean, CleanFiles
<1> QED
  BY <1>1, <1>2, <1>3, <1>4, Zenon DEF IInv

(* Every step of an operation, every failing call and every crash keeps it.*)
LEMMA StepInv == IInv /\ [Next]_vars => IInv'
<1> SUFFICES ASSUME IInv, [Next]_vars PROVE IInv'
  BY Zenon
<1> USE TablesAssumption, CatalogBounds
    DEF IInv, TypeOK, MetaNamesReadyTables, HandlesBackCatalog, Phase,
        Statement, Clean, CleanFiles, NoMeta, TornMeta, MetaOf, PCs, CreateTablePCs,
        CreateDbPCs, WithHandle, WithOpenFile, WithHeader, Goto, Done, Fails,
        FailsForGood, memVars, diskVars, budget
<1>1. CASE CreateDb
  BY <1>1, Zenon DEF CreateDb
<1>2. CASE CreateDbTruncate
  BY <1>2 DEF CreateDbTruncate
<1>3. CASE CreateDbWrite
  BY <1>3 DEF CreateDbWrite
<1>4. CASE CreateDbLog
  <2>1. TypeOK'
    <3>1. Flags'
      BY <1>4, Zenon DEF CreateDbLog, Flags
    <3>2. Others'
      BY <1>4 DEF CreateDbLog, Others
    <3> QED
      BY ONLY <3>1, <3>2, Zenon DEF Flags, Others
  <2>2. MetaNamesReadyTables'
    BY <1>4, Zenon DEF CreateDbLog
  <2>3. HandlesBackCatalog'
    BY <1>4, Zenon DEF CreateDbLog
  <2>4. Phase'
    BY <1>4, Zenon DEF CreateDbLog
  <2>5. Statement'
    BY <1>4, Zenon DEF CreateDbLog
  <2>6. Clean' /\ CleanFiles'
    BY <1>4, Zenon DEF CreateDbLog
  <2> QED
    BY <2>1, <2>2, <2>3, <2>4, <2>5, <2>6, Zenon DEF IInv
<1>5. CASE CreateDbUndo
  <2>1. TypeOK'
    <3>1. Flags'
      BY <1>5, ZenonT(30) DEF CreateDbUndo, Flags
    <3>2. Others'
      BY <1>5 DEF CreateDbUndo, Others
    <3> QED
      BY ONLY <3>1, <3>2, Zenon DEF Flags, Others
  <2>2. MetaNamesReadyTables'
    BY <1>5 DEF CreateDbUndo
  <2>3. HandlesBackCatalog'
    BY <1>5, Zenon DEF CreateDbUndo
  <2>4. Phase'
    BY <1>5, Zenon DEF CreateDbUndo
  <2>5. Statement'
    BY <1>5, Zenon DEF CreateDbUndo
  <2>6. Clean' /\ CleanFiles'
    BY <1>5 DEF CreateDbUndo
  <2> QED
    BY <2>1, <2>2, <2>3, <2>4, <2>5, <2>6, Zenon DEF IInv
<1>6. CASE DropDb
  BY <1>6, Zenon DEF DropDb
<1>7. CASE RemoveEntry
  <2>1. TypeOK'
    <3>1. Flags'
      BY <1>7, ZenonT(30) DEF RemoveEntry, Flags
    <3>2. Others'
      BY <1>7 DEF RemoveEntry, Others
    <3> QED
      BY ONLY <3>1, <3>2, Zenon DEF Flags, Others
  <2>2. MetaNamesReadyTables'
    BY <1>7, Zenon DEF RemoveEntry
  <2>3. HandlesBackCatalog'
    BY <1>7, Zenon DEF RemoveEntry
  <2>4. Phase'
    BY <1>7, Zenon DEF RemoveEntry
  <2>5. Statement'
    BY <1>7, Zenon DEF RemoveEntry
  <2>6. Clean' /\ CleanFiles'
    BY <1>7, Zenon DEF RemoveEntry
  <2> QED
    BY <2>1, <2>2, <2>3, <2>4, <2>5, <2>6, Zenon DEF IInv
<1>8. CASE OpenDb
  BY <1>8, Zenon DEF OpenDb
<1>9. CASE CloseDb
  BY <1>9, Zenon DEF CloseDb
<1>10. CASE FlushMeta
  BY <1>10 DEF FlushMeta
<1>11. CASE FlushTruncate
  BY <1>11 DEF FlushTruncate
<1>12. CASE FlushWrite
  BY <1>12 DEF FlushWrite
<1>13. CASE CreateFile
  BY <1>13 DEF CreateFile
<1>14. CASE CreateFileOpen
  <2>1. TypeOK'
    <3>1. Flags'
      BY <1>14, ZenonT(30) DEF CreateFileOpen, Flags
    <3>2. Others'
      BY <1>14 DEF CreateFileOpen, Others
    <3> QED
      BY ONLY <3>1, <3>2, Zenon DEF Flags, Others
  <2>2. MetaNamesReadyTables'
    BY <1>14, Zenon DEF CreateFileOpen
  <2>3. HandlesBackCatalog'
    BY <1>14, Zenon DEF CreateFileOpen
  <2>4. Phase'
    BY <1>14, Zenon DEF CreateFileOpen
  <2>5. Statement'
    BY <1>14 DEF CreateFileOpen
  <2>6. Clean' /\ CleanFiles'
    BY <1>14, Zenon DEF CreateFileOpen
  <2> QED
    BY <2>1, <2>2, <2>3, <2>4, <2>5, <2>6, Zenon DEF IInv
<1>15. CASE CreateFileHeader
  <2>1. TypeOK'
    <3>1. Flags'
      BY <1>15, ZenonT(30) DEF CreateFileHeader, Flags
    <3>2. Others'
      BY <1>15 DEF CreateFileHeader, Others
    <3> QED
      BY ONLY <3>1, <3>2, Zenon DEF Flags, Others
  <2>2. MetaNamesReadyTables'
    BY <1>15, Zenon DEF CreateFileHeader
  <2>3. HandlesBackCatalog'
    BY <1>15, Zenon DEF CreateFileHeader
  <2>4. Phase'
    BY <1>15, Zenon DEF CreateFileHeader
  <2>5. Statement'
    BY <1>15 DEF CreateFileHeader
  <2>6. Clean' /\ CleanFiles'
    BY <1>15 DEF CreateFileHeader
  <2> QED
    BY <2>1, <2>2, <2>3, <2>4, <2>5, <2>6, Zenon DEF IInv
<1>16. CASE CreateFileClose
  <2>1. TypeOK'
    <3>1. Flags'
      BY <1>16, ZenonT(30) DEF CreateFileClose, Flags
    <3>2. Others'
      BY <1>16 DEF CreateFileClose, Others
    <3> QED
      BY ONLY <3>1, <3>2, Zenon DEF Flags, Others
  <2>2. MetaNamesReadyTables'
    BY <1>16, Zenon DEF CreateFileClose
  <2>3. HandlesBackCatalog'
    BY <1>16, Zenon DEF CreateFileClose
  <2>4. Phase'
    BY <1>16, Zenon DEF CreateFileClose
  <2>5. Statement'
    BY <1>16, Zenon DEF CreateFileClose
  <2>6. Clean' /\ CleanFiles'
    BY <1>16, Zenon DEF CreateFileClose
  <2> QED
    BY <2>1, <2>2, <2>3, <2>4, <2>5, <2>6, Zenon DEF IInv
<1>17. CASE OpenFile
  BY <1>17 DEF OpenFile
<1>18. CASE MakeHandle
  <2>1. TypeOK'
    <3>1. Flags'
      BY <1>18, ZenonT(30) DEF MakeHandle, Flags
    <3>2. Others'
      BY <1>18 DEF MakeHandle, Others
    <3> QED
      BY ONLY <3>1, <3>2, Zenon DEF Flags, Others
  <2>2. MetaNamesReadyTables'
    BY <1>18, Zenon DEF MakeHandle
  <2>3. HandlesBackCatalog'
    BY <1>18 DEF MakeHandle
  <2>4. Phase'
    BY <1>18, Zenon DEF MakeHandle
  <2>5. Statement'
    BY <1>18, Zenon DEF MakeHandle
  <2>6. Clean' /\ CleanFiles'
    BY <1>18, Zenon DEF MakeHandle
  <2> QED
    BY <2>1, <2>2, <2>3, <2>4, <2>5, <2>6, Zenon DEF IInv
<1>19. CASE TruncateMeta
  BY <1>19 DEF TruncateMeta
<1>20. CASE WriteMeta
  BY <1>20 DEF WriteMeta
<1>21. CASE SwapCatalog
  BY <1>21 DEF SwapCatalog
<1>22. CASE RollbackClose
  <2>1. TypeOK'
    <3>1. Flags'
      BY <1>22, ZenonT(30) DEF RollbackClose, Flags
    <3>2. Others'
      BY <1>22 DEF RollbackClose, Others
    <3> QED
      BY ONLY <3>1, <3>2, Zenon DEF Flags, Others
  <2>2. MetaNamesReadyTables'
    BY <1>22, Zenon DEF RollbackClose
  <2>3. HandlesBackCatalog'
    BY <1>22, Zenon DEF RollbackClose
  <2>4. Phase'
    BY <1>22, Zenon DEF RollbackClose
  <2>5. Statement'
    BY <1>22, Zenon DEF RollbackClose
  <2>6. Clean' /\ CleanFiles'
    BY <1>22, Zenon DEF RollbackClose
  <2> QED
    BY <2>1, <2>2, <2>3, <2>4, <2>5, <2>6, Zenon DEF IInv
<1>23. CASE RollbackDestroy
  <2>1. TypeOK'
    <3>1. Flags'
      BY <1>23, ZenonT(30) DEF RollbackDestroy, Flags
    <3>2. Others'
      BY <1>23 DEF RollbackDestroy, Others
    <3> QED
      BY ONLY <3>1, <3>2, Zenon DEF Flags, Others
  <2>2. MetaNamesReadyTables'
    BY <1>23, Zenon DEF RollbackDestroy
  <2>3. HandlesBackCatalog'
    BY <1>23 DEF RollbackDestroy
  <2>4. Phase'
    BY <1>23, Zenon DEF RollbackDestroy
  <2>5. Statement'
    BY <1>23, Zenon DEF RollbackDestroy
  <2>6. Clean' /\ CleanFiles'
    BY <1>23 DEF RollbackDestroy
  <2> QED
    BY <2>1, <2>2, <2>3, <2>4, <2>5, <2>6, Zenon DEF IInv
<1>24. CASE Crash
  <2>1. TypeOK'
    <3>1. Flags'
      BY <1>24, ZenonT(30) DEF Crash, Flags
    <3>2. Others'
      BY <1>24 DEF Crash, Others
    <3> QED
      BY ONLY <3>1, <3>2, Zenon DEF Flags, Others
  <2>2. MetaNamesReadyTables'
    BY <1>24, Zenon DEF Crash
  <2>3. HandlesBackCatalog'
    BY <1>24, Zenon DEF Crash
  <2>4. Phase'
    BY <1>24, Zenon DEF Crash
  <2>5. Statement'
    BY <1>24, Zenon DEF Crash
  <2>6. Clean' /\ CleanFiles'
    BY <1>24, Zenon DEF Crash
  <2> QED
    BY <2>1, <2>2, <2>3, <2>4, <2>5, <2>6, Zenon DEF IInv
<1>25. CASE Restart
  BY <1>25 DEF Restart
<1>26. ASSUME NEW t \in Tables, CreateTable(t) PROVE IInv'
  BY <1>26 DEF CreateTable
<1>27. CASE UNCHANGED vars \/ Refuse
  BY <1>27 DEF vars, Refuse
<1> HIDE DEF IInv
<1> QED
  BY <1>1, <1>2, <1>3, <1>4, <1>5, <1>6, <1>7, <1>8, <1>9, <1>10, <1>11,
     <1>12, <1>13, <1>14, <1>15, <1>16, <1>17, <1>18, <1>19, <1>20,
     <1>21, <1>22, <1>23, <1>24, <1>25, <1>26, <1>27, Zenon
  DEF Next

(* Catalog keeps its inductive invariant.                                  *)
THEOREM CatalogInvariant == Spec => []IInv
  BY InitInv, StepInv, PTL DEF Spec

(* The state of the catalog is well typed.                                 *)
THEOREM CatalogTypeCorrect == Spec => []TypeOK
<1>1. IInv => TypeOK
  BY Zenon DEF IInv
<1> QED
  BY <1>1, CatalogInvariant, PTL

(* However many calls fail and wherever the process is killed, a db.meta   *)
(* that can be parsed names only tables whose file is complete.            *)
THEOREM MetaAlwaysNamesReadyTables == Spec => []MetaNamesReadyTables
<1>1. IInv => MetaNamesReadyTables
  BY Zenon DEF IInv
<1> QED
  BY <1>1, CatalogInvariant, PTL

(* Every table of the catalog has a handle on an open, complete file.      *)
THEOREM HandlesAlwaysBackCatalog == Spec => []HandlesBackCatalog
<1>1. IInv => HandlesBackCatalog
  BY Zenon DEF IInv
<1> QED
  BY <1>1, CatalogInvariant, PTL

(* A failed create_table whose undo steps ran leaves no trace.             *)
THEOREM RollbackAlwaysComplete == Spec => []RollbackComplete
<1>1. IInv => RollbackComplete
  <2> SUFFICES ASSUME IInv, opened, pc = "idle", ~leaky, ~dropping
               PROVE  /\ fhs = db /\ open = db
                      /\ {t \in Tables : files[t] # "none"} = db
    BY Zenon DEF RollbackComplete
  <2>1. \A t \in Tables : /\ t \in fhs <=> t \in db
                          /\ t \in open <=> t \in db
                          /\ files[t] # "none" <=> t \in db
    BY Zenon DEF IInv, Clean, CleanFiles, WithHandle, WithOpenFile, CreateTablePCs
  <2> QED
    BY <2>1, Zenon DEF IInv, TypeOK
<1> QED
  BY <1>1, CatalogInvariant, PTL

-----------------------------------------------------------------------------
(* InsertRow: the rows of a table and the entries of its indexes.          *)
Working(s) == step[s] \in {"index", "undo"}

(* What a running INSERT knows: its row is encoded before it is used, its  *)
(* position is its own and holds its row, and its row has entries in the   *)
(* first done indexes and in no other.                                     *)
Running ==
    /\ \A s \in Sessions : step[s] # "idle" => row[s] \in Rows
    /\ \A s, t \in Sessions : rid[s] = rid[t] /\ rid[s] # NoRid => s = t
    /\ \A s \in Sessions : step[s] = "record" => done[s] = 0
    /\ \A s \in Sessions : step[s] = "idle" => done[s] = 0
    /\ \A s \in Sessions : Working(s) => records[rid[s]] = row[s]
    /\ \A s \in Sessions : Working(s) =>
          \A i \in 1..N : i <= done[s] => <<row[s][i], rid[s]>> \in entries[i]
    /\ \A s \in Sessions : Working(s) =>
          \A i \in 1..N : i > done[s] => \A e \in entries[i] : e[2] # rid[s]

RowInv == RowTypeOK /\ Running /\ EntriesPointToRecords /\ InsertAtomic /\ UniqueKeys

(* No INSERT runs and there is no row.                                     *)
LEMMA RowStarts == RowInit => RowInv
<1> SUFFICES ASSUME RowInit PROVE RowInv
  BY Zenon
<1> USE DEF RowInit
<1>1. RowTypeOK
  BY IndexAssumption, InsertBounds DEF RowTypeOK
<1>2. Running
  BY Zenon DEF Running, Working
<1>3. EntriesPointToRecords /\ InsertAtomic /\ UniqueKeys
  BY IndexAssumption, Zenon DEF EntriesPointToRecords, InsertAtomic, UniqueKeys
<1> QED BY <1>1, <1>2, <1>3, Zenon DEF RowInv

(* The checks and the encoding change nothing but the session.             *)
LEMMA EncodeInv ==
    ASSUME RowInv, NEW s \in Sessions, NEW r \in Rows, Encode(s, r)
    PROVE  RowInv'
<1> USE DEF RowInv, Encode, GoOn
<1>1. RowTypeOK'
  BY Zenon DEF RowTypeOK
<1>2. Running'
  BY NoneAssumption DEF RowTypeOK, Running, Working
<1>3. EntriesPointToRecords' /\ InsertAtomic' /\ UniqueKeys'
  BY DEF EntriesPointToRecords, InsertAtomic, UniqueKeys
<1> QED BY <1>1, <1>2, <1>3, Zenon

(* insert_record: the position was free, so no entry leads to it.          *)
LEMMA InsertRecordInv ==
    ASSUME RowInv, NEW s \in Sessions, InsertRecord(s)
    PROVE  RowInv'
<1>a. RowTypeOK /\ Running /\ EntriesPointToRecords /\ InsertAtomic /\ UniqueKeys
  BY Zenon DEF RowInv
<1>b. entries' = entries /\ damaged' = damaged
  BY Zenon DEF InsertRecord
<1>1. CASE Leave(s, "record") /\ records' = records /\ rowFaults' \in 0..MaxRowFaults
  <2> USE <1>a, <1>b, <1>1 DEF Leave, GoOn
  <2>1. RowTypeOK'
    BY IndexAssumption DEF RowTypeOK
  <2>2. Running'
    BY DEF RowTypeOK, Running, Working
  <2>3. EntriesPointToRecords' /\ UniqueKeys'
    BY Zenon DEF EntriesPointToRecords, UniqueKeys
  <2>4. InsertAtomic'
    BY Zenon DEF InsertAtomic, RowTypeOK
  <2> QED BY <2>1, <2>2, <2>3, <2>4, Zenon DEF RowInv
<1>2. ASSUME NEW r \in Rids, records[r] = NoRow, GoOn(s, "record", "index"),
             rid' = [rid EXCEPT ![s] = r], records' = [records EXCEPT ![r] = row[s]],
             UNCHANGED <<row, done, rowFaults>>
      PROVE  RowInv'
  <2>a. row[s] \in Rows /\ done[s] = 0 /\ rid[s] = NoRid
    <3>1. step[s] = "record"
      BY <1>2, Zenon DEF GoOn
    <3>2. row[s] \in Rows /\ done[s] = 0
      BY <1>a, <3>1, Zenon DEF Running
    <3> QED BY <1>a, <3>1, <3>2, Zenon DEF RowTypeOK
  <2>b. \A i \in 1..N : \A e \in entries[i] : e[2] # r
    BY <1>a, <1>2, Zenon DEF EntriesPointToRecords
  <2>c. \A t \in Sessions : rid[t] # r
    <3> SUFFICES ASSUME NEW t \in Sessions, rid[t] = r PROVE FALSE
      BY Zenon
    <3>1. Working(t)
      BY <1>a, NoneAssumption, Zenon DEF RowTypeOK, Working
    <3>2. row[t] \in Rows /\ records[rid[t]] = row[t]
      BY <1>a, <3>1, Zenon DEF Running, Working
    <3> QED BY <1>2, <3>2, NoneAssumption, Zenon
  <2>d. r # NoRid
    BY NoneAssumption, Zenon
  <2>1. RowTypeOK'
    BY <1>a, <1>b, <1>2, <2>a, <2>d, Zenon DEF RowTypeOK, GoOn
  <2>2. Running'
    BY <1>a, <1>b, <1>2, <2>a, <2>b, <2>c, <2>d, IndexAssumption DEF Running, Working, RowTypeOK, GoOn
  <2>3. EntriesPointToRecords'
    BY <1>a, <1>b, <1>2, <2>b DEF EntriesPointToRecords, RowTypeOK
  <2>4. InsertAtomic'
    <3> SUFFICES ASSUME NEW q \in Rids \ damaged, records'[q] # NoRow,
                        \A t \in Sessions : rid'[t] # q, NEW i \in 1..N
                 PROVE  <<records'[q][i], q>> \in entries[i]
      BY <1>b, Zenon DEF InsertAtomic
    <3>1. q # r /\ records'[q] = records[q]
      BY <1>a, <1>2, Zenon DEF RowTypeOK
    <3>2. \A t \in Sessions : rid[t] # q
      BY <1>a, <1>2, <2>a, NoneAssumption, Zenon DEF RowTypeOK
    <3> QED BY <1>a, <3>1, <3>2, Zenon DEF InsertAtomic
  <2>5. UniqueKeys'
    BY <1>a, <1>b, Zenon DEF UniqueKeys
  <2> QED BY <2>1, <2>2, <2>3, <2>4, <2>5, Zenon DEF RowInv
<1>3. CASE Leave(s, "record") /\ RowFault /\ UNCHANGED records
  BY <1>1, <1>3, <1>a, InsertBounds DEF RowFault, RowTypeOK
<1>4. CASE Leave(s, "record") /\ UNCHANGED <<records, rowFaults>>
  BY <1>1, <1>4, <1>a, Zenon DEF RowTypeOK
<1> QED BY <1>2, <1>3, <1>4, Zenon DEF InsertRecord

(* insert_entry: either the next index gets the entry, and a unique one    *)
(* had no entry with that key, or the INSERT turns to its undo.            *)
LEMMA InsertEntryInv ==
    ASSUME RowInv, NEW s \in Sessions, InsertEntry(s)
    PROVE  RowInv'
<1>a. RowTypeOK /\ Running /\ EntriesPointToRecords /\ InsertAtomic /\ UniqueKeys
  BY Zenon DEF RowInv
<1>b. UNCHANGED <<row, rid, records, damaged>> /\ done[s] < N
  BY Zenon DEF InsertEntry
<1> DEFINE i == done[s] + 1
<1>c. i \in 1..N /\ done[s] \in 0..N
  BY <1>a, <1>b, IndexAssumption DEF RowTypeOK
<1>1. CASE /\ GoOn(s, "index", "index")
           /\ ~(i \in Unique /\ HasKey(i, row[s][i]))
           /\ entries' = [entries EXCEPT ![i] = @ \cup {KeyOf(s, i)}]
           /\ done' = [done EXCEPT ![s] = i]
           /\ UNCHANGED rowFaults
  <2> HIDE DEF i
  <2>a. row[s] \in Rows /\ records[rid[s]] = row[s] /\ rid[s] \in Rids /\ step[s] = "index"
    BY <1>a, <1>1 DEF Running, Working, GoOn, RowTypeOK
  <2>b. row[s][i] \in Keys /\ row[s] # NoRow
    BY <1>c, <2>a, NoneAssumption, Zenon DEF Rows
  <2>c. \A j \in 1..N : entries'[j] = IF j = i THEN entries[j] \cup {<<row[s][i], rid[s]>>} ELSE entries[j]
    BY <1>a, <1>1, Zenon DEF RowTypeOK, KeyOf
  <2>d. step' = step
    BY <1>a, <1>1, Zenon DEF GoOn, RowTypeOK
  <2> DEFINE new == <<row[s][i], rid[s]>>
  <2>e. new \in Keys \X Rids /\ new[1] = row[s][i] /\ new[2] = rid[s]
    BY <2>a, <2>b, Zenon
  <2>f. \A j \in 1..N : \A e \in entries'[j] : e \in entries[j] \/ (j = i /\ e = new)
    BY <2>c, Zenon
  <2>g. \A j \in 1..N : entries[j] \subseteq entries'[j]
    BY <2>c, Zenon
  <2>h. new \in entries'[i]
    BY <1>c, <2>c, Zenon
  <2>1. RowTypeOK'
    <3>1. entries' \in [1..N -> SUBSET (Keys \X Rids)]
      <4>1. entries[i] \cup {new} \in SUBSET (Keys \X Rids)
        BY <1>a, <1>c, <2>e, Zenon DEF RowTypeOK
      <4>2. entries' = [entries EXCEPT ![i] = entries[i] \cup {new}]
        BY <1>1, Zenon DEF KeyOf
      <4> HIDE DEF new
      <4> QED BY <1>a, <4>1, <4>2, Zenon DEF RowTypeOK
    <3>2. done' \in [Sessions -> 0..N]
      BY <1>a, <1>1, <1>c DEF RowTypeOK
    <3> QED BY <1>a, <1>b, <1>1, <2>d, <3>1, <3>2, Zenon DEF RowTypeOK
  <2>2. Running'
    <3>1. \A t \in Sessions \ {s} : done'[t] = done[t]
      BY <1>a, <1>1, Zenon DEF RowTypeOK
    <3>2. done'[s] = i /\ i = done[s] + 1
      BY <1>a, <1>1, Zenon DEF RowTypeOK, i
    <3>3. ASSUME NEW t \in Sessions, Working(t), NEW j \in 1..N, j <= done'[t]
          PROVE  <<row[t][j], rid[t]>> \in entries'[j]
      <4>1. CASE t = s /\ j = i
        BY <2>h, <4>1, Zenon
      <4>2. CASE t # s \/ j # i
        <5>1. j <= done[t]
          BY <1>c, <3>1, <3>2, <3>3, <4>2
        <5>2. <<row[t][j], rid[t]>> \in entries[j]
          BY <1>a, <3>3, <5>1, Zenon DEF Running
        <5> QED BY <2>g, <5>2, Zenon
      <4> QED BY <4>1, <4>2, Zenon
    <3>4. ASSUME NEW t \in Sessions, Working(t), NEW j \in 1..N, j > done'[t]
          PROVE  \A e \in entries'[j] : e[2] # rid[t]
      <4>1. CASE t = s
        <5>1. j # i /\ j > done[t]
          BY <1>c, <3>2, <3>4, <4>1
        <5> QED BY <1>a, <2>f, <3>4, <5>1, Zenon DEF Running
      <4>2. CASE t # s
        <5>1. rid[t] # rid[s]
          BY <1>a, <2>a, <4>2, NoneAssumption DEF Running
        <5>2. \A e \in entries[j] : e[2] # rid[t]
          BY <1>a, <3>1, <3>4, <4>2, Zenon DEF Running
        <5> HIDE DEF new
        <5> QED BY <2>e, <2>f, <5>1, <5>2, Zenon
      <4> QED BY <4>1, <4>2, Zenon
    <3>5. \A t \in Sessions : (step[t] = "record" => done'[t] = 0) /\ (step[t] = "idle" => done'[t] = 0)
      BY <1>a, <2>a, <3>1, Zenon DEF Running
    <3> QED BY <1>a, <1>b, <2>d, <3>3, <3>4, <3>5 DEF Running, Working
  <2>3. EntriesPointToRecords'
    <3>1. records[new[2]] # NoRow /\ records[new[2]][i] = new[1]
      BY <2>a, <2>b, <2>e, Zenon
    <3> HIDE DEF new
    <3> QED BY <1>a, <1>b, <2>f, <3>1, Zenon DEF EntriesPointToRecords
  <2>4. InsertAtomic'
    BY <1>a, <1>b, <2>c, ZenonT(30) DEF InsertAtomic
  <2>5. UniqueKeys'
    <3>1. i \in Unique => \A e \in entries[i] : e[1] # row[s][i]
      BY <1>1, Zenon DEF HasKey
    <3> SUFFICES ASSUME NEW j \in Unique, NEW e \in entries'[j], NEW f \in entries'[j], e[1] = f[1]
                 PROVE  e = f
      BY Zenon DEF UniqueKeys
    <3>2. j \in 1..N
      BY IndexAssumption, Zenon
    <3> HIDE DEF new
    <3> QED BY <1>a, <2>e, <2>f, <3>1, <3>2 DEF UniqueKeys
  <2> QED BY <2>1, <2>2, <2>3, <2>4, <2>5, Zenon DEF RowInv
<1>2. CASE GoOn(s, "index", "undo") /\ UNCHANGED <<entries, done>> /\ rowFaults' \in 0..MaxRowFaults
  <2> USE <1>a, <1>b, <1>2 DEF GoOn
  <2>1. RowTypeOK'
    BY Zenon DEF RowTypeOK
  <2>2. Running'
    BY DEF RowTypeOK, Running, Working
  <2>3. EntriesPointToRecords' /\ InsertAtomic' /\ UniqueKeys'
    BY Zenon DEF EntriesPointToRecords, InsertAtomic, UniqueKeys
  <2> QED BY <2>1, <2>2, <2>3, Zenon DEF RowInv
<1>3. rowFaults \in 0..MaxRowFaults /\ (RowFault => rowFaults' \in 0..MaxRowFaults)
  BY <1>a, InsertBounds DEF RowTypeOK, RowFault
<1> QED BY <1>1, <1>2, <1>3, Zenon DEF InsertEntry

(* The end of an INSERT: its position is left with an entry in every       *)
(* index, or is recorded as damaged, or holds no record any more.          *)
LEMMA LeaveRunning ==
    ASSUME RowTypeOK, Running, NEW s \in Sessions, NEW from, Leave(s, from),
           NEW gone \in {TRUE, FALSE}, gone => from = "undo",
           records' = IF gone THEN [records EXCEPT ![rid[s]] = NoRow] ELSE records,
           entries' = entries
    PROVE  Running'
<1>1. \A t \in Sessions \ {s} : /\ step'[t] = step[t] /\ row'[t] = row[t]
                                /\ rid'[t] = rid[t] /\ done'[t] = done[t]
  BY Zenon DEF Leave, GoOn, RowTypeOK
<1>2. step'[s] = "idle" /\ rid'[s] = NoRid /\ done'[s] = 0
  BY Zenon DEF Leave, GoOn, RowTypeOK
<1>3. \A t \in Sessions \ {s} : Working(t) => rid[t] # rid[s] /\ rid[t] \in Rids
  BY DEF Running, Working, RowTypeOK
<1>4. \A t \in Sessions \ {s} : Working(t) => records'[rid[t]] = records[rid[t]]
  BY <1>3, Zenon DEF RowTypeOK
<1>5. \A t \in Sessions : Working(t)' => t # s /\ Working(t)
  BY <1>1, <1>2, Zenon DEF Working
<1>6. \A t \in Sessions : step'[t] # "idle" => row'[t] \in Rows
  BY <1>1, <1>2, Zenon DEF Running
<1>7. \A t, u \in Sessions : rid'[t] = rid'[u] /\ rid'[t] # NoRid => t = u
  BY <1>1, <1>2 DEF Running
<1>8. \A t \in Sessions : step'[t] \in {"record", "idle"} => done'[t] = 0
  BY <1>1, <1>2 DEF Running
<1>9. ASSUME NEW t \in Sessions, Working(t)'
      PROVE  /\ records'[rid'[t]] = row'[t]
             /\ \A i \in 1..N : i <= done'[t] => <<row'[t][i], rid'[t]>> \in entries'[i]
             /\ \A i \in 1..N : i > done'[t] => \A e \in entries'[i] : e[2] # rid'[t]
  <2>1. t \in Sessions \ {s} /\ Working(t)
    BY <1>5, <1>9, Zenon
  <2> QED BY <1>1, <1>4, <2>1 DEF Running
<1> QED BY <1>6, <1>7, <1>8, <1>9, Zenon DEF Running

(* next() returns: all indexes have the row.                               *)
LEMMA FinishInv ==
    ASSUME RowInv, NEW s \in Sessions, Finish(s)
    PROVE  RowInv'
<1>a. RowTypeOK /\ Running /\ EntriesPointToRecords /\ InsertAtomic /\ UniqueKeys
  BY Zenon DEF RowInv
<1>b. UNCHANGED <<records, entries, damaged, rowFaults>> /\ done[s] = N /\ Leave(s, "index")
  BY Zenon DEF Finish
<1>1. RowTypeOK'
  BY <1>a, <1>b, IndexAssumption DEF RowTypeOK, Leave, GoOn
<1>2. Running'
  BY <1>a, <1>b, LeaveRunning, Zenon
<1>3. EntriesPointToRecords' /\ UniqueKeys'
  BY <1>a, <1>b, Zenon DEF EntriesPointToRecords, UniqueKeys
<1>4. InsertAtomic'
  <2>1. \A i \in 1..N : <<records[rid[s]][i], rid[s]>> \in entries[i]
    BY <1>a, <1>b DEF Running, Working, Leave, GoOn
  <2>2. \A t \in Sessions \ {s} : rid'[t] = rid[t]
    BY <1>a, <1>b, Zenon DEF Leave, RowTypeOK
  <2> SUFFICES ASSUME NEW q \in Rids \ damaged, records[q] # NoRow,
                      \A t \in Sessions : rid'[t] # q
               PROVE  \A i \in 1..N : <<records[q][i], q>> \in entries[i]
    BY <1>b, Zenon DEF InsertAtomic
  <2>3. CASE q = rid[s]
    BY <2>1, <2>3, Zenon
  <2>4. CASE q # rid[s]
    <3>1. \A t \in Sessions : rid[t] # q
      BY <2>2, <2>4, Zenon
    <3> QED BY <1>a, <3>1, Zenon DEF InsertAtomic
  <2> QED BY <2>3, <2>4, Zenon
<1> QED BY <1>1, <1>2, <1>3, <1>4, Zenon DEF RowInv

(* delete_entry: the last index loses its only entry for the position, or  *)
(* an exception ends the undo and the position is damaged.                 *)
LEMMA DeleteEntryInv ==
    ASSUME RowInv, NEW s \in Sessions, DeleteEntry(s)
    PROVE  RowInv'
<1>a. RowTypeOK /\ Running /\ EntriesPointToRecords /\ InsertAtomic /\ UniqueKeys
  BY Zenon DEF RowInv
<1>b. records' = records /\ done[s] > 0 /\ step[s] = "undo"
  BY Zenon DEF DeleteEntry, Leave, GoOn
<1>c. done[s] \in 1..N /\ rid[s] \in Rids /\ records[rid[s]] = row[s] /\ row[s] \in Rows
  BY <1>a, <1>b, IndexAssumption DEF RowTypeOK, Running, Working
<1> DEFINE i == done[s]
<1>1. CASE /\ GoOn(s, "undo", "undo")
           /\ entries' = [entries EXCEPT ![i] = @ \ {KeyOf(s, i)}]
           /\ done' = [done EXCEPT ![s] = @ - 1]
           /\ UNCHANGED <<row, rid, damaged, rowFaults>>
  <2>a. \A j \in 1..N : entries'[j] = IF j = i THEN entries[j] \ {<<row[s][i], rid[s]>>} ELSE entries[j]
    BY <1>a, <1>1, Zenon DEF RowTypeOK, KeyOf
  <2>b. step' = step
    BY <1>a, <1>1, Zenon DEF GoOn, RowTypeOK
  <2>c. done'[s] = i - 1 /\ \A t \in Sessions \ {s} : done'[t] = done[t]
    BY <1>a, <1>1, Zenon DEF RowTypeOK
  <2>d. \A e \in entries[i] : e[2] = rid[s] => e = <<row[s][i], rid[s]>>
    BY <1>a, <1>c DEF EntriesPointToRecords, RowTypeOK
  <2>e. \A j \in 1..N : entries'[j] \subseteq entries[j]
    BY <2>a, Zenon
  <2>f. \A j \in 1..N : \A e \in entries[j] : e \in entries'[j] \/ (j = i /\ e = <<row[s][i], rid[s]>>)
    BY <2>a, Zenon
  <2>g. <<row[s][i], rid[s]>> \notin entries'[i]
    BY <1>c, <2>a, Zenon
  <2>1. RowTypeOK'
    <3>1. entries' \in [1..N -> SUBSET (Keys \X Rids)]
      BY <1>a, <1>1, <1>c, Zenon DEF RowTypeOK
    <3>2. done' \in [Sessions -> 0..N]
      BY <1>a, <1>1, <1>c, IndexAssumption DEF RowTypeOK
    <3> QED BY <1>a, <1>b, <1>1, <2>b, <3>1, <3>2, Zenon DEF RowTypeOK
  <2>2. Running'
    <3>1. ASSUME NEW t \in Sessions, Working(t), NEW j \in 1..N, j <= done'[t]
          PROVE  <<row[t][j], rid[t]>> \in entries'[j]
      <4>1. CASE t = s
        <5>1. j # i /\ j <= done[t]
          BY <1>c, <2>c, <3>1, <4>1
        <5>2. <<row[t][j], rid[t]>> \in entries[j]
          BY <1>a, <3>1, <5>1, Zenon DEF Running
        <5> QED BY <2>f, <5>1, <5>2, Zenon
      <4>2. CASE t # s
        <5>1. rid[t] # rid[s]
          BY <1>a, <1>c, <4>2, NoneAssumption, Zenon DEF Running
        <5> QED BY <1>a, <2>a, <2>c, <3>1, <4>2, <5>1, ZenonT(30) DEF Running
      <4> QED BY <4>1, <4>2, Zenon
    <3>2. ASSUME NEW t \in Sessions, Working(t), NEW j \in 1..N, j > done'[t]
          PROVE  \A e \in entries'[j] : e[2] # rid[t]
      <4>1. CASE t = s
        <5>1. CASE j = i
          BY <1>c, <2>d, <2>e, <2>g, <4>1, <5>1, Zenon
        <5>2. CASE j # i
          <6>1. j > done[t]
            BY <1>c, <2>c, <3>2, <4>1, <5>2
          <6> QED BY <1>a, <2>e, <3>2, <6>1, Zenon DEF Running
        <5> QED BY <5>1, <5>2, Zenon
      <4>2. CASE t # s
        <5>1. \A e \in entries[j] : e[2] # rid[t]
          BY <1>a, <2>c, <3>2, <4>2, Zenon DEF Running
        <5> QED BY <2>e, <5>1, Zenon
      <4> QED BY <4>1, <4>2, Zenon
    <3>3. \A t \in Sessions : (step[t] = "record" => done'[t] = 0) /\ (step[t] = "idle" => done'[t] = 0)
      BY <1>a, <1>b, <2>c, Zenon DEF Running
    <3> QED BY <1>a, <1>b, <1>1, <2>b, <3>1, <3>2, <3>3, Zenon DEF Running, Working
  <2>3. EntriesPointToRecords'
    BY <1>a, <1>b, <2>a, ZenonT(30) DEF EntriesPointToRecords
  <2>4. InsertAtomic'
    <3> SUFFICES ASSUME NEW q \in Rids \ damaged, records[q] # NoRow,
                        \A t \in Sessions : rid[t] # q, NEW j \in 1..N
                 PROVE  <<records[q][j], q>> \in entries'[j]
      BY <1>b, <1>1, Zenon DEF InsertAtomic
    <3>1. <<records[q][j], q>> \in entries[j] /\ rid[s] # q
      BY <1>a, Zenon DEF InsertAtomic
    <3> QED BY <2>f, <3>1, Zenon
  <2>5. UniqueKeys'
    BY <1>a, <2>a, IndexAssumption, ZenonT(30) DEF UniqueKeys
  <2> QED BY <2>1, <2>2, <2>3, <2>4, <2>5, Zenon DEF RowInv
<1>2. CASE Leave(s, "undo") /\ RowFault /\ damaged' = damaged \cup {rid[s]} /\ entries' = entries
  <2>1. RowTypeOK'
    BY <1>a, <1>b, <1>c, <1>2, IndexAssumption, InsertBounds DEF RowTypeOK, Leave, GoOn, RowFault
  <2>2. Running'
    BY <1>a, <1>b, <1>2, LeaveRunning, Zenon
  <2>3. EntriesPointToRecords' /\ UniqueKeys'
    BY <1>a, <1>b, <1>2, Zenon DEF EntriesPointToRecords, UniqueKeys
  <2>4. InsertAtomic'
    BY <1>a, <1>b, <1>2, Zenon DEF InsertAtomic, Leave, RowTypeOK
  <2> QED BY <2>1, <2>2, <2>3, <2>4, Zenon DEF RowInv
<1> QED BY <1>1, <1>2, Zenon DEF DeleteEntry

(* delete_record: no entry leads to the position any more.                 *)
LEMMA DeleteRecordInv ==
    ASSUME RowInv, NEW s \in Sessions, DeleteRecord(s)
    PROVE  RowInv'
<1>a. RowTypeOK /\ Running /\ EntriesPointToRecords /\ InsertAtomic /\ UniqueKeys
  BY Zenon DEF RowInv
<1>b. entries' = entries /\ done[s] = 0 /\ Leave(s, "undo") /\ step[s] = "undo"
  BY Zenon DEF DeleteRecord, Leave, GoOn
<1>c. rid[s] \in Rids
  BY <1>a, <1>b, Zenon DEF RowTypeOK
<1>d. \A t \in Sessions \ {s} : rid'[t] = rid[t]
  BY <1>a, <1>b, Zenon DEF Leave, RowTypeOK
<1>1. CASE records' = [records EXCEPT ![rid[s]] = NoRow] /\ UNCHANGED <<damaged, rowFaults>>
  <2>1. RowTypeOK'
    BY <1>a, <1>b, <1>c, <1>1, IndexAssumption, Zenon DEF RowTypeOK, Leave, GoOn
  <2>2. Running'
    BY <1>a, <1>b, <1>1, LeaveRunning, ZenonT(30)
  <2>3. UniqueKeys'
    BY <1>a, <1>b, Zenon DEF UniqueKeys
  <2>4. EntriesPointToRecords'
    <3>1. \A i \in 1..N : \A e \in entries[i] : e[2] # rid[s]
      BY <1>a, <1>b DEF Running, Working
    <3> SUFFICES ASSUME NEW i \in 1..N, NEW e \in entries[i]
                 PROVE  records'[e[2]] # NoRow /\ records'[e[2]][i] = e[1]
      BY <1>b, Zenon DEF EntriesPointToRecords
    <3>2. e[2] \in Rids /\ e[2] # rid[s]
      BY <1>a, <3>1 DEF RowTypeOK
    <3>3. records \in [Rids -> Rows \cup {NoRow}]
      BY <1>a, Zenon DEF RowTypeOK
    <3>4. records'[e[2]] = records[e[2]]
      BY <1>1, <3>2, <3>3, Zenon
    <3>5. records[e[2]] # NoRow /\ records[e[2]][i] = e[1]
      BY <1>a, Zenon DEF EntriesPointToRecords
    <3> QED BY <3>4, <3>5, Zenon
  <2>5. InsertAtomic'
    <3> SUFFICES ASSUME NEW q \in Rids \ damaged, records'[q] # NoRow,
                        \A t \in Sessions : rid'[t] # q, NEW i \in 1..N
                 PROVE  <<records'[q][i], q>> \in entries[i]
      BY <1>b, <1>1, Zenon DEF InsertAtomic
    <3>1. q # rid[s] /\ records'[q] = records[q]
      BY <1>a, <1>1, Zenon DEF RowTypeOK
    <3>2. \A t \in Sessions : rid[t] # q
      BY <1>d, <3>1, Zenon
    <3> QED BY <1>a, <3>1, <3>2, Zenon DEF InsertAtomic
  <2> QED BY <2>1, <2>2, <2>3, <2>4, <2>5, Zenon DEF RowInv
<1>2. CASE RowFault /\ damaged' = damaged \cup {rid[s]} /\ UNCHANGED records
  <2>1. RowTypeOK'
    BY <1>a, <1>b, <1>c, <1>2, IndexAssumption, InsertBounds DEF RowTypeOK, Leave, GoOn, RowFault
  <2>2. Running'
    BY <1>a, <1>b, <1>2, LeaveRunning, Zenon
  <2>3. EntriesPointToRecords' /\ UniqueKeys'
    BY <1>a, <1>b, <1>2, Zenon DEF EntriesPointToRecords, UniqueKeys
  <2>4. InsertAtomic'
    <3> SUFFICES ASSUME NEW q \in Rids \ damaged', records[q] # NoRow,
                        \A t \in Sessions : rid'[t] # q
                 PROVE  \A i \in 1..N : <<records[q][i], q>> \in entries[i]
      BY <1>b, <1>2, Zenon DEF InsertAtomic
    <3>1. q \in Rids \ damaged /\ q # rid[s]
      BY <1>2, Zenon
    <3>2. \A t \in Sessions : rid[t] # q
      BY <1>d, <3>1, Zenon
    <3> QED BY <1>a, <3>1, <3>2, Zenon DEF InsertAtomic
  <2> QED BY <2>1, <2>2, <2>3, <2>4, Zenon DEF RowInv
<1> QED BY <1>1, <1>2, Zenon DEF DeleteRecord

(* The invariant of InsertExecutor::next run by any number of sessions:    *)
(* every step keeps it.                                                    *)
THEOREM InsertInvariant == RowSpec => []RowInv
<1>1. ASSUME RowInv, [RowNext]_rowVars
      PROVE  RowInv'
  <2>1. CASE UNCHANGED rowVars
    <3> USE <1>1, <2>1 DEF rowVars, RowInv
    <3>1. RowTypeOK' /\ Running'
      BY Zenon DEF RowTypeOK, Running, Working
    <3>2. EntriesPointToRecords' /\ InsertAtomic' /\ UniqueKeys'
      BY Zenon DEF EntriesPointToRecords, InsertAtomic, UniqueKeys
    <3> QED BY <3>1, <3>2, Zenon
  <2>2. CASE RowNext
    BY <1>1, <2>2, EncodeInv, InsertRecordInv, InsertEntryInv, FinishInv, DeleteEntryInv, DeleteRecordInv, Zenon DEF RowNext
  <2> QED BY <1>1, <2>1, <2>2, Zenon
<1> HIDE DEF RowInv
<1> QED BY RowStarts, <1>1, PTL DEF RowSpec

(* The locals of next(), the table and the trees keep their types, and     *)
(* rid_ is a record's position exactly while the row is worked on.         *)
THEOREM InsertTypeCorrect == RowSpec => []RowTypeOK
<1>1. RowInv => RowTypeOK
  BY Zenon DEF RowInv
<1> QED BY <1>1, InsertInvariant, PTL

(* No tree leads to an empty position or to a row with another key, for    *)
(* any number of sessions inserting and undoing side by side.              *)
THEOREM EntriesAlwaysPointToRecords == RowSpec => []EntriesPointToRecords
<1>1. RowInv => EntriesPointToRecords
  BY Zenon DEF RowInv
<1> QED BY <1>1, InsertInvariant, PTL

(* INSERT is all or nothing as long as its undo is not cut short.          *)
THEOREM InsertAlwaysAtomic == RowSpec => []InsertAtomic
<1>1. RowInv => InsertAtomic
  BY Zenon DEF RowInv
<1> QED BY <1>1, InsertInvariant, PTL

(* A unique index never holds two positions under one key.                 *)
THEOREM KeysStayUnique == RowSpec => []UniqueKeys
<1>1. RowInv => UniqueKeys
  BY Zenon DEF RowInv
<1> QED BY <1>1, InsertInvariant, PTL
=============================================================================
