------------------------------ MODULE InsertRow ------------------------------
(***************************************************************************)
(* InsertExecutor::next (execution/executor_insert.h): one row goes into   *)
(* the table and into every index of it, by several sessions at a time.    *)
(* Until the transactions of a later lab exist nothing but the record file *)
(* and the trees themselves orders the sessions.                           *)
(*                                                                         *)
(* insert_record, insert_entry, delete_entry and delete_record are lab     *)
(* exercises.  They appear by their contract, each as one step that may    *)
(* also throw; a unique tree throws DuplicateKeyError for a key it has.    *)
(***************************************************************************)
EXTENDS Naturals

CONSTANTS Sessions,
          Rids,        \* record positions of the table
          N,           \* number of indexes, in the order of tab_.indexes
          Unique,      \* those declared unique
          Keys,
          NoRow, NoRid,
          MaxRowFaults \* bound on exceptions other than DuplicateKeyError

ASSUME IndexAssumption == N \in Nat /\ Unique \subseteq 1..N
ASSUME InsertBounds == MaxRowFaults \in Nat

Rows == [1..N -> Keys]
ASSUME NoneAssumption == NoRow \notin Rows /\ NoRid \notin Rids

VARIABLES
    step,       \* per session: its step
    row,        \* per session: rec, by the key each index makes of it
    rid,        \* per session: rid_
    done,       \* per session: size of inserted
    records,    \* the table: row at each position, or NoRow
    entries,    \* per index: its <<key, rid>> pairs
    damaged,    \* history: positions whose undo was cut short by an exception
    rowFaults

rowVars == <<step, row, rid, done, records, entries, damaged, rowFaults>>

RowInit ==
    /\ step = [s \in Sessions |-> "idle"]
    /\ row = [s \in Sessions |-> NoRow]
    /\ rid = [s \in Sessions |-> NoRid]
    /\ done = [s \in Sessions |-> 0]
    /\ records = [r \in Rids |-> NoRow]
    /\ entries = [i \in 1..N |-> {}]
    /\ damaged = {}
    /\ rowFaults = 0

GoOn(s, from, to) == step[s] = from /\ step' = [step EXCEPT ![s] = to]

RowFault == rowFaults < MaxRowFaults /\ rowFaults' = rowFaults + 1

(* next() returns or throws: its locals are gone.                          *)
Leave(s, from) ==
    /\ GoOn(s, from, "idle")
    /\ row' = [row EXCEPT ![s] = NoRow]
    /\ rid' = [rid EXCEPT ![s] = NoRid]
    /\ done' = [done EXCEPT ![s] = 0]

(* The values pass the checks and are encoded into rec.  If a check fails  *)
(* next() throws before it has changed anything.                           *)
Encode(s, r) ==
    /\ GoOn(s, "idle", "record")
    /\ row' = [row EXCEPT ![s] = r]
    /\ UNCHANGED <<rid, done, records, entries, damaged, rowFaults>>

(* rid_ = fh_->insert_record(...); it throws when there is no room.        *)
InsertRecord(s) ==
    /\ \/ \E r \in Rids :
             /\ records[r] = NoRow
             /\ GoOn(s, "record", "index")
             /\ rid' = [rid EXCEPT ![s] = r]
             /\ records' = [records EXCEPT ![r] = row[s]]
             /\ UNCHANGED <<row, done, rowFaults>>
       \/ Leave(s, "record") /\ RowFault /\ UNCHANGED records
       \/ /\ Leave(s, "record") /\ \A r \in Rids : records[r] # NoRow
          /\ UNCHANGED <<records, rowFaults>>
    /\ UNCHANGED <<entries, damaged>>

KeyOf(s, i) == <<row[s][i], rid[s]>>
HasKey(i, key) == \E e \in entries[i] : e[1] = key

(* Mutant: a duplicate key is noticed only after it went in.               *)
InsertEntryFirst(s) ==
    /\ step[s] = "index" /\ done[s] < N
    /\ LET i == done[s] + 1
       IN  /\ entries' = [entries EXCEPT ![i] = @ \cup {KeyOf(s, i)}]
           /\ IF i \in Unique /\ HasKey(i, row[s][i])
              THEN GoOn(s, "index", "undo") /\ UNCHANGED done
              ELSE GoOn(s, "index", "index") /\ done' = [done EXCEPT ![s] = i]
    /\ UNCHANGED <<row, rid, records, damaged, rowFaults>>

(* ih->insert_entry(...), and inserted.emplace_back when it did not throw. *)
InsertEntry(s) ==
    /\ done[s] < N
    /\ LET i == done[s] + 1
       IN  \/ /\ GoOn(s, "index", "index")
              /\ ~(i \in Unique /\ HasKey(i, row[s][i]))
              /\ entries' = [entries EXCEPT ![i] = @ \cup {KeyOf(s, i)}]
              /\ done' = [done EXCEPT ![s] = i]
              /\ UNCHANGED rowFaults
           \/ /\ GoOn(s, "index", "undo")
              /\ i \in Unique /\ HasKey(i, row[s][i])
              /\ UNCHANGED <<entries, done, rowFaults>>
           \/ GoOn(s, "index", "undo") /\ RowFault /\ UNCHANGED <<entries, done>>
    /\ UNCHANGED <<row, rid, records, damaged>>

(* All indexes have the row.                                               *)
Finish(s) ==
    /\ done[s] = N
    /\ Leave(s, "index")
    /\ UNCHANGED <<records, entries, damaged, rowFaults>>

(* Mutant: the undo stops before the first index.                          *)
DeleteEntryOffByOne(s) ==
    /\ done[s] > 0
    /\ GoOn(s, "undo", "undo")
    /\ entries' = [entries EXCEPT ![done[s]] = IF done[s] = 1 THEN @ ELSE @ \ {KeyOf(s, done[s])}]
    /\ done' = [done EXCEPT ![s] = @ - 1]
    /\ UNCHANGED <<row, rid, records, damaged, rowFaults>>

(* catch: delete_entry for the indexes that have the row, the last first;  *)
(* an exception here leaves the handler.                                   *)
DeleteEntry(s) ==
    /\ done[s] > 0
    /\ \/ /\ GoOn(s, "undo", "undo")
          /\ entries' = [entries EXCEPT ![done[s]] = @ \ {KeyOf(s, done[s])}]
          /\ done' = [done EXCEPT ![s] = @ - 1]
          /\ UNCHANGED <<row, rid, damaged, rowFaults>>
       \/ /\ Leave(s, "undo") /\ RowFault
          /\ damaged' = damaged \cup {rid[s]}
          /\ UNCHANGED entries
    /\ UNCHANGED records

(* Mutant: the record stays when its indexes refused it.                   *)
KeepRecord(s) ==
    /\ done[s] = 0
    /\ Leave(s, "undo")
    /\ UNCHANGED <<records, entries, damaged, rowFaults>>

(* catch: delete_record, then the exception goes on to the caller.         *)
DeleteRecord(s) ==
    /\ done[s] = 0
    /\ Leave(s, "undo")
    /\ \/ records' = [records EXCEPT ![rid[s]] = NoRow] /\ UNCHANGED <<damaged, rowFaults>>
       \/ RowFault /\ damaged' = damaged \cup {rid[s]} /\ UNCHANGED records
    /\ UNCHANGED entries

RowNext == \E s \in Sessions :
    \/ \E r \in Rows : Encode(s, r)
    \/ InsertRecord(s) \/ InsertEntry(s) \/ Finish(s)
    \/ DeleteEntry(s) \/ DeleteRecord(s)

RowSpec == RowInit /\ [][RowNext]_rowVars

-----------------------------------------------------------------------------
(* Types of the sessions' locals, the table and its indexes; rid_ is the   *)
(* position of a record exactly between insert_record and the end.         *)
RowTypeOK ==
    /\ step \in [Sessions -> {"idle", "record", "index", "undo"}]
    /\ row \in [Sessions -> Rows \cup {NoRow}]
    /\ rid \in [Sessions -> Rids \cup {NoRid}]
    /\ \A s \in Sessions : rid[s] # NoRid <=> step[s] \in {"index", "undo"}
    /\ done \in [Sessions -> 0..N]
    /\ records \in [Rids -> Rows \cup {NoRow}]
    /\ entries \in [1..N -> SUBSET (Keys \X Rids)]
    /\ damaged \subseteq Rids
    /\ rowFaults \in 0..MaxRowFaults

(* A tree never leads to a position that holds no record or one with       *)
(* another key: the record goes in before its entries and leaves after     *)
(* them, also while other sessions reuse the positions of undone rows.     *)
EntriesPointToRecords ==
    \A i \in 1..N : \A e \in entries[i] :
        records[e[2]] # NoRow /\ records[e[2]][i] = e[1]

(* A row is in the table with an entry in every index, or it is not in the *)
(* table: this holds for every position no running INSERT works on, unless *)
(* an exception cut the undo of an INSERT short there.                     *)
InsertAtomic ==
    \A r \in Rids \ damaged :
        records[r] # NoRow /\ (\A s \in Sessions : rid[s] # r) =>
            \A i \in 1..N : <<records[r][i], r>> \in entries[i]

(* No two positions share a key of a unique index.                         *)
UniqueKeys ==
    \A i \in Unique : \A e, f \in entries[i] : e[1] = f[1] => e = f
=============================================================================
