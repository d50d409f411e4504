----------------------------- MODULE SchemaMeta ----------------------------
(***************************************************************************)
(* What the catalog holds: DbMeta, TabMeta, ColMeta and IndexMeta          *)
(* (system/sm_meta.h), the db.meta they are written to and read from       *)
(* (sm_meta.cpp), the checks of create_table and of create_index, and the  *)
(* files they make.  Catalog.tla has the order of the disk operations and  *)
(* their failures; here a statement is one step.                           *)
(*                                                                         *)
(* A name is the sequence of the words between its underscores.  In the    *)
(* JSON of db.meta a missing field, or one of another type, is Bad; a file *)
(* that is no JSON is Bad as a whole.                                      *)
(***************************************************************************)
EXTENDS RecordLayout, IndexLayout, Sequences, SequencesExt, FiniteSets

CONSTANTS
    MapOrder,       \* table names in the order of std::map
    ColumnDefs,     \* the lists of column definitions of CREATE TABLE
    IndexColumns,   \* the lists of column names of CREATE INDEX
    OlderMetas,     \* db.meta files this run of the program did not write
    FixedLength,    \* sizeof(int), sizeof(float)
    IntBits,        \* the width of int
    MaxIndexes,     \* bound on the indexes of a table
    Bad, Missing    \* a JSON field that is wrong; an optional one that is not there

VARIABLES
    up,        \* a database is open
    db,        \* db_
    meta,      \* db.meta
    tableHdr,  \* the table files: per table, the header
    indexOf    \* the index files: per name, the table and columns indexed

vars == <<up, db, meta, tableHdr, indexOf>>
files == <<tableHdr, indexOf>>

NoName == <<>>
Types == {"INT", "FLOAT", "STRING"}
FixedTypes == {"INT", "FLOAT"}

(* json get<int> of an integer: its low bits.                              *)
ToInt(n) == ((n + 2^(IntBits - 1)) % 2^IntBits) - 2^(IntBits - 1)

-----------------------------------------------------------------------------
(* Tables in memory.  The columns of a table are laid out one behind the   *)
(* other; defs are [name, type, len].                                      *)
Lengths(defs) == [i \in DOMAIN defs |-> defs[i].len]
SumOf(lens) == FoldLeft(LAMBDA a, b : a + b, 0, lens)

LayOut(tab, defs) ==
    [i \in DOMAIN defs |->
        [tab |-> tab, name |-> defs[i].name, type |-> defs[i].type, len |-> defs[i].len,
         offset |-> SumOf(SubSeq(Lengths(defs), 1, i - 1)), index |-> FALSE]]

RecordSize(table) == SumOf(Lengths(table.cols))
NamesOf(cols) == [i \in DOMAIN cols |-> cols[i].name]

(* get_col; is_col and is_index.                                           *)
ColNo(table, name) == CHOOSE i \in DOMAIN table.cols : table.cols[i].name = name
IsCol(table, name) == \E i \in DOMAIN table.cols : table.cols[i].name = name
IsIndex(table, names) ==
    \E i \in DOMAIN table.indexes : NamesOf(table.indexes[i].cols) = names

(* IndexMeta::make with rebuild_derived.                                   *)
MakeIndex(tab, cols, unique) ==
    [tab |-> tab, cols |-> cols, unique |-> unique,
     num |-> Len(cols), len |-> SumOf(Lengths(cols))]

(* A column takes part in an index: its flag in the table.                 *)
Flagged(table, names) ==
    [table EXCEPT !.cols = [i \in DOMAIN @ |->
        [@[i] EXCEPT !.index = @ \/ table.cols[i].name \in Range(names)]]]

AddIndex(table, names, unique) ==
    LET flagged == Flagged(table, names)
        cols == [i \in DOMAIN names |-> flagged.cols[ColNo(table, names[i])]]
    IN  [flagged EXCEPT !.indexes = Append(@, MakeIndex(table.name, cols, unique))]

-----------------------------------------------------------------------------
(* operator<<: what cannot be derived is written.                          *)
WriteColumn(col) == [name |-> col.name, type |-> col.type, length |-> col.len]

(* Mutant: db.meta does not say which index is unique.                     *)
WriteIndexNoUnique(index) == [columns |-> NamesOf(index.cols), unique |-> Missing]

WriteIndex(index) == [columns |-> NamesOf(index.cols), unique |-> index.unique]
WriteTable(table) ==
    [name |-> table.name,
     columns |-> [i \in DOMAIN table.cols |-> WriteColumn(table.cols[i])],
     indexes |-> [i \in DOMAIN table.indexes |-> WriteIndex(table.indexes[i])]]

WriteDb(d) ==
    LET names == SelectSeq(MapOrder, LAMBDA n : n \in DOMAIN d.tabs)
    IN  [database |-> d.name,
         tables |-> [i \in DOMAIN names |-> WriteTable(d.tabs[names[i]])]]
-----------------------------------------------------------------------------
(* operator>>: Bad where it throws.  read_column                           *)
ColumnReads(j) ==
    /\ j # Bad /\ j.name \notin {Bad, NoName} /\ j.type \in Types
    /\ j.length # Bad /\ ToInt(j.length) > 0
    /\ j.type \in FixedTypes => ToInt(j.length) = FixedLength

ReadColumn(j) == [name |-> j.name, type |-> j.type, len |-> ToInt(j.length)]

(* read_index, on the table read so far.                                   *)
IndexReads(j, table) ==
    /\ j # Bad /\ j.columns \notin {Bad, <<>>}
    /\ \A i \in DOMAIN j.columns : j.columns[i] \notin {Bad, NoName}
    /\ IsInjective(j.columns)
    /\ ~IsIndex(table, j.columns)
    /\ j.unique # Bad
    /\ \A i \in DOMAIN j.columns : IsCol(table, j.columns[i])

ReadIndex(table, j) ==
    IF table = Bad \/ ~IndexReads(j, table) THEN Bad
    ELSE AddIndex(table, j.columns, j.unique # Missing /\ j.unique = TRUE)

(* read_table: the columns, then the indexes.                              *)
TableReads(j) ==
    /\ j # Bad /\ j.name \notin {Bad, NoName} /\ j.columns \notin {Bad, <<>>}
    /\ \A i \in DOMAIN j.columns : ColumnReads(j.columns[i])
    /\ IsInjective(NamesOf(j.columns))
    /\ SumOf([i \in DOMAIN j.columns |-> ToInt(j.columns[i].length)]) <= MaxRecordSize
    /\ j.indexes # Bad

ReadTable(j) ==
    IF ~TableReads(j) THEN Bad
    ELSE LET cols == LayOut(j.name, [i \in DOMAIN j.columns |-> ReadColumn(j.columns[i])])
         IN  FoldLeft(ReadIndex, [name |-> j.name, cols |-> cols, indexes |-> <<>>], j.indexes)

ReadDb(j) ==
    LET tables == [i \in DOMAIN j.tables |-> ReadTable(j.tables[i])]
        names == NamesOf(tables)
    IN  IF /\ j # Bad /\ j.database \notin {Bad, NoName} /\ j.tables # Bad
           /\ \A i \in DOMAIN tables : tables[i] # Bad
           /\ IsInjective(names)
        THEN [name |-> j.database,
              tabs |-> [n \in Range(names) |-> CHOOSE t \in Range(tables) : t.name = n]]
        ELSE Bad

-----------------------------------------------------------------------------
(* make_index_name: table and columns joined by underscores.               *)
IndexName(tab, names) == tab \o FlattenSeq(names)

NoDb == [name |-> NoName, tabs |-> <<>>]
TablesOf(d) == {d.tabs[t] : t \in DOMAIN d.tabs}
IndexesOf(d) == UNION {Range(t.indexes) : t \in TablesOf(d)}
SchemaOf(cols) == [cols |-> Len(cols), key |-> SumOf(Lengths(cols))]

(* The files of a database another run of the program left.                *)
FilesOf(d) ==
    /\ tableHdr = [t \in DOMAIN d.tabs |-> NewFileHdr(RecordSize(d.tabs[t]))]
    /\ indexOf = [f \in {IndexName(x.tab, NamesOf(x.cols)) : x \in IndexesOf(d)} |->
                    LET x == CHOOSE y \in IndexesOf(d) : IndexName(y.tab, NamesOf(y.cols)) = f
                    IN  <<x.tab, NamesOf(x.cols)>>]

Init ==
    /\ up = FALSE /\ db = NoDb /\ meta \in OlderMetas
    /\ FilesOf(IF ReadDb(meta) = Bad THEN NoDb ELSE ReadDb(meta))

(* open_db: db_ is replaced only when all of db.meta was read; close_db,   *)
(* and the end of the process.                                             *)
OpenDb ==
    /\ ~up
    /\ IF ReadDb(meta) = Bad THEN UNCHANGED <<up, db>> ELSE up' = TRUE /\ db' = ReadDb(meta)
    /\ UNCHANGED <<meta, files>>

CloseDb ==
    /\ up /\ up' = FALSE /\ db' = NoDb /\ meta' = WriteDb(db)
    /\ UNCHANGED files

Crash ==
    /\ up /\ up' = FALSE /\ db' = NoDb
    /\ UNCHANGED <<meta, files>>

(* write_meta_file fails after it has truncated the file.                  *)
MetaWriteFails == meta' = Bad /\ UNCHANGED <<up, db, files>>

Commit(next) == db' = next /\ meta' = WriteDb(next) /\ UNCHANGED up

-----------------------------------------------------------------------------
(* Mutant: only the sum of the lengths is checked.                         *)
ValidDefsSumOnly(defs) ==
    /\ IsInjective(NamesOf(defs))
    /\ \A i \in DOMAIN defs :
        /\ defs[i].len > 0 /\ (defs[i].type \in FixedTypes => defs[i].len = FixedLength)
        /\ ToInt(SumOf(SubSeq(Lengths(defs), 1, i))) <= MaxRecordSize

(* The checks of create_table on its columns.                              *)
ValidDefs(defs) ==
    /\ defs # <<>> /\ IsInjective(NamesOf(defs))
    /\ \A i \in DOMAIN defs :
        /\ defs[i].len > 0 /\ (defs[i].type \in FixedTypes => defs[i].len = FixedLength)
        /\ defs[i].len <= MaxRecordSize
        /\ ToInt(SumOf(SubSeq(Lengths(defs), 1, i))) <= MaxRecordSize

(* create_table, with the check of RmManager::create_file on record_size.  *)
(* A failed db.meta leaves the rest as it was.                             *)
CreateTable(t, defs) ==
    LET table == [name |-> t, cols |-> LayOut(t, defs), indexes |-> <<>>]
        size == ToInt(RecordSize(table))
    IN  /\ up /\ t \notin DOMAIN db.tabs /\ t \notin DOMAIN tableHdr /\ ValidDefs(defs)
        /\ size \in 1..MaxRecordSize
        /\ \/ /\ tableHdr' = tableHdr @@ (t :> NewFileHdr(size))
              /\ Commit([db EXCEPT !.tabs = @ @@ (t :> table)])
              /\ UNCHANGED indexOf
           \/ MetaWriteFails

(* The other statements are bodies of a later lab.  create_index: the      *)
(* columns exist and are not indexed in this order, IndexManager's checks, *)
(* a file of its own.  That no column is named twice is for create_index   *)
(* to see to: read_index refuses such a list and nothing before does.      *)
CreateIndex(t, names, unique) ==
    LET table == db.tabs[t]
        next == AddIndex(table, names, unique)
    IN  /\ up /\ t \in DOMAIN db.tabs /\ Len(table.indexes) < MaxIndexes
        /\ IsInjective(names) /\ \A i \in DOMAIN names : IsCol(table, names[i])
        /\ ~IsIndex(table, names)
        /\ ValidSchema(SchemaOf(Last(next.indexes).cols))
        /\ IndexName(t, names) \notin DOMAIN indexOf
        /\ indexOf' = indexOf @@ (IndexName(t, names) :> <<t, names>>)
        /\ Commit([db EXCEPT !.tabs[t] = next])
        /\ UNCHANGED tableHdr

(* drop_index, and drop_table with the indexes of the table.               *)
WithoutIndex(table, k) ==
    LET left == RemoveAt(table.indexes, k)
        used == UNION {Range(NamesOf(left[i].cols)) : i \in DOMAIN left}
    IN  [table EXCEPT !.indexes = left,
                      !.cols = [i \in DOMAIN @ |->
                                   [@[i] EXCEPT !.index = @ /\ table.cols[i].name \in used]]]

RemoveFiles(indexes) ==
    indexOf' = Restrict(indexOf, DOMAIN indexOf
                                    \ {IndexName(x.tab, NamesOf(x.cols)) : x \in indexes})

DropIndex(t, k) ==
    /\ up /\ k \in DOMAIN db.tabs[t].indexes
    /\ RemoveFiles({db.tabs[t].indexes[k]})
    /\ Commit([db EXCEPT !.tabs[t] = WithoutIndex(@, k)])
    /\ UNCHANGED tableHdr

DropTable(t) ==
    /\ up
    /\ tableHdr' = Restrict(tableHdr, DOMAIN tableHdr \ {t})
    /\ RemoveFiles(Range(db.tabs[t].indexes))
    /\ Commit([db EXCEPT !.tabs = Restrict(@, DOMAIN @ \ {t})])

Next ==
    \/ OpenDb \/ CloseDb \/ Crash
    \/ \E t \in Range(MapOrder), defs \in ColumnDefs : CreateTable(t, defs)
    \/ \E t \in Range(MapOrder), names \in IndexColumns, u \in BOOLEAN : CreateIndex(t, names, u)
    \/ \E t \in DOMAIN db.tabs : DropTable(t) \/ \E k \in 1..MaxIndexes : DropIndex(t, k)

Spec == Init /\ [][Next]_vars

-----------------------------------------------------------------------------
(* encode_key: the pieces of a record that make up an index key.           *)
KeyPieces(index) ==
    {[from |-> index.cols[i].offset, to |-> index.cols[i].offset + index.cols[i].len - 1] :
        i \in DOMAIN index.cols}

(* The columns of a table fill its records without gap or overlap.         *)
ColumnsTile(table) ==
    \A i \in DOMAIN table.cols :
        table.cols[i].offset =
            IF i = 1 THEN 0 ELSE table.cols[i - 1].offset + table.cols[i - 1].len

(* An index of a table: its copies of the columns are the table's, its     *)
(* key is made of as many pieces of the record as it has columns, in all   *)
(* col_tot_len bytes, and IndexManager accepts it.                         *)
IndexMatches(table, index) ==
    /\ index.tab = table.name /\ Range(index.cols) \subseteq Range(table.cols)
    /\ \A c \in Range(index.cols) : c.index
    /\ index.num = Cardinality(KeyPieces(index))
    /\ index.len = MapThenSumSet(LAMBDA p : p.to - p.from + 1, KeyPieces(index))
    /\ ValidSchema(SchemaOf(index.cols))

(* The variables have their types: a table has its own name in db_, and    *)
(* the flag of a column tells whether an index uses it.                    *)
TypeOK ==
    /\ up \in BOOLEAN
    /\ \A t \in DOMAIN db.tabs :
        /\ t \in Range(MapOrder) /\ db.tabs[t].name = t
        /\ \A c \in Range(db.tabs[t].cols) :
            c.index <=> \E x \in Range(db.tabs[t].indexes) : c \in Range(x.cols)

(* Whatever was created and dropped, db.meta describes the database:       *)
(* operator>> rebuilds from it the very DbMeta that is in memory, with the *)
(* offsets, flags and lengths that operator<< leaves out.  So does what    *)
(* operator<< would write now, for close_db and for the next statement,    *)
(* also after a write has failed.                                          *)
SchemaSurvivesRestart ==
    up => ReadDb(WriteDb(db)) = db /\ (meta # Bad => ReadDb(meta) = db)

(* Every table create_table or db.meta brought in can be used: its columns *)
(* tile the records of its file, whose pages have room for them; its       *)
(* indexes agree with the columns; and the file of an index, whose name    *)
(* two different indexes may have in common, was made for that index.      *)
(* The variables also keep their types (TypeOK).                           *)
CatalogMatchesFiles ==
    /\ TypeOK
    /\ up => \A t \in DOMAIN db.tabs :
        LET table == db.tabs[t]
        IN  /\ ColumnsTile(table)
            /\ RecordSize(table) \in 1..MaxRecordSize
            /\ t \in DOMAIN tableHdr /\ tableHdr[t].size = RecordSize(table)
            /\ RecordsFillPages(tableHdr[t])
            /\ \A x \in Range(table.indexes) :
                /\ IndexMatches(table, x)
                /\ IndexName(t, NamesOf(x.cols)) \in DOMAIN indexOf
                /\ indexOf[IndexName(t, NamesOf(x.cols))] = <<t, NamesOf(x.cols)>>
=============================================================================
