# RUCBase in TLA+

RUCBase is a teaching relational DBMS in C++20: a thread-per-client TCP server,
a wire protocol with a client library and a command-line client, an SQL front
end, executors, a catalog, record files, B+-tree indexes, a buffer pool, and
transactions, locking and recovery. This directory holds TLA+ models of the
parts whose behaviour can be checked, the TLC runs that check them, and TLAPS
proofs of the safety properties of nine of them. Paths are relative to the
repository root; `src/src` is its `src` directory, `src/rucbase_client` the client.

**The repository is a lab skeleton.** Many bodies are exercises: stubs that
throw or return a default. The models follow one policy. Implemented control is
translated step by step. A stub is an operation of the environment: it succeeds
in the way its comments and its callers require, or fails in a way its signature
allows (exception, null, false). Where implemented code exists only to serve a stub
(the bitmap of a record page, the log records, the repair of inner keys), the stub
is given by its comments and the properties are about the code it calls. A component
that consists of stubs only is not modelled.

## 1. Inventory

| Part | State | Operations that change it | Talks to |
|---|---|---|---|
| Server process (`server`) | stop flag, `listening_fd`, `client_fds_`, threads, kernel descriptor table | SIGINT handler, accept loop, registration, thread start, request loop, `close_client`, `stop_clients`, opening and closing the database | sessions, catalog, log |
| Session (`server`, `transaction`, `execution_manager`) | `ClientSession::transaction_id`, `Context::txn_`, `txn_map_` | prepare, execute, auto-commit, catch clauses, BEGIN/COMMIT/ABORT, abort on disconnect | transaction manager |
| Protocol (`net`) | client descriptor, response state, frames in flight | connect, handshake, execute, receive, close; read, META/ROW/END, drop | server session, caller |
| Encoding (`net/wire.cpp`), result buffer (`common/wire_result.h`) | bytes, buffered rows | encode, decode, account, send | executors, client |
| Command-line client (`rucbase_client`) | pending text, statements to send, exit code | read a line, split, send, exit | scanner of the server (`parser/lex.l`) |
| Analyzer, planner (`analyze`, `optimizer`) | bound query, remaining conditions, scans, join tree | bind names, push down, join, choose algorithm | catalog, portal |
| INSERT executor (`execution`) | record, list of indexes done | insert record, insert entries, undo | record file, trees |
| Catalog (`system`, `record/rm_manager.h`) | `db_`, `fhs_`, `db.meta`, table files, open files | create/drop database, create table, flush | disk manager |
| Page guards (`storage/page_guard.*`, `IndexNode`) | guards, pins, dirty marks, frames | fetch, new, mark dirty, move, drop, release, discard a file's pages | buffer pool |
| Schema metadata (`system/sm_meta.*`) | tables, columns, indexes; `db.meta` as JSON values | create and drop table and index, write, read, reject a damaged file | catalog, index manager |
| Index file (`index/index_manager.cpp`, `index_types.cpp`) | header page, page counter, descriptor | create, open, allocate, delete, close, destroy | disk manager, buffer pool |
| Leaf chain (`index/b_plus_tree.cpp`, `index_scan.cpp`) | leaf links, first and last leaf | split, coalesce, `unlink_leaf`, scan | buffer pool |
| Inner keys (`index/b_plus_tree.cpp`) | keys and parent pointers of inner nodes | `update_ancestor_keys`, `update_child_parent` after an insert, delete or redistribution | buffer pool |
| Record file (`record`) | file header, page headers, bitmaps, list of free pages | create, open, insert, delete, scan, close | disk manager |
| Log (`recovery/log_manager.h`, `disk_manager.cpp`) | log buffer, log file | serialize, append, flush, read back | recovery |
| Buffer pool, replacer, locks, B+-tree search and update, recovery passes | - | stubs | - |

Where the code is hard to test: descriptor numbers are reused while other
threads still hold them; a signal arrives between any two steps of the accept
loop; connections break inside a frame and late frames meet the next request;
exceptions leave functions that have done half their work (DDL, INSERT, opening
an index, unlinking a leaf); the process dies between two writes; several
sessions share the transaction map, the planner's switch and the record file.
`PROJECT.json` lists each such hazard at its line.

## 2. Plan

1. *Core (done).* Server, sessions, protocol, encoding, client, planner, INSERT, catalog,
   page guards, index files and leaf chain, with their runs; proofs for `Server`,
   `Catalog`, `PageGuard` and `InsertRow`.
2. *Extension (done).* Schema metadata, record files, inner keys of the tree, the
   log; INSERT, SET, DDL and utility statements in `Planner`; SHOW and DESC in
   `ResultWire`; proofs for `Session` and for `ExecStream` with its refinement
   of `RequestReply`.
3. *Proofs (done).* `IndexFile`, `LeafChain` and `TreeKeys`, with the arithmetic of the
   node layout and the order of the keys.
4. *When the exercises are filled in.* Replace a stub's contract by its body: buffer pool
   and replacer (`PageGuard`), record operations (`RecordFile`), tree search, split and
   merge (`LeafChain` and `TreeKeys` together), executors (`Planner`'s `Produces`),
   locks and recovery.

## 3. Modules and code

`MC*` modules only give values to constants, with two exceptions. `MCResultWire` also
grows byte strings for the operators of `WireCodec`. `MCStorage` extends five models
that share no state and picks one of them in its initial state. The models it extends,
and those that are proved in one module, name their `Init`, `Next` and `TypeOK` after
themselves (`IndexInit`, `ChainNext`, ...).

Operators whose comment begins with "Mutant" are deliberately wrong variants, used to
see that a property can fail; no specification uses them.

### Server
State and actions of `Server::run`, `serve`, `stop_clients`, `close_client`,
`handle_client` and `handle_interrupt`. The main thread and each client thread
have a program counter; a step is one access to shared state or one system
call, so `close()` and the erase in `close_client` are two steps inside the
mutex. `fdTable` is the kernel's descriptor table: a new descriptor gets the
lowest free number. `client_fds_` is a set, since its order and multiplicity
are not observable. Executing SQL is one step.

*Signal.* The handler runs atomically with respect to the main thread, between
any two of its steps, and installs through `signal()`, which on glibc restarts
system calls. Linux delivers a process-directed SIGINT to the main thread when
that thread does not block it. POSIX would allow any thread; then the handler's
`close()` would not wake `accept()`. That is a listed hazard outside the model.

### RequestReply and ExecStream
`ExecStream` is `Client::Connect/Execute/Close`, the response loop of
`ExecStreamResult`, and the server's request loop. A frame is one element of a
channel; a write that fails part way leaves a torn frame. Each reconnect is a new
connection, and the session of an old one may still be running. The network may
go silent at any time. `RequestReply` is the promise to the caller: a request is
refused, or answered by exactly the reply computed for it, or fails, and is never
executed twice. The refinement mapping is at the end of `ExecStream`.

### Session
`execute_sql` with all catch clauses, the transaction commands and the abort on
disconnect, for several sessions and one `TransactionManager`. The Lab 4 blocks
of `execute_sql` (`prepare_transaction`, auto-commit) are commented out in the
skeleton; the variable `lab4` makes both versions part of the model. `begin`,
`commit` and `abort` are stubs: each takes effect or throws without effect. An
exception out of a catch clause ends the process (`down`).

### WireCodec and ResultWire
`WireCodec` translates the encoders and decoders of `wire.cpp` over bytes
`0..Base-1`, with integer widths and payload limits as constants, so that all
limits lie within reach of TLC. `ResultWire` takes a query result through the
bounded buffer of `wire_result.h`, `send_query_result` and `send_raw_text_result`,
a listing of SHOW and DESC through `set_string_result`, and back through the client's
decoder, over a connection that may end after any byte.

### Lexer and Shell
`Lexer` says which characters the rules of `lex.l` make into tokens, strings and
comments. `Shell` is the client program: `TakeCompleteStatements`, the prompt
loop, `-e` and `-f`. The character `x` stands for the word `exit`, which is an
ordinary word unless it is the whole statement; `w` is any other word.

### Planner
From the syntax tree to the executors: `Analyzer` for every kind of statement, the
dispatch of `Optimizer::plan_query`, `Planner::do_planner` and `Portal`, and the
planner with one step per iteration of the loops of `build_from_plan` and
`build_join_tree`. Condition trees and join trees are recursive operators where the code
recurses. A literal is its type and size, which is what `Value::init_raw` looks at.
`Produces` is the meaning of a plan: the rows the executors named by `Portal` let
through, given the contract of `JoinPlan` (`plan.h`) that a condition has its left
column in the left child. The switch `enable_sortmerge` is global and may change between
two joins of one plan, so each join chooses freely and SET keeps no value here.

### InsertRow
`InsertExecutor::next` by several sessions. `insert_record`, `insert_entry`,
`delete_entry` and `delete_record` are one step each and may throw. A position is
`damaged` when an exception cut its undo short, which the code does not handle.

### Catalog
`create_db`, `drop_db`, `flush_meta` and `create_table` down to the single
calls that can fail, including those of `RmManager`. The code does not
support DDL concurrent with other statements (`sm_manager.h`), so at most one
operation is under way. A crash keeps the disk and loses the memory. `open_db`
and `close_db` are stubs: they appear by their contract.

### PageGuard
Guards, the views of `IndexNode`, and `discard_file_pages` in its real
steps, over the contract of the buffer pool (fetch pins, unpin keeps a dirty
mark, only unpinned frames are evicted, only dirty frames are written). Closing a
file is legal only when nobody holds one of its pages, as its callers ensure.

### SchemaMeta
`DbMeta`, `TabMeta`, `ColMeta` and `IndexMeta`, what `operator<<` writes to `db.meta`
and what `operator>>` accepts, with each of its checks; the layout of columns in
`create_table`, and the index file names of `IndexManager`. A JSON field is its value,
`Bad` (absent or of another type), or `Missing` where it is optional. A name is the
sequence of the words between its underscores, so that different indexes can have one
file name. Here a statement is one step; the order of the disk operations and their failures are in `Catalog`.

`SmManager::create_index` is a stub. The model assumes that it refuses a column named
twice: `operator>>` rejects such an index, `IndexManager::create_index` accepts it, so
without that refusal `SchemaSurvivesRestart` fails. Whoever fills in the body has to
provide it.

### IndexLayout and IndexFile
`IndexLayout` is the arithmetic of a node: key region, alignment, the order that fits a
page. `IndexFile` is one index: the checks and writes of `create_index`, `open_index`
with its constructor, page allocation, `close_index`, crashes. Pages are numbers. The
loop of `create_index` that lowers the order is there but never iterates for sizes
within the limits. A failed `create_index` leaves its file and descriptor behind
(`orphaned`); nothing in the code can remove them. `page_count_` is not a high-water
mark (comment in `b_plus_tree.cpp`) and can even become negative after a crash.
A write of the header page is atomic in the model. `Worked` names the schemas whose
index is used beyond creation, so that one run can try every key length.

### LeafChain
Links of the leaves with their sentinel, `unlink_leaf` in its two steps with each
fetch failing, `leaf_begin`, `leaf_end` and `IndexScan::next`. `split` and
`coalesce` are stubs, given by what their comments ask for.

### TreeKeys
Keys and parent pointers of the inner nodes of a tree with three levels:
`update_ancestor_keys` one node per step and `update_child_parent`, which both give up
silently when `fetch_node` fails. The stubs that call them insert, delete and
move entries without splitting or merging a node.

### RecordLayout and RecordFile
`RecordLayout` is what `RmManager::create_file` computes for a record size;
`RecordFile` the file of one table with its page headers, bitmaps and free list, over
clean restarts. `Bitmap` is translated bit by bit. `insert_record`, `delete_record` and
`RmScan` are stubs, given by the comments in their bodies.

### LogFile
Log records with their real field widths and offsets, `LogBuffer`, `write_log` and
`read_log`, crashes that lose the buffer and writes that end in the middle.
A value of n bytes is n marked bytes, so that a wrong offset or width gives garbage.
`add_log_to_buffer` and `flush_log_to_disk` are stubs; nothing in the system logs yet.

## 4. Runs

Each run answers one question; `PROJECT.json` gives its properties. The type
invariant `TypeOK` of a module is a conjunct of one of its checked invariants where
the module is only model-checked, and a theorem or a conjunct of the inductive
invariant for the nine with proofs. `Planner` and `ResultWire` have a few
predicates (index keys, waiting client) that are conjuncts of a listed property.

| Run | Shows | Bounds |
|---|---|---|
| `server` | registry, descriptor ownership, shutdown order, no leak, no foreign close; SIGINT ends the server | 2 connections, 3 numbers: one is the listening socket's, and the second connection may reuse the number of the first |
| `exec_stream` | responses stay with their requests; refinement of `RequestReply`; calls return, sessions are reclaimed | 2 requests, 2 connections: the second request on the old connection or after a reconnect, with the old session still running |
| `session_transactions` | ownership and end of transactions, replies | 2 sessions, 3 transactions, 1 exception of the manager |
| `result_wire` | results arrive whole or not at all; one encoding per content, self-delimiting frames | payloads of 12 bytes; names, texts and buffers at and past each limit; for the decoders, all strings of 8 bytes over 4 values |
| `shell` | client and scanner agree; no statement after a failure | texts of 6 characters: enough for a statement, a comment or string across lines, and a rest |
| `planner` | plans compute their query and write whole columns, no internal error, whole index keys | joins of 4 tables by 4 conditions; every statement form over 1 to 3 tables, literals up to one byte too long |
| `insert_row` | rows and entries together, unique keys | 3 sessions, 3 positions, 2 indexes (one unique), 2 exceptions |
| `catalog` | catalog, handles and files agree | 2 tables, 2 failures, 2 crashes |
| `page_guard` | pins, updates, stale frames | 3 guards, 2 frames, 2 x 2 pages, 2 files |
| `schema_meta` | the schema survives restarts; columns and indexes fit the files | tables `t` and `t_a`, 2 indexes each, column lists at and past the record limit, earlier and damaged `db.meta` files; `int` has 16 bits |
| `storage` | index: accepted schemas open again, nodes fill pages, fresh pages, complete files, descriptors | the real page and header sizes, all key lengths to the limit and 8 past it; one index with 6 pages, 2 failures, 2 crashes |
| | leaves: ring through the sentinel, complete scans | 4 leaves of 3 entries |
| | inner keys lead to every entry | 3 levels, 4 leaves of at most 2 of 8 two-column keys, 1 failed fetch |
| | table: a scan finds the records; the layout fits | all record sizes to one past the limit; one with 9 slots to a page, 2 pages, 2 deletes |
| | log: whole records are read back | 3 records, a buffer of 100 bytes, so that it fills |

Symmetry is used only in safety runs (guards, descriptors, pages and files;
sessions, positions and keys). Deadlock is checked except where the system may end:
the client program exits (`shell`), every session leaves (`session_transactions`),
an orphaned index file, a failed unlink, a full table or a full log is final
(`storage`).

The sizes of pages, headers and records are those of the code in `storage` and
`schema_meta`; only the log buffer and `int` are smaller, so that they overflow.

**Fairness.** `Server`: weak fairness of the main thread and of each client
thread, since the operating system schedules threads; a step that waits for the
mutex or for input is not enabled meanwhile. Nothing is assumed of
peers. `ExecStream`: weak fairness of the client call in progress and of each
session. Both sides set socket deadlines (`ConfigureConnectedSocket`,
`ClientOptions`), so a blocked read or write ends.

### Finding

One run, `catalog_meta`, is expected to fail: `write_meta_file` truncates `db.meta`
in place (`sm_manager.cpp:48`). If the write fails, `create_table` rolls back its
handle and its file, but the former catalog is no longer on disk, though the comment
at `sm_manager.cpp:229` says that it is kept.

Four smaller disagreements were met while modelling. The models contain the
behaviour, and the properties are stated so as to exclude it:

* A row above the frame limit is found after META was sent (`server.cpp:416`). The
  connection is closed (`SrvRowTooLarge`) without the terminating response that section
  5 of the protocol document requires for every request. The client reports it as a
  transport error.
* A failure inside `RmManager::create_file` happens outside the `try` of `create_table`
  (`sm_manager.cpp:222`) and leaves a file without a table (`FailsForGood`).
* When the fetch for the rollback of `unlink_leaf` fails too (`b_plus_tree.cpp:584`,
  `RollbackFails`), its exception still says that the link was rolled back.
* `update_ancestor_keys` gives up when a fetch fails. One such failure leaves keys that
  still lead to every entry (`KeysLeadToEntries`), but a second one on the same path can
  lose an entry, and a parent pointer that `update_child_parent` did not set fails the
  assertion of `find_child` (`orphan`).

## 5. Proofs

TLAPS checks every theorem from the named assumptions of the modules only: special
values differ from real ones, bounds are naturals, descriptor numbers are naturals,
the set of guards is finite, the sizes of headers and alignments are positive
(`IndexConstants`), and the tree at the start has three levels, leaves that are finite
and not empty, and keys in order (`TreeConstants`). All theorems hold for constants of
any size. In each part the argument is an inductive invariant with one step or lemma per
action; `storage` and the other runs check the properties on small instances.

* `ServerProofs`, first part (`Server`, `IInv`). The properties do not follow from
  themselves: a registered number could be a closed one. `Ownership` says that a
  connection owns its number exactly from `accept()` to `close()`; `Listener` that the
  numbers `serve()` and the handler close are never a connection's; `Mutex` and
  `Registry` that between `close()` and erase no other connection registers the number.
  The action property `NoForeignClose` follows from the same invariant.
* `ServerProofs`, second part (`Session`, `SessionInv`). `TxnOwnership` says that the
  transaction map and the sessions' ids are each other's inverse; `Phase` what a session,
  its context and its reply know of the transaction at each step of a request. Without
  `Phase` a reply could not be related to what happened two steps earlier. `OtherPhases`
  shows that a step of one session leaves the phases of all others as they are.
* `ExecStreamProofs`. `ClientSynchronised` speaks of the time between two calls only, so
  the invariant has to say where the response is during a call: the frames the client has
  taken (`Consumed`), those in the channel and those the session has still to write are
  together the response, in order (`Stage`). To keep that, at most one frame may be on
  its way to a session (`Inbound`) and a request with at most one connection
  (`OneCarrier`), which is also why nothing is executed twice. From the invariant every
  step maps to a step of `RequestReply` or to a stutter.
* `TableProofs`, first part (`Catalog`, `IInv`). The core (`Phase`) is that while the
  database is open, a readable `db.meta` is the catalog in memory, plus the new table
  just before the swap. So the file a rollback removes is never one that `db.meta` names.
  `Statement`, `Clean` and `CleanFiles` say what `create_table` has done at each of its
  steps.
* `TableProofs`, second part (`InsertRow`, `RowInv`). `Running` says that a running INSERT
  owns its position alone and has entries in exactly the first `done` indexes.
* `PageGuardProofs`. Pins are counted by the cardinality of the set of holders;
  `CountGuards` and `DropPinEffect` are the counting lemmas. `Closing` says that a file
  being closed has no users and that the list of pages to delete covers all its
  resident pages.
* `FileProofs` (`IndexFile`, `IndexInv`). The layout lemmas come first: the key region
  holds `order + 1` keys and ends aligned (`KeysRegionHolds`), and the order is the largest
  that fits a page (`TreeOrderIsLargest`), for any page size and key length. `HeadersInv`
  says that every header there is passes `deserialize`. Fresh page numbers need more than
  that, since `page_count_` falls when a page leaves the tree: `CountsInv` bounds it from
  below by the pages of the file that are no longer of the tree, and `PagesInv` says that
  allocation has passed every page in the file or in the pool.
* `LeafProofs` (`LeafChain`, `ChainInv`). `LinksInv` describes the ring through the
  sentinel by places (`At`) in the sequence of leaves, in both directions, and also half
  way through `unlink_leaf`, where one direction is ahead of the other. `InsertedLeaf` and
  `RemovedLeaf` say what happens to the places.
* `TreeOrderProofs` and `TreeProofs` (`TreeKeys`, `TreeInv`): order, then operations.
  `compare_index_key` is a strict total order of keys of one length (`KeyOrder`), and
  `internal_lookup` in sorted nodes leads to the leaf that holds the key
  (`FoundWhereItIs`). The leaves never change their order, since a redistribution only
  moves the border between two inner nodes; so it is enough that keys separate leaves.
  The invariant has two levels. While no fetch has failed, every inner key is exactly the
  first key below it, except on the path `update_ancestor_keys` is on (`Exact`). After
  one failure the keys still separate (`Sorted`), which is what `KeysLeadToEntries` needs.
  A second failure can break that (see the end of section 4).

Arguments by induction use least or greatest elements (`LeastOf`, `GreatestOf`, from the
well-foundedness of `<` on the naturals): the first difference of two keys, the largest
order that fits, the first key of a leaf.

**Only model-checked:**

* Liveness (`StopTerminates` in `server`, `CallsReturn` and `SessionReclaimed` in
  `exec_stream`) is out of the prover's reach.
* `RecordFile` and `LogFile`: a scan of a bitmap and the reading of a log are recursive
  functions, and what those compute for every input needs induction over data.
* `SchemaMeta`: what is read back is a fold over lists of columns and indexes.
* `Planner`, `Lexer`, `Shell`, `WireCodec` and `ResultWire`: their properties are about
  recursive data (condition and join trees, texts, byte strings).

## 6. Not modelled

* Stubs without implemented control: bodies of the buffer pool and the replacer, page
  I/O, B+-tree search, split and merge of inner nodes, all executors but INSERT, locks,
  the passes of recovery. `drop_table`, `create_index` and `drop_index` of the
  catalog appear in `SchemaMeta` by what the code around them requires.
* The grammar (`yacc.y`) and the syntax trees: generated code and plain data.
* The text of JSON, table rendering, HELP and error wording, parsing of command lines,
  resolution of addresses.
* Torn writes of a page; a crash while a table file is open, after which the page count in
  its header is stale; SIGINT delivered to a client thread; memory exhaustion.
