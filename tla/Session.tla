------------------------------ MODULE Session ------------------------------
(***************************************************************************)
(* A statement's way through Server::execute_sql and the session's         *)
(* transaction (server/server.cpp, execution/execution_manager.cpp), for   *)
(* several sessions sharing one TransactionManager.                        *)
(*                                                                         *)
(* execute_sql has two blocks, marked RUCBASE_LAB4_BEGIN_TRANSACTION and   *)
(* RUCBASE_LAB4_AUTO_COMMIT, that are enabled from Lab 4 on; lab4 says     *)
(* whether they are.  begin, commit and abort of the TransactionManager    *)
(* are exercises.  They appear by the comments on them: begin puts a new   *)
(* transaction into txn_map_, commit and abort take it out.  Each may      *)
(* throw; it has then done nothing.                                        *)
(***************************************************************************)
EXTENDS Naturals

CONSTANTS Sessions,
          NoTxn,       \* INVALID_TXN_ID, and the null pointer
          MaxTxns,     \* bound on next_txn_id_
          MaxFaults    \* bound on exceptions thrown by the TransactionManager

ASSUME SessionBounds == MaxTxns \in Nat /\ MaxFaults \in Nat
ASSUME NoTxnAssumption == NoTxn \notin 1..MaxTxns

Txns == 1..MaxTxns
Kinds == {"read", "write", "begin", "commit", "abort"}

VARIABLES
    lab4,
    step,       \* per session: where its request is
    kind,       \* per session: the statement
    txnId,      \* per session: ClientSession::transaction_id
    ctx,        \* per session: Context::txn_
    own,        \* history: the transaction the statement ran in
    reply,      \* per session: "ok", "error" or "abort" frame
    last,       \* next_txn_id_: number of transactions so far
    map,        \* txn_map_: the live transactions
    explicit,   \* those with txn_mode_ set
    committed, aborted,   \* history
    faults,
    down        \* std::terminate: an exception left a client thread

sessVars == <<step, kind, txnId, ctx, own, reply>>
txnVars == <<last, map, explicit, committed, aborted>>
sessionVars == <<lab4, step, kind, txnId, ctx, own, reply, last, map, explicit, committed,
                 aborted, faults, down>>

SessionInit ==
    /\ lab4 \in BOOLEAN
    /\ step = [s \in Sessions |-> "idle"]
    /\ kind = [s \in Sessions |-> "read"]
    /\ txnId = [s \in Sessions |-> NoTxn]
    /\ ctx = [s \in Sessions |-> NoTxn]
    /\ own = [s \in Sessions |-> NoTxn]
    /\ reply = [s \in Sessions |-> "ok"]
    /\ last = 0 /\ map = {} /\ explicit = {} /\ committed = {} /\ aborted = {}
    /\ faults = 0 /\ down = FALSE

Proceed(s, from, to) ==
    /\ ~down /\ step[s] = from
    /\ step' = [step EXCEPT ![s] = to]
    /\ UNCHANGED <<lab4, down>>

Throws == faults < MaxFaults /\ faults' = faults + 1

(* get_transaction                                                         *)
GetTransaction(t) == IF t \in map THEN t ELSE NoTxn

(* TransactionManager::commit and abort.                                   *)
Commit(t) ==
    /\ map' = map \ {t} /\ explicit' = explicit \ {t}
    /\ committed' = committed \cup {t}
    /\ UNCHANGED <<last, aborted, faults>>

Abort(t) ==
    /\ map' = map \ {t} /\ explicit' = explicit \ {t}
    /\ aborted' = aborted \cup {t}
    /\ UNCHANGED <<last, committed, faults>>

(* Mutant: the context keeps its pointer.                                  *)
FinishKeepsContext(s) ==
    /\ txnId' = [txnId EXCEPT ![s] = NoTxn]
    /\ UNCHANGED ctx

(* finish_session_transaction                                              *)
FinishTransaction(s) ==
    /\ ctx' = [ctx EXCEPT ![s] = NoTxn]
    /\ txnId' = [txnId EXCEPT ![s] = NoTxn]

-----------------------------------------------------------------------------
(* handle_request: a frame that is no statement, or an empty one.          *)
RejectRequest(s) ==
    /\ Proceed(s, "idle", "replied")
    /\ reply' = [reply EXCEPT ![s] = "error"]
    /\ kind' = [kind EXCEPT ![s] = "read"]
    /\ own' = [own EXCEPT ![s] = NoTxn]
    /\ UNCHANGED <<txnId, ctx, txnVars, faults>>

(* execute_sql starts: a new context and, from Lab 4 on,                   *)
(* prepare_transaction: the session's transaction or a new one.            *)
StartStatement(s, k) ==
    /\ kind' = [kind EXCEPT ![s] = k]
    /\ LET found == GetTransaction(txnId[s])
       IN  CASE ~lab4 ->
                  /\ Proceed(s, "idle", "run")
                  /\ own' = [own EXCEPT ![s] = NoTxn]
                  /\ UNCHANGED <<ctx, txnId, txnVars, faults>>
             [] lab4 /\ found # NoTxn ->
                  /\ Proceed(s, "idle", "run")
                  /\ ctx' = [ctx EXCEPT ![s] = found]
                  /\ own' = [own EXCEPT ![s] = found]
                  /\ UNCHANGED <<txnId, txnVars, faults>>
             [] lab4 /\ found = NoTxn ->
                  \/ /\ last < MaxTxns
                     /\ Proceed(s, "idle", "run")
                     /\ last' = last + 1 /\ map' = map \cup {last'}
                     /\ ctx' = [ctx EXCEPT ![s] = last']
                     /\ own' = [own EXCEPT ![s] = last']
                     /\ txnId' = [txnId EXCEPT ![s] = last']
                     /\ UNCHANGED <<explicit, committed, aborted, faults>>
                  \/ /\ Proceed(s, "idle", "error") /\ Throws
                     /\ own' = [own EXCEPT ![s] = NoTxn]
                     /\ UNCHANGED <<ctx, txnId, txnVars>>
    /\ UNCHANGED reply

(* The statement fails: in the parser, the analyzer, the planner, an       *)
(* executor, or run_cmd_utility, which throws NotImplementedError for a    *)
(* transaction statement without a transaction.  Only an executor throws   *)
(* a TransactionAbortException.                                            *)
StatementFails(s) ==
    /\ \/ Proceed(s, "run", "error")
       \/ Proceed(s, "run", "aborting") /\ kind[s] \in {"read", "write"}
    /\ UNCHANGED <<kind, txnId, ctx, own, reply, txnVars, faults>>

RunStatement(s) ==
    /\ kind[s] \in {"read", "write"}
    /\ Proceed(s, "run", "done")
    /\ UNCHANGED <<kind, txnId, ctx, own, reply, txnVars, faults>>

(* run_cmd_utility: BEGIN, COMMIT, and ABORT or ROLLBACK.                  *)
RunBegin(s) ==
    /\ kind[s] = "begin" /\ ctx[s] # NoTxn
    /\ Proceed(s, "run", "done")
    /\ explicit' = explicit \cup {ctx[s]}
    /\ UNCHANGED <<kind, txnId, ctx, own, reply, last, map, committed, aborted, faults>>

RunCommit(s) ==
    /\ kind[s] = "commit" /\ ctx[s] # NoTxn
    /\ \/ Proceed(s, "run", "done") /\ Commit(GetTransaction(txnId[s])) /\ FinishTransaction(s)
       \/ /\ \E to \in {"error", "aborting"} : Proceed(s, "run", to)
          /\ Throws
          /\ ctx' = [ctx EXCEPT ![s] = GetTransaction(txnId[s])]
          /\ UNCHANGED <<txnId, txnVars>>
    /\ UNCHANGED <<kind, own, reply>>

RunAbort(s) ==
    /\ kind[s] = "abort" /\ ctx[s] # NoTxn
    /\ \/ Proceed(s, "run", "done") /\ Abort(GetTransaction(txnId[s])) /\ FinishTransaction(s)
       \/ /\ \E to \in {"error", "aborting"} : Proceed(s, "run", to)
          /\ Throws
          /\ ctx' = [ctx EXCEPT ![s] = GetTransaction(txnId[s])]
          /\ UNCHANGED <<txnId, txnVars>>
    /\ UNCHANGED <<kind, own, reply>>

(* Mutant: the session forgets its transaction without committing it.      *)
AutoCommitForgets(s) ==
    /\ IF ctx[s] # NoTxn /\ ctx[s] \notin explicit
       THEN Proceed(s, "done", "send") /\ FinishTransaction(s)
       ELSE Proceed(s, "done", "send") /\ UNCHANGED <<txnId, ctx>>
    /\ UNCHANGED <<kind, own, reply, txnVars, faults>>

(* The auto-commit block.                                                  *)
AutoCommit(s) ==
    /\ IF ctx[s] # NoTxn /\ ctx[s] \notin explicit
       THEN \/ Proceed(s, "done", "send") /\ Commit(ctx[s]) /\ FinishTransaction(s)
            \/ /\ \E to \in {"error", "aborting"} : Proceed(s, "done", to)
               /\ Throws /\ UNCHANGED <<txnId, ctx, txnVars>>
       ELSE Proceed(s, "done", "send") /\ UNCHANGED <<txnId, ctx, txnVars, faults>>
    /\ UNCHANGED <<kind, own, reply>>

(* send_statement_result: a result of a query may turn out not to be       *)
(* encodable, and an error frame takes its place.                          *)
SendResult(s) ==
    /\ Proceed(s, "send", "replied")
    /\ \E r \in IF kind[s] = "read" THEN {"ok", "error"} ELSE {"ok"} :
          reply' = [reply EXCEPT ![s] = r]
    /\ UNCHANGED <<kind, txnId, ctx, own, txnVars, faults>>

(* An exception thrown by abort in a handler leaves the client's thread.   *)
Terminate(s, from) ==
    /\ ~down /\ step[s] = from /\ Throws /\ down' = TRUE
    /\ UNCHANGED <<lab4, sessVars, txnVars>>

(* catch TransactionAbortException                                         *)
CatchAbort(s) ==
    \/ /\ Proceed(s, "aborting", "replied")
       /\ IF ctx[s] # NoTxn THEN Abort(ctx[s]) /\ FinishTransaction(s)
          ELSE UNCHANGED <<txnId, ctx, txnVars, faults>>
       /\ reply' = [reply EXCEPT ![s] = "abort"]
       /\ UNCHANGED <<kind, own>>
    \/ ctx[s] # NoTxn /\ Terminate(s, "aborting")

(* catch RMDBError and std::exception: cleanup_failed_request, send_error. *)
CatchError(s) ==
    LET txn == IF ctx[s] # NoTxn THEN ctx[s] ELSE GetTransaction(txnId[s])
        stays == txn = NoTxn \/ txn \in explicit
    IN  \/ /\ Proceed(s, "error", "replied")
           /\ IF stays THEN UNCHANGED <<txnId, ctx, txnVars, faults>>
              ELSE Abort(txn) /\ FinishTransaction(s)
           /\ reply' = [reply EXCEPT ![s] = "error"]
           /\ UNCHANGED <<kind, own>>
        \/ ~stays /\ Terminate(s, "error")

(* The frame is sent and the context destroyed; without a connection the   *)
(* loop of handle_client ends.                                             *)
Replied(s) ==
    /\ \E to \in {"idle", "closing"} : Proceed(s, "replied", to)
    /\ ctx' = [ctx EXCEPT ![s] = NoTxn]
    /\ UNCHANGED <<kind, txnId, own, reply, txnVars, faults>>

(* ReadFrame fails.                                                        *)
ReadFails(s) ==
    /\ Proceed(s, "idle", "closing")
    /\ UNCHANGED <<kind, txnId, ctx, own, reply, txnVars, faults>>

(* Mutant: the session's id is dropped and its transaction left behind.    *)
AbortSessionForgets(s) ==
    /\ Proceed(s, "closing", "gone")
    /\ txnId' = [txnId EXCEPT ![s] = NoTxn]
    /\ UNCHANGED <<kind, ctx, own, reply, txnVars, faults>>

(* abort_session_transaction, at the end of the connection.                *)
AbortSessionTxn(s) ==
    LET txn == GetTransaction(txnId[s])
    IN  \/ /\ Proceed(s, "closing", "gone")
           /\ txnId' = [txnId EXCEPT ![s] = NoTxn]
           /\ IF txn = NoTxn THEN UNCHANGED <<txnVars, faults>> ELSE Abort(txn)
           /\ UNCHANGED <<kind, ctx, own, reply>>
        \/ txn # NoTxn /\ Terminate(s, "closing")

SessionNext == \E s \in Sessions :
    \/ \E k \in Kinds : StartStatement(s, k)
    \/ RejectRequest(s) \/ StatementFails(s) \/ RunStatement(s)
    \/ RunBegin(s) \/ RunCommit(s) \/ RunAbort(s)
    \/ AutoCommit(s) \/ SendResult(s) \/ CatchAbort(s) \/ CatchError(s)
    \/ Replied(s) \/ ReadFails(s) \/ AbortSessionTxn(s)

SessionSpec == SessionInit /\ [][SessionNext]_sessionVars

-----------------------------------------------------------------------------
(* Types of the sessions, of TransactionManager and of the history; a      *)
(* request is in one of the steps of execute_sql.                          *)
SessionTypeOK ==
    /\ lab4 \in BOOLEAN /\ down \in BOOLEAN
    /\ step \in [Sessions -> {"idle", "run", "done", "send", "error", "aborting",
                               "replied", "closing", "gone"}]
    /\ kind \in [Sessions -> Kinds]
    /\ txnId \in [Sessions -> Txns \cup {NoTxn}]
    /\ ctx \in [Sessions -> Txns \cup {NoTxn}]
    /\ own \in [Sessions -> Txns \cup {NoTxn}]
    /\ reply \in [Sessions -> {"ok", "error", "abort"}]
    /\ last \in 0..MaxTxns /\ faults \in 0..MaxFaults
    /\ map \subseteq Txns /\ explicit \subseteq Txns
    /\ committed \subseteq Txns /\ aborted \subseteq Txns

(* txn_map_ and the sessions agree: a live transaction is the one of       *)
(* exactly one session, whose thread will end it, and the id a session     *)
(* holds names a live transaction.  Otherwise the transaction would keep   *)
(* its locks for ever, or two sessions would write through one.  Between   *)
(* two requests only a transaction opened by BEGIN is left: every other    *)
(* ends with its statement, however the statement ends.                    *)
(* The variables also keep their types (SessionTypeOK).                           *)
EveryTransactionOwned ==
    /\ SessionTypeOK
    /\ \A s \in Sessions : txnId[s] # NoTxn => txnId[s] \in map
    /\ \A t \in map : \E s \in Sessions : txnId[s] = t /\ step[s] # "gone"
    /\ \A r, s \in Sessions : txnId[r] = txnId[s] /\ r # s => txnId[r] = NoTxn
    /\ \A s \in Sessions : step[s] = "idle" => txnId[s] = NoTxn \/ txnId[s] \in explicit

(* Context::txn_ borrows from txn_map_, which destroys a transaction when  *)
(* it commits or aborts: the pointer never outlives its transaction, and   *)
(* is always the session's own.                                            *)
ContextNeverDangles ==
    \A s \in Sessions : ctx[s] # NoTxn => ctx[s] \in map /\ ctx[s] = txnId[s]

(* What the client is told is what happened to the transaction of its      *)
(* statement: after an abort frame it is aborted; after an error for       *)
(* anything but a query it is not committed; after success outside an      *)
(* explicit transaction it has ended as the statement says.                *)
RepliesTellOutcome ==
    \A s \in Sessions : step[s] = "replied" /\ own[s] # NoTxn =>
        CASE reply[s] = "abort" -> own[s] \in aborted
          [] reply[s] = "error" -> \/ own[s] \in aborted \/ own[s] \in explicit
                                   \/ kind[s] = "read"
          [] reply[s] = "ok"    -> \/ own[s] \in explicit
                                   \/ own[s] \in IF kind[s] = "abort" THEN aborted ELSE committed
=============================================================================
