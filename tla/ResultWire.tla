----------------------------- MODULE ResultWire -----------------------------
(***************************************************************************)
(* One result on its way from the executors to the caller of Execute:      *)
(* QlManager::select_from, SHOW, DESC and HELP with the QueryResultBuilder *)
(* they fill, Server::send_statement_result, and ExecStreamResult, which   *)
(* puts the rows together again from the bytes.  The connection may break  *)
(* after any byte.                                                         *)
(*                                                                         *)
(* The client reads when the server is done: read earlier, the same bytes  *)
(* would only make it wait.  Its callbacks are in ExecStream.              *)
(***************************************************************************)
EXTENDS WireCodec

CONSTANTS
    Schemas,       \* schemas of queries: sequences of columns
    Texts,         \* raw texts
    Listings,      \* what SHOW and DESC list: [names, rows] of strings
    Bits,          \* bit patterns of INT and FLOAT values
    Strings,       \* CHAR values
    CharLen,       \* length of every CHAR field
    DiagnosticSizes, \* lengths of error messages
    ColumnBytes, RowBytes, CellBytes,   \* sizeof of the buffer's parts
    MaxBuffered,   \* WireResultSet::kMaxBufferedBytes
    MaxRawText,    \* WireResultSet::kMaxRawTextBytes
    MaxRows        \* bound on the rows of a query

ASSUME FieldsFit == \A s \in Strings : Len(s) <= CharLen

VARIABLES
    pc,        \* where execute_sql is
    result,    \* the QueryResultBuilder's WireResultSet
    given,     \* history: the rows the query has, as cells
    nsent,     \* rows sent so far
    wire,      \* bytes sent and not read
    open,      \* the connection
    client     \* ExecStreamResult's variables

vars == <<pc, result, given, nsent, wire, open, client>>
serverVars == <<pc, result, given, nsent, open>>

NoResult == [has |-> FALSE, raw |-> FALSE, bytes |-> 0, columns |-> <<>>, rows |-> <<>>]

Init ==
    /\ pc = "exec" /\ result = NoResult /\ given = <<>> /\ nsent = 0
    /\ wire = <<>> /\ open = TRUE
    /\ client = [state |-> "AwaitFirst", columns |-> <<>>, rows |-> <<>>,
                 raw |-> FALSE, status |-> ""]

(* WriteFrame, and what follows: after a failure, the end of the session.  *)
WriteFrame(tag, flags, payload, next) ==
    LET frame == EncodeFrame(tag, flags, payload)
    IN  \/ /\ FrameFits(tag, payload)
           /\ wire' = wire \o frame /\ pc' = next /\ UNCHANGED open
        \/ /\ \E n \in 0..(IF FrameFits(tag, payload) THEN Len(frame) - 1 ELSE 0) :
                  wire' = wire \o SubSeq(frame, 1, n)
           /\ pc' = "done" /\ open' = FALSE

(* send_error: a line feed is appended and the rest cut off.               *)
SendError(n) ==
    LET size == IF n = 0 THEN 0 ELSE n + 1
    IN  WriteFrame(TagError, 0,
                   [i \in 1..(IF size > MaxDiagnostic THEN MaxDiagnostic ELSE size) |-> 1],
                   "done")

(* try_account                                                             *)
TryAccount(res, bytes) == res.bytes <= MaxBuffered /\ bytes <= MaxBuffered - res.bytes

-----------------------------------------------------------------------------
(* A statement without a result, and one that fails.                       *)
Command ==
    /\ pc = "exec"
    /\ WriteFrame(TagCommandOk, 0, <<>>, "done")
    /\ UNCHANGED <<result, given, nsent, client>>

StatementFails ==
    /\ pc \in {"exec", "tuples"}
    /\ \E n \in DiagnosticSizes : SendError(n)
    /\ UNCHANGED <<result, given, nsent, client>>

(* set_columns                                                             *)
SetColumns(columns) ==
    LET fresh == [NoResult EXCEPT !.has = TRUE]
        bytes == TotalSize(LAMBDA c : ColumnBytes + Len(c.name), columns)
    IN  /\ pc = "exec"
        /\ IF TryAccount(fresh, bytes)
           THEN /\ result' = [fresh EXCEPT !.bytes = bytes, !.columns = columns]
                /\ pc' = "tuples" /\ UNCHANGED <<wire, open>>
           ELSE result' = fresh /\ \E n \in DiagnosticSizes : SendError(n)
        /\ UNCHANGED <<given, nsent, client>>

(* set_raw_text                                                            *)
SetRawText(text) ==
    LET column == Column(<<1>>, TypeChar)
        bytes == ColumnBytes + 1 + Len(text)
        row == <<Cell(TypeChar, 0, text)>>
    IN  /\ pc = "exec"
        /\ IF Len(text) <= MaxRawText /\ TryAccount(NoResult, bytes)
           THEN /\ result' = [has |-> TRUE, raw |-> TRUE, bytes |-> bytes,
                              columns |-> <<column>>, rows |-> <<row>>]
                /\ given' = <<row>> /\ pc' = "send" /\ UNCHANGED <<wire, open>>
           ELSE /\ \E n \in DiagnosticSizes : SendError(n)
                /\ UNCHANGED <<result, given>>
        /\ UNCHANGED <<nsent, client>>

RowSize(cells) == RowBytes + TotalSize(LAMBDA c : CellBytes + Len(c.str), cells)

(* set_string_result, for SHOW and DESC: set_columns, and add_row for each *)
(* row.  The first that throws ends it.                                    *)
SetStringResult(list) ==
    LET columns == [i \in DOMAIN list.names |-> Column(list.names[i], TypeChar)]
        rows == [r \in DOMAIN list.rows |->
                    [i \in DOMAIN list.rows[r] |-> Cell(TypeChar, 0, list.rows[r][i])]]
        bytes == TotalSize(LAMBDA c : ColumnBytes + Len(c.name), columns)
                 + TotalSize(RowSize, rows)
    IN  /\ pc = "exec" /\ given' = rows
        /\ IF TryAccount(NoResult, bytes)
           THEN /\ result' = [has |-> TRUE, raw |-> FALSE, bytes |-> bytes,
                              columns |-> columns, rows |-> rows]
                /\ pc' = "send" /\ UNCHANGED <<wire, open>>
           ELSE UNCHANGED result /\ \E n \in DiagnosticSizes : SendError(n)
        /\ UNCHANGED <<nsent, client>>

(* A CHAR value in its record: Value::init_raw fills the field with zeros. *)
Field(str) == [i \in 1..CharLen |-> IF i <= Len(str) THEN str[i] ELSE 0]

(* Mutant: the last byte of the field is taken for the terminator.         *)
FieldTextTerminated(field) ==
    LET end == SelectInSeq(field, LAMBDA b : b = 0)
    IN  SubSeq(field, 1, IF end = 0 THEN CharLen - 1 ELSE end - 1)

(* select_from reads the field up to the first zero, or its end.           *)
FieldText(field) ==
    LET end == SelectInSeq(field, LAMBDA b : b = 0)
    IN  SubSeq(field, 1, IF end = 0 THEN CharLen ELSE end - 1)

Values(type) ==
    IF type = TypeChar THEN {Cell(type, 0, s) : s \in Strings}
    ELSE {Cell(type, b, <<>>) : b \in Bits}
Rows(columns) ==
    {r \in [DOMAIN columns -> UNION {Values(columns[i].type) : i \in DOMAIN columns}] :
        \A i \in DOMAIN columns : r[i].type = columns[i].type}

(* One tuple in select_from, and add_row.                                  *)
AddRow(row) ==
    LET cell(c) == IF c.type = TypeChar THEN [c EXCEPT !.str = FieldText(Field(@))] ELSE c
        cells == [i \in DOMAIN row |-> cell(row[i])]
        bytes == RowSize(cells)
    IN  /\ pc = "tuples" /\ Len(given) < MaxRows
        /\ given' = Append(given, row)
        /\ IF TryAccount(result, bytes)
           THEN /\ result' = [result EXCEPT !.bytes = @ + bytes, !.rows = Append(@, cells)]
                /\ UNCHANGED <<pc, wire, open>>
           ELSE UNCHANGED result /\ \E n \in DiagnosticSizes : SendError(n)
        /\ UNCHANGED <<nsent, client>>

EndOfTuples ==
    /\ pc = "tuples" /\ pc' = "send"
    /\ UNCHANGED <<result, given, nsent, wire, open, client>>

-----------------------------------------------------------------------------
(* send_query_result up to META: the shape of every row is checked first.  *)
SendMeta ==
    LET shaped == \A i \in DOMAIN result.rows :
                      /\ Len(result.rows[i]) = Len(result.columns)
                      /\ \A j \in DOMAIN result.columns :
                            result.rows[i][j].type = result.columns[j].type
    IN  /\ pc = "send" /\ ~result.raw
        /\ IF shaped /\ MetaFits(result.columns)
           THEN WriteFrame(TagMeta, 0, EncodeMeta(result.columns), "rows")
           ELSE \E n \in DiagnosticSizes : SendError(n)
        /\ UNCHANGED <<result, given, nsent, client>>

(* A row that cannot be encoded ends the session.                          *)
SendRow ==
    LET row == result.rows[nsent + 1]
    IN  /\ pc = "rows" /\ nsent < Len(result.rows)
        /\ nsent' = nsent + 1
        /\ IF RowFits(row) THEN WriteFrame(TagRow, 0, EncodeRow(row), "rows")
           ELSE pc' = "done" /\ open' = FALSE /\ UNCHANGED wire
        /\ UNCHANGED <<result, given, client>>

SendEnd ==
    /\ pc = "rows" /\ nsent = Len(result.rows)
    /\ WriteFrame(TagResultEnd, 0, EncodeResultEnd(Len(result.rows)), "done")
    /\ UNCHANGED <<result, given, nsent, client>>

(* send_raw_text_result: META and the row are encoded before META is sent; *)
(* the row and RESULT_END then go out by SendRow and SendEnd.              *)
SendRawMeta ==
    /\ pc = "send" /\ result.raw
    /\ IF MetaFits(result.columns) /\ RowFits(result.rows[1])
       THEN WriteFrame(TagMeta, FlagRawText, EncodeMeta(result.columns), "rows")
       ELSE \E n \in DiagnosticSizes : SendError(n)
    /\ UNCHANGED <<result, given, nsent, client>>

-----------------------------------------------------------------------------
(* The loop of ExecStreamResult: the response to a frame, by its tag.      *)
Ended(status) == [client EXCEPT !.status = status]

Consume(f) ==
    CASE f.status = "bad" -> Ended("ProtocolError")
      [] f.tag = TagCommandOk ->
           Ended(IF f.flags = 0 /\ client.state = "AwaitFirst" /\ f.payload = <<>>
                 THEN "CommandOk" ELSE "ProtocolError")
      [] f.tag = TagError -> Ended(IF f.flags = 0 THEN "SqlError" ELSE "ProtocolError")
      [] f.tag = TagTransactionAbort ->
           Ended(IF f.flags = 0 THEN "TransactionAbort" ELSE "ProtocolError")
      [] f.tag = TagMeta ->
           LET d == DecodeMeta(f.payload)
           IN  IF \/ f.flags \notin {0, FlagRawText} \/ client.state # "AwaitFirst" \/ ~d.ok
                  \/ (f.flags = FlagRawText /\ (Len(d.columns) # 1 \/ d.columns[1].type # TypeChar))
               THEN Ended("ProtocolError")
               ELSE [client EXCEPT !.state = "Rows", !.columns = d.columns,
                                   !.raw = f.flags = FlagRawText]
      [] f.tag = TagRow ->
           LET d == DecodeRow(f.payload, client.columns)
           IN  IF f.flags # 0 \/ client.state # "Rows" THEN Ended("ProtocolError")
               ELSE IF ~d.ok THEN Ended("ProtocolError")
               ELSE [client EXCEPT !.rows = Append(@, d.cells)]
      [] f.tag = TagResultEnd ->
           Ended(IF /\ f.flags = 0 /\ client.state = "Rows" /\ Len(f.payload) = W64
                    /\ FromBigEndian(f.payload) = Len(client.rows)
                 THEN "ResultSet" ELSE "ProtocolError")
      [] OTHER -> Ended("ProtocolError")

ClientReads ==
    LET f == ReadFrame(wire)
    IN  /\ pc = "done" /\ client.status = ""
        /\ \/ f.status # "wait" /\ client' = Consume(f) /\ wire' = f.rest
           \/ f.status = "wait" /\ ~open /\ client' = Ended("TransportError") /\ UNCHANGED wire
        /\ UNCHANGED serverVars

Finished == client.status # "" /\ UNCHANGED vars

Next ==
    \/ Command \/ StatementFails \/ EndOfTuples
    \/ \E columns \in Schemas : SetColumns(columns)
    \/ \E text \in Texts : SetRawText(text)
    \/ \E list \in Listings : SetStringResult(list)
    \/ \E row \in Rows(result.columns) : AddRow(row)
    \/ SendMeta \/ SendRow \/ SendEnd \/ SendRawMeta \/ ClientReads \/ Finished

Spec == Init /\ [][Next]_vars

-----------------------------------------------------------------------------
(* Types of the buffer, the wire and the client; try_account keeps the     *)
(* buffered result within its limit of 16 MiB.                             *)
TypeOK ==
    /\ pc \in {"exec", "tuples", "send", "rows", "done"}
    /\ result.bytes \in 0..MaxBuffered /\ nsent \in 0..Len(result.rows)
    /\ wire \in Seq(Byte) /\ open \in BOOLEAN
    /\ client.status \in {"", "CommandOk", "SqlError", "TransactionAbort", "ResultSet",
                          "ProtocolError", "TransportError"}

(* A result set reported to the caller of Execute is the whole result of   *)
(* the query, value by value and in order: no break of the connection, no  *)
(* limit of a frame and no padding of a field makes it a different one.    *)
DeliveredExactly ==
    client.status = "ResultSet" =>
        /\ client.columns = result.columns /\ client.raw = result.raw
        /\ client.rows = given

(* While the connection is up and the server waits for the next request,   *)
(* the client is not waiting for the server.                               *)
ClientNeverStarves ==
    pc = "done" /\ open /\ client.status = "" => ReadFrame(wire).status # "wait"

(* Both ends agree on the format and its limits: whatever the server       *)
(* manages to send, the client never calls it a protocol error, and every  *)
(* response has an end that the client sees.                               *)
(* The variables also keep their types (TypeOK).                           *)
NoProtocolError == TypeOK /\ ClientNeverStarves /\ client.status # "ProtocolError"
=============================================================================
