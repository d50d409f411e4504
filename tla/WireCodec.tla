----------------------------- MODULE WireCodec -----------------------------
(***************************************************************************)
(* The payload encodings of net/wire.cpp: META, ROW, RESULT_END and the    *)
(* frame around them, byte by byte.                                        *)
(*                                                                         *)
(* The sizes are constants: a byte has Base values and an unsigned integer *)
(* W16, W32 or W64 bytes, so that the limits of the code are within reach. *)
(* The tags and types of wire.h are renumbered to fit into such a byte.    *)
(* A payload being decoded is a cursor: what is left of it, and the value  *)
(* read last.                                                              *)
(***************************************************************************)
EXTENDS Naturals, Sequences, SequencesExt

CONSTANTS Base, W16, W32, W64,
          MaxPayload,      \* kMaxPayloadBytes
          MaxDiagnostic    \* kMaxDiagnosticBytes

ASSUME CodecSizes ==
    /\ Base \in Nat /\ Base > 6 /\ W16 \in Nat \ {0} /\ W32 \in Nat /\ W64 \in Nat
    /\ W16 <= W32 /\ W32 <= W64
    /\ MaxDiagnostic <= MaxPayload /\ MaxPayload < Base^W32

Byte == 0..(Base - 1)
MaxU16 == Base^W16 - 1
MaxU32 == Base^W32 - 1

TagMeta == 1
TagRow == 2
TagCommandOk == 3
TagResultEnd == 4
TagTransactionAbort == 5
TagError == 6
FlagRawText == 1
TypeInt == 1
TypeFloat == 2
TypeChar == 3

IsKnownSqlType(t) == t \in {TypeInt, TypeFloat, TypeChar}

(* ColumnDef and Cell; the bits of an INT or FLOAT cell are one field.     *)
Column(name, type) == [name |-> name, type |-> type]
Cell(type, bits, str) == [type |-> type, null |-> FALSE, bits |-> bits, str |-> str]
NullCell(type) == [type |-> type, null |-> TRUE, bits |-> 0, str |-> <<>>]

(* AppendU8, AppendU16, AppendU32, AppendU64: most significant byte first. *)
BigEndian(n, width) == [i \in 1..width |-> (n \div Base^(width - i)) % Base]
FromBigEndian(bytes) == FoldLeft(LAMBDA n, b : n * Base + b, 0, bytes)

-----------------------------------------------------------------------------
(* The sizes TryEncodeMeta and TryEncodeRow add up before they encode.     *)
ColumnSize(c) == W16 + Len(c.name) + 1
CellSize(c) ==
    1 + IF c.null THEN 0 ELSE W32 + IF c.type = TypeChar THEN Len(c.str) ELSE 0
TotalSize(Size(_), items) == FoldLeft(LAMBDA n, x : n + Size(x), 0, items)

(* Mutant: only the size of the whole payload is checked.                  *)
MetaFitsTotal(columns) ==
    columns # <<>> /\ W16 + TotalSize(ColumnSize, columns) <= MaxPayload

(* TryEncodeMeta: when it succeeds, and what it writes.                    *)
MetaFits(columns) ==
    /\ Len(columns) \in 1..MaxU16
    /\ \A i \in DOMAIN columns :
          Len(columns[i].name) \in 1..MaxU16 /\ IsKnownSqlType(columns[i].type)
    /\ W16 + TotalSize(ColumnSize, columns) <= MaxPayload

EncodeMeta(columns) ==
    BigEndian(Len(columns), W16) \o FlattenSeq([i \in DOMAIN columns |->
        BigEndian(Len(columns[i].name), W16) \o columns[i].name \o <<columns[i].type>>])

AppendCell(c) ==
    CASE c.null -> <<0>>
      [] ~c.null /\ c.type = TypeChar -> <<1>> \o BigEndian(Len(c.str), W32) \o c.str
      [] ~c.null /\ c.type # TypeChar -> <<1>> \o BigEndian(c.bits, W32)

(* TryEncodeRow.                                                           *)
RowFits(cells) ==
    /\ cells # <<>>
    /\ \A i \in DOMAIN cells :
          /\ IsKnownSqlType(cells[i].type)
          /\ ~cells[i].null /\ cells[i].type = TypeChar => Len(cells[i].str) <= MaxU32
    /\ TotalSize(CellSize, cells) <= MaxPayload

EncodeRow(cells) == FlattenSeq([i \in DOMAIN cells |-> AppendCell(cells[i])])

EncodeResultEnd(n) == BigEndian(n, W64)

-----------------------------------------------------------------------------
(* ReadU8, ReadU16, ReadU32, ReadU64 and ReadBytes: the next n bytes of a  *)
(* cursor, if it has as many.                                              *)
Cursor(bytes) == [ok |-> TRUE, rest |-> bytes]
Failed == [ok |-> FALSE, rest |-> <<>>]
Has(cur, n) == cur.ok /\ Len(cur.rest) >= n
Bytes(cur, n) == SubSeq(cur.rest, 1, n)
Uint(cur, n) == FromBigEndian(Bytes(cur, n))
Skip(cur, n) == IF Has(cur, n) THEN [cur EXCEPT !.rest = SubSeq(@, n + 1, Len(@))] ELSE Failed

BadCell(type) == [cur |-> Failed, cell |-> NullCell(type)]

(* The value of a cell that is present.                                    *)
DecodeValue(cur, type) ==
    LET size == IF type = TypeChar /\ Has(cur, W32) THEN Uint(cur, W32) ELSE 0
    IN  IF ~Has(cur, W32 + size) THEN BadCell(type)
        ELSE [cur |-> Skip(cur, W32 + size),
              cell |-> IF type = TypeChar THEN Cell(type, 0, Bytes(Skip(cur, W32), size))
                       ELSE Cell(type, Uint(cur, W32), <<>>)]

(* Mutant: any byte but 0 says that a value is present.                    *)
DecodeCellLax(cur, type) ==
    IF ~Has(cur, 1) \/ ~IsKnownSqlType(type) THEN BadCell(type)
    ELSE IF Uint(cur, 1) = 0 THEN [cur |-> Skip(cur, 1), cell |-> NullCell(type)]
    ELSE DecodeValue(Skip(cur, 1), type)

(* DecodeCell: the cell at the cursor, and the cursor after it.            *)
DecodeCell(cur, type) ==
    IF ~Has(cur, 1) \/ ~IsKnownSqlType(type) THEN BadCell(type)
    ELSE CASE Uint(cur, 1) = 0 -> [cur |-> Skip(cur, 1), cell |-> NullCell(type)]
           [] Uint(cur, 1) = 1 -> DecodeValue(Skip(cur, 1), type)
           [] OTHER -> BadCell(type)

(* ExecStreamResult, case kTagRow: a cell per column and no byte left.     *)
DecodeRow(payload, columns) ==
    LET next(st, col) == LET d == DecodeCell(st.cur, col.type)
                         IN  [cur |-> d.cur, cells |-> Append(st.cells, d.cell)]
        all == FoldLeft(next, [cur |-> Cursor(payload), cells |-> <<>>], columns)
    IN  [ok |-> all.cur.ok /\ all.cur.rest = <<>>, cells |-> all.cells]

(* One column of META.                                                     *)
DecodeColumn(st) ==
    LET size == IF Has(st.cur, W16) THEN Uint(st.cur, W16) ELSE 0
        name == Skip(st.cur, W16)
        type == Skip(name, size)
    IN  IF size = 0 \/ ~Has(type, 1) THEN [st EXCEPT !.cur = Failed]
        ELSE IF ~IsKnownSqlType(Uint(type, 1)) THEN [st EXCEPT !.cur = Failed]
        ELSE [cur |-> Skip(type, 1),
              columns |-> Append(st.columns, Column(Bytes(name, size), Uint(type, 1)))]

(* ExecStreamResult, case kTagMeta.                                        *)
DecodeMeta(payload) ==
    LET count == IF Has(Cursor(payload), W16) THEN Uint(Cursor(payload), W16) ELSE 0
        all == FoldLeft(LAMBDA st, i : DecodeColumn(st),
                        [cur |-> Skip(Cursor(payload), W16), columns |-> <<>>],
                        [i \in 1..count |-> i])
    IN  [ok |-> count > 0 /\ all.cur.ok /\ all.cur.rest = <<>>, columns |-> all.columns]

-----------------------------------------------------------------------------
(* WriteFrame: the limits it checks, and the header it puts before the     *)
(* payload: length, tag, flags and two reserved bytes.                     *)
HeaderSize == W32 + 4
IsDiagnostic(tag) == tag \in {TagError, TagTransactionAbort}
FrameFits(tag, payload) ==
    Len(payload) <= IF IsDiagnostic(tag) THEN MaxDiagnostic ELSE MaxPayload
EncodeFrame(tag, flags, payload) ==
    BigEndian(Len(payload), W32) \o <<tag, flags, 0, 0>> \o payload

(* The headers ReadFrameInternal refuses.                                  *)
BadHeader(header) ==
    LET len == Uint(Cursor(header), W32)
        tag == header[W32 + 1]
    IN  \/ len > MaxPayload
        \/ IsDiagnostic(tag) /\ len > MaxDiagnostic
        \/ header[W32 + 3] # 0 \/ header[W32 + 4] # 0

(* ReadFrameInternal: "wait" when the bytes do not suffice, else the frame *)
(* and what follows it.                                                    *)
ReadFrame(bytes) ==
    LET cur == Cursor(bytes)
        len == Uint(cur, W32)
        none == [status |-> "wait", tag |-> 0, flags |-> 0, payload |-> <<>>, rest |-> bytes]
    IN  IF ~Has(cur, HeaderSize) THEN none
        ELSE IF BadHeader(bytes) THEN [none EXCEPT !.status = "bad"]
        ELSE IF ~Has(cur, HeaderSize + len) THEN none
        ELSE [status |-> "ok", tag |-> bytes[W32 + 1], flags |-> bytes[W32 + 2],
              payload |-> Bytes(Skip(cur, HeaderSize), len),
              rest |-> Skip(cur, HeaderSize + len).rest]
=============================================================================
