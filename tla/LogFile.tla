------------------------------ MODULE LogFile ------------------------------
(***************************************************************************)
(* The write-ahead log: the records of recovery/log_manager.h and their    *)
(* bytes, LogBuffer, and DiskManager::write_log and read_log.              *)
(*                                                                         *)
(* Nothing in the system logs yet.  add_log_to_buffer, flush_log_to_disk   *)
(* and the reader of recovery are exercises; here they use the code that   *)
(* is given for them in the way their comments say.  A value of n bytes is *)
(* n pairs <<value, place>>: read elsewhere than where it begins, or with  *)
(* another width, it gives Garbage.                                        *)
(***************************************************************************)
EXTENDS Integers, Sequences, SequencesExt

CONSTANTS
    Txns,          \* txn_id_t
    ValueSizes,    \* sizes of the records that are inserted
    NameSizes,     \* lengths of table names
    BufferSize,    \* LOG_BUFFER_SIZE
    LogMaxRecord,  \* RM_MAX_RECORD_SIZE
    MaxLogs        \* bound on log records

VARIABLES
    buffer,    \* the bytes in LogBuffer
    file,      \* the bytes of the log file
    logged,    \* history: every record added and not lost in a crash
    torn       \* a write_log has ended in the middle

logVars == <<buffer, file, logged, torn>>

LogInit == buffer = <<>> /\ file = <<>> /\ logged = <<>> /\ torn = FALSE

IntSize == 4
RidBytes == 8
SizeTSize == 8
InvalidLsn == -1
HeaderSize == 5 * IntSize     \* LOG_HEADER_SIZE
Garbage == -2

-----------------------------------------------------------------------------
(* Mutant: the length leaves out the size of the name.                     *)
TotLenNoSize(r) ==
    HeaderSize + IF r.type = "begin" THEN 0
                 ELSE IntSize + r.size + RidBytes + r.nameSize

(* log_tot_len_, as the constructors add it up.                            *)
TotLen(r) ==
    HeaderSize + IF r.type = "begin" THEN 0
                 ELSE IntSize + r.size + RidBytes + SizeTSize + r.nameSize

LogTypes == [begin |-> 3, insert |-> 1]     \* LogType

Bytes(v, n) == [i \in 1..n |-> <<v, i>>]
Get(src, at, n) ==
    IF at + n <= Len(src) /\ n > 0 /\ SubSeq(src, at + 1, at + n) = Bytes(src[at + 1][1], n)
    THEN src[at + 1][1] ELSE Garbage

Serialize(r) ==
    Bytes(LogTypes[r.type], IntSize) \o Bytes(r.lsn, IntSize) \o Bytes(TotLen(r), IntSize)
    \o Bytes(r.txn, IntSize) \o Bytes(r.prev, IntSize)
    \o IF r.type = "begin" THEN <<>>
       ELSE Bytes(r.size, IntSize) \o Bytes(r.value, r.size) \o Bytes(r.rid, RidBytes)
            \o Bytes(r.nameSize, SizeTSize) \o Bytes(r.name, r.nameSize)

(* LogRecord::deserialize, then that of the type.  RmRecord::Deserialize   *)
(* checks the size.                                                        *)
DeserializeInsert(src) ==
    LET size == Get(src, HeaderSize, IntSize)
        rid == HeaderSize + IntSize + size
        nameSize == Get(src, rid + RidBytes, SizeTSize)
    IN  IF size \notin 0..LogMaxRecord THEN [size |-> Garbage]
        ELSE [size |-> size, value |-> IF size = 0 THEN 0 ELSE Get(src, HeaderSize + IntSize, size),
              rid |-> Get(src, rid, RidBytes), nameSize |-> nameSize,
              name |-> Get(src, rid + RidBytes + SizeTSize, nameSize)]

Deserialize(src) ==
    LET head == [type |-> CHOOSE t \in DOMAIN LogTypes : LogTypes[t] = Get(src, 0, IntSize),
                 lsn |-> Get(src, IntSize, IntSize),
                 txn |-> Get(src, 3 * IntSize, IntSize), prev |-> Get(src, 4 * IntSize, IntSize)]
    IN  IF Get(src, 0, IntSize) \notin Range(LogTypes) THEN [type |-> "garbage"]
        ELSE IF head.type = "begin" THEN head
        ELSE DeserializeInsert(src) @@ head

-----------------------------------------------------------------------------
(* The records: BeginLogRecord and InsertLogRecord.                        *)
BeginLogRecord(lsn, txn) == [type |-> "begin", lsn |-> lsn, txn |-> txn, prev |-> InvalidLsn]
InsertLogRecord(lsn, txn, size, nameSize) ==
    [type |-> "insert", lsn |-> lsn, txn |-> txn, prev |-> lsn - 1, size |-> size,
     value |-> IF size = 0 THEN 0 ELSE 10 + lsn, rid |-> 20 + lsn,
     nameSize |-> nameSize, name |-> 30 + nameSize]

(* is_full, and add_log_to_buffer where it is not.                         *)
IsFull(n) == Len(buffer) + n > BufferSize

AddLog(r) ==
    /\ ~torn /\ Len(logged) < MaxLogs /\ ~IsFull(TotLen(r))
    /\ buffer' = buffer \o Serialize(r) /\ logged' = Append(logged, r)
    /\ UNCHANGED <<file, torn>>

(* flush_log_to_disk with write_log, which appends at the end of the file. *)
Flush ==
    /\ ~torn /\ buffer # <<>>
    /\ file' = file \o buffer /\ buffer' = <<>>
    /\ UNCHANGED <<logged, torn>>

(* The write is cut short, and the process ends.                           *)
TornFlush(n) ==
    /\ ~torn /\ n < Len(buffer)
    /\ file' = file \o SubSeq(buffer, 1, n) /\ buffer' = <<>> /\ torn' = TRUE
    /\ UNCHANGED logged

LogNext ==
    \/ \E txn \in Txns : AddLog(BeginLogRecord(Len(logged), txn))
    \/ \E txn \in Txns, s \in ValueSizes, n \in NameSizes :
            AddLog(InsertLogRecord(Len(logged), txn, s, n))
    \/ Flush \/ \E n \in 0..BufferSize : TornFlush(n)

LogSpec == LogInit /\ [][LogNext]_logVars

-----------------------------------------------------------------------------
(* read_log: at most size bytes from offset on, and -1 beyond the end.     *)
ReadLog(size, offset) ==
    IF offset > Len(file) THEN [n |-> -1, bytes |-> <<>>]
    ELSE LET n == IF size < Len(file) - offset THEN size ELSE Len(file) - offset
         IN  [n |-> n, bytes |-> SubSeq(file, offset + 1, offset + n)]

(* Recovery: a header, then the record it is the header of, until one is   *)
(* not there as a whole.                                                   *)
ReadBack ==
    LET from[at \in 0..Len(file)] ==
            LET head == ReadLog(HeaderSize, at)
                len == Get(head.bytes, 2 * IntSize, IntSize)
            IN  IF head.n < HeaderSize \/ len < HeaderSize \/ ReadLog(len, at).n < len THEN <<>>
                ELSE <<Deserialize(ReadLog(len, at).bytes)>> \o from[at + len]
    IN  from[0]

(* Where a record ends, in the bytes of all the records.                   *)
EndOf(i) == FoldLeft(LAMBDA a, r : a + Len(Serialize(r)), 0, SubSeq(logged, 1, i))

(* The buffer never overflows, and only a torn write leaves in the file    *)
(* bytes that are not those of whole records.                              *)
LogTypeOK ==
    /\ Len(buffer) <= BufferSize
    /\ ~torn => Len(file) + Len(buffer) = EndOf(Len(logged))

(* What recovery reads back from the log is the records that reached it as *)
(* a whole, in order, each as it was logged, also where the last write was *)
(* torn at any byte: the lengths of the constructors, the offsets of       *)
(* serialize and deserialize and the short answers of read_log agree.      *)
(* The variables also keep their types (LogTypeOK).                        *)
LogReadsBack ==
    /\ LogTypeOK
    /\ LET whole == {i \in DOMAIN logged : EndOf(i) <= Len(file)}
       IN  ReadBack = [i \in whole |-> logged[i]]
=============================================================================
