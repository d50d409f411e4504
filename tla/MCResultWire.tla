---------------------------- MODULE MCResultWire ----------------------------
(***************************************************************************)
(* Schemas and values at the limits: names and payloads just within and    *)
(* just beyond, empty and full CHAR fields, the longest raw text.          *)
(*                                                                         *)
(* Before the statement starts, payload may also grow, byte by byte, to any*)
(* string of PayloadBytes, for the properties of the decoders alone.       *)
(***************************************************************************)
EXTENDS ResultWire

CONSTANTS PayloadBytes, MaxBytes     \* bytes of payload, bound on its length

VARIABLE payload

Name(n) == [i \in 1..n |-> 1]

MCSchemas == {<<Column(Name(1), TypeChar), Column(Name(2), TypeInt)>>,
              <<Column(Name(1), TypeFloat)>>,
              <<Column(Name(1), TypeChar), Column(Name(1), TypeChar)>>,
              <<Column(Name(MaxU16), TypeInt)>>,
              <<Column(Name(MaxU16 + 1), TypeInt)>>,
              <<Column(Name(4), TypeInt), Column(Name(5), TypeInt)>>,
              <<Column(Name(MaxBuffered), TypeInt)>>}
MCTexts == {Name(n) : n \in {0, 1, MaxPayload - W32 - 1, MaxPayload - W32,
                              MaxRawText, MaxRawText + 1}}
MCListings ==
    {[names |-> <<Name(1)>>, rows |-> [r \in 1..n |-> <<Name(len)>>]] :
        n \in 0..2, len \in {0, CharLen, MaxPayload - W32}}
    \cup {[names |-> <<Name(1), Name(2), Name(1)>>, rows |-> <<<<Name(1), Name(2), Name(0)>>>>]}
MCBits == {0, 8, MaxU32}
MCStrings == {<<>>, <<2>>, [i \in 1..CharLen |-> 3]}

MCInit == Init /\ payload = <<>>

Grow ==
    /\ pc = "exec" /\ Len(payload) < MaxBytes
    /\ \E b \in PayloadBytes : payload' = Append(payload, b)
    /\ UNCHANGED vars
Grown == Len(payload) = MaxBytes /\ UNCHANGED <<vars, payload>>
Statement == payload = <<>> /\ Next /\ UNCHANGED payload

MCSpec == MCInit /\ [][Grow \/ Grown \/ Statement]_<<vars, payload>>

(* Schemas a ROW is decoded against.                                       *)
RowSchemas == {<<Column(<<1>>, TypeChar)>>, <<Column(<<1>>, TypeInt)>>,
            <<Column(<<1>>, TypeChar), Column(<<2>>, TypeFloat)>>}

(* META has one encoding: a payload that ExecStreamResult accepts is the   *)
(* one TryEncodeMeta writes for the columns decoded from it.  So two peers *)
(* never read different schemas from one payload, nor accept garbage.      *)
MetaCanonical ==
    LET d == DecodeMeta(payload)
    IN  d.ok => MetaFits(d.columns) /\ EncodeMeta(d.columns) = payload

(* The same for ROW and every schema.                                      *)
RowCanonical ==
    \A schema \in RowSchemas :
        LET d == DecodeRow(payload, schema)
        IN  d.ok => RowFits(d.cells) /\ EncodeRow(d.cells) = payload

(* A frame is read from the shortest string that holds it: no strict       *)
(* prefix of an accepted frame is accepted or rejected, the reader waits.  *)
FramesSelfDelimiting ==
    LET f == ReadFrame(payload)
    IN  f.status = "ok" /\ f.rest = <<>> =>
            /\ EncodeFrame(f.tag, f.flags, f.payload) = payload
            /\ \A n \in 0..(Len(payload) - 1) :
                  ReadFrame(SubSeq(payload, 1, n)).status = "wait"

(* Client and server cannot read different things from the same bytes: the *)
(* decoders of wire.cpp accept only what its encoders write.               *)
EncodingsCanonical == MetaCanonical /\ RowCanonical /\ FramesSelfDelimiting
=============================================================================
