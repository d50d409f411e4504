----------------------------- MODULE ExecStream -----------------------------
(***************************************************************************)
(* The EXEC_STREAM request protocol between net/client.cpp and the session *)
(* loop of server/server.cpp, over the framing of net/wire.cpp.            *)
(*                                                                         *)
(* A frame is one element of a channel; its bytes are abstracted to the tag*)
(* and what the receiver checks.  A write that fails half way leaves a TORN*)
(* frame.  Frames carry the number of the request they belong to (req), a  *)
(* history value that no code reads.  Every reconnect is a new connection  *)
(* with channels of its own; an old session may still be running.          *)
(***************************************************************************)
EXTENDS Naturals, Sequences

CONSTANTS MaxRequests,  \* bound on Execute calls
          MaxConns,     \* bound on connections the client opens
          MaxRows,      \* bound on rows of a result set
          None          \* the descriptor -1, no request, no report

ASSUME BoundsAssumption ==
    /\ MaxRequests \in Nat /\ MaxConns \in Nat /\ MaxRows \in Nat
    /\ None \notin Nat

Requests == 1..MaxRequests
Conns == 1..MaxConns

(* What execute_sql can come to: a single frame, or a result set.  badRow  *)
(* is the first row whose encoding exceeds a frame, 0 if every row fits; a *)
(* raw text result is one row, encoded before META is written.             *)
Outcomes ==
    [kind : {"OK", "ERROR", "ABORT"}, rows : {0}, badRow : {0}]
    \cup {o \in [kind : {"ROWS"}, rows : 0..MaxRows, badRow : 0..MaxRows] :
             o.badRow <= o.rows}

(* The part of an outcome the caller of Execute is to learn.               *)
Replies == [req : {{r} : r \in Requests}, kind : {"OK", "ERROR", "ABORT", "ROWS"},
            rows : 0..MaxRows]

Tags == {"HELLO", "EXEC", "META", "ROW", "END", "OK", "ERROR", "ABORT", "TORN"}
Frame(tag, req, n) == [tag |-> tag, req |-> req, n |-> n]

Statuses == {"CommandOk", "ResultSet", "SqlError", "TransactionAbort",
             "InvalidRequest", "TransportError", "ProtocolError",
             "ConsumerStopped"}

(* What Execute can return: the status, the requests whose frames it saw,  *)
(* the rows it counted.                                                    *)
Results == [status : Statuses, from : SUBSET Requests, rows : Nat]

ASSUME NoneAssumption == None \notin Replies /\ None \notin Results

VARIABLES
    fd,         \* Client::Impl::fd: its connection, None when closed
    phase,      \* what the call holding Client::Impl::mutex waits for
    cand,       \* connection that Connect is shaking hands on
    nconn,      \* connections opened so far
    issued,     \* Execute calls made so far; the current one is the last
    observed,   \* ExecStreamResult: observed_rows
    stopped,    \* ExecStreamResult: consumer_stopped
    seen,       \* history: requests the consumed frames belong to
    sent,       \* history: requests whose frame was written completely
    report,     \* per request: what Execute returned
    link,       \* per connection: unused, up, or cut by the network
    cEnd,       \* per connection: client end still open
    c2s, s2c,   \* per connection: frames in flight
    srv,        \* per connection: the session of handle_client
    reply       \* history, per request: what the server computed

clientVars == <<fd, phase, cand, nconn, issued, observed, stopped, seen,
                sent, report>>
netVars == <<link, cEnd, c2s, s2c>>
serverVars == <<srv, reply>>
vars == <<clientVars, netVars, serverVars>>

SrvPCs == {"unused", "hello", "read", "exec", "first", "rows", "closed"}
Session(p, r, o, s) == [pc |-> p, req |-> r, out |-> o, sent |-> s]
NoOutcome == [kind |-> "OK", rows |-> 0, badRow |-> 0]
Unused == Session("unused", None, NoOutcome, 0)

Init ==
    /\ fd = None /\ phase = "idle" /\ cand = None /\ nconn = 0
    /\ issued = 0 /\ observed = 0 /\ stopped = FALSE /\ seen = {} /\ sent = {}
    /\ report = [r \in Requests |-> None]
    /\ link = [k \in Conns |-> "unused"]
    /\ cEnd = [k \in Conns |-> FALSE]
    /\ c2s = [k \in Conns |-> <<>>]
    /\ s2c = [k \in Conns |-> <<>>]
    /\ srv = [k \in Conns |-> Unused]
    /\ reply = [r \in Requests |-> None]

-----------------------------------------------------------------------------
(* Framing and the network.                                                *)

(* ReadFrame on channel q of connection k can complete.                    *)
Readable(k, q) == link[k] = "up" /\ q # <<>> /\ Head(q).tag # "TORN"

(* The network stops delivering; neither end is told.                      *)
Cut(k) ==
    /\ link[k] = "up"
    /\ cEnd[k] \/ srv[k].pc # "closed"
    /\ link' = [link EXCEPT ![k] = "cut"]
    /\ UNCHANGED <<clientVars, cEnd, c2s, s2c, serverVars>>

(* A frame written to a peer that has closed its end is lost.              *)
Receives(end, q, f) == IF end THEN Append(q, f) ELSE q

-----------------------------------------------------------------------------
(* Client: Connect, Close.                                                 *)

CloseEnd(end, k) == IF k \in Conns THEN [end EXCEPT ![k] = FALSE] ELSE end

(* Connect closes the old descriptor first, then connects, configures and  *)
(* sends the handshake; the server accepts into a new session.             *)
Connect ==
    /\ phase = "idle"
    /\ nconn < MaxConns
    /\ LET k == nconn + 1 IN
          /\ nconn' = k
          /\ cand' = k
          /\ cEnd' = [CloseEnd(cEnd, fd) EXCEPT ![k] = TRUE]
          /\ link' = [link EXCEPT ![k] = "up"]
          /\ c2s' = [c2s EXCEPT ![k] = <<Frame("HELLO", None, 0)>>]
          /\ srv' = [srv EXCEPT ![k].pc = "hello"]
    /\ fd' = None
    /\ phase' = "hello"
    /\ UNCHANGED <<issued, observed, stopped, seen, sent, report, s2c, reply>>

(* ClientHandshake reads the echo; only now is the descriptor published.   *)
HandshakeEcho ==
    /\ phase = "hello"
    /\ Readable(cand, s2c[cand])
    /\ s2c' = [s2c EXCEPT ![cand] = Tail(@)]
    /\ fd' = cand
    /\ cand' = None
    /\ phase' = "idle"
    /\ UNCHANGED <<nconn, issued, observed, stopped, seen, sent, report, link, cEnd,
                   c2s, serverVars>>

(* EOF or timeout instead of the echo: UniqueFd closes the candidate.      *)
HandshakeFails ==
    /\ phase = "hello"
    /\ ~Readable(cand, s2c[cand])
    /\ cEnd' = CloseEnd(cEnd, cand)
    /\ s2c' = [s2c EXCEPT ![cand] = <<>>]
    /\ cand' = None
    /\ phase' = "idle"
    /\ UNCHANGED <<fd, nconn, issued, observed, stopped, seen, sent, report, link,
                   c2s, serverVars>>

(* Close, or a Connect that closed the old descriptor and was then refused.*)
(* Both wait for the mutex, so they never interrupt an Execute.            *)
ClientClose ==
    /\ phase = "idle"
    /\ fd # None
    /\ cEnd' = CloseEnd(cEnd, fd)
    /\ fd' = None
    /\ UNCHANGED <<phase, cand, nconn, issued, observed, stopped, seen, sent, report,
                   link, c2s, s2c, serverVars>>

-----------------------------------------------------------------------------
(* Client: Execute and ExecStreamResult.                                   *)

(* Mutant: a transport failure leaves the connection open.                 *)
ReusableAlways(status) == status # "ProtocolError"

(* connection_reusable()                                                   *)
Reusable(status) == status \notin {"TransportError", "ProtocolError"}

(* What Execute returned: the status, and the requests whose frames it saw.*)
Result(status, from, rows) == [status |-> status, from |-> from, rows |-> rows]

(* Execute returns for request r: a status that is not reusable closes fd. *)
Return(r, status, from, rows) ==
    /\ report' = [report EXCEPT ![r] = Result(status, from, rows)]
    /\ phase' = "idle"
    /\ fd' = IF Reusable(status) THEN fd ELSE None
    /\ cEnd' = IF Reusable(status) THEN cEnd ELSE CloseEnd(cEnd, fd)
    /\ observed' = 0 /\ stopped' = FALSE /\ seen' = {}

(* Execute on a client that is not open, or with an empty or oversized SQL *)
(* text, returns at once.                                                  *)
ExecuteRefused ==
    /\ phase = "idle"
    /\ issued < MaxRequests
    /\ issued' = issued + 1
    /\ \/ fd = None /\ Return(issued', "TransportError", {}, 0)
       \/ fd # None /\ Return(issued', "InvalidRequest", {}, 0)
    /\ UNCHANGED <<cand, nconn, sent, link, c2s, s2c, serverVars>>

(* WriteFrame fails, perhaps after part of the frame has left.             *)
ExecuteSendFails ==
    /\ phase = "idle"
    /\ issued < MaxRequests
    /\ fd # None
    /\ issued' = issued + 1
    /\ \/ UNCHANGED c2s
       \/ c2s' = [c2s EXCEPT ![fd] =
                    Receives(srv[fd].pc # "closed", @, Frame("TORN", None, 0))]
    /\ Return(issued', "TransportError", {}, 0)
    /\ UNCHANGED <<cand, nconn, sent, link, s2c, serverVars>>

ExecuteSend ==
    /\ phase = "idle"
    /\ issued < MaxRequests
    /\ fd # None
    /\ issued' = issued + 1
    /\ c2s' = [c2s EXCEPT ![fd] =
                  Receives(srv[fd].pc # "closed", @, Frame("EXEC", issued', 0))]
    /\ phase' = "await"
    /\ sent' = sent \cup {issued'}
    /\ UNCHANGED <<fd, cand, nconn, observed, stopped, seen, report, link, cEnd,
                   s2c, serverVars>>

(* The response state machine of ExecStreamResult for frame f: a final     *)
(* status, or "more".  phase is AwaitFirst ("await") or Rows ("rows").     *)
Interpret(f) ==
    CASE f.tag = "OK"    -> IF phase = "await" THEN "CommandOk" ELSE "ProtocolError"
      [] f.tag = "ERROR" -> "SqlError"
      [] f.tag = "ABORT" -> "TransactionAbort"
      [] f.tag = "META"  -> IF phase = "await" THEN "more" ELSE "ProtocolError"
      [] f.tag = "ROW"   -> IF phase = "rows" THEN "more" ELSE "ProtocolError"
      [] f.tag = "END"   -> IF phase # "rows" \/ f.n # observed THEN "ProtocolError"
                            ELSE IF stopped THEN "ConsumerStopped" ELSE "ResultSet"
      [] OTHER           -> "ProtocolError"

(* Mutant: a consumer that asks to stop ends the call at once.             *)
ReceiveStopsEarly ==
    /\ phase \in {"await", "rows"}
    /\ Readable(fd, s2c[fd])
    /\ s2c' = [s2c EXCEPT ![fd] = Tail(@)]
    /\ LET f == Head(s2c[fd])
           n == IF f.tag = "ROW" THEN observed + 1 ELSE observed IN
          \/ /\ Interpret(f) = "more"
             /\ phase' = "rows"
             /\ observed' = n
             /\ seen' = seen \cup {f.req}
             /\ UNCHANGED <<report, fd, cEnd, stopped>>
          \/ /\ Interpret(f) = "more"
             /\ Return(issued, "ConsumerStopped", seen \cup {f.req}, n)
          \/ /\ Interpret(f) # "more"
             /\ Return(issued, Interpret(f), seen \cup {f.req}, n)
    /\ UNCHANGED <<cand, nconn, issued, sent, link, c2s, serverVars>>

(* One frame is read and interpreted.  on_meta and on_row may ask to stop; *)
(* the frames that follow are still read, and not shown to them.           *)
ReceiveFrame ==
    /\ phase \in {"await", "rows"}
    /\ Readable(fd, s2c[fd])
    /\ s2c' = [s2c EXCEPT ![fd] = Tail(@)]
    /\ LET f == Head(s2c[fd])
           n == IF f.tag = "ROW" THEN observed + 1 ELSE observed IN
          \/ /\ Interpret(f) = "more"
             /\ phase' = "rows"
             /\ observed' = n
             /\ stopped' \in {stopped, TRUE}
             /\ seen' = seen \cup {f.req}
             /\ UNCHANGED <<report, fd, cEnd>>
          \/ /\ Interpret(f) # "more"
             /\ Return(issued, Interpret(f), seen \cup {f.req}, n)
    /\ UNCHANGED <<cand, nconn, issued, sent, link, c2s, serverVars>>

(* Mutant: a read that timed out is retried, like one that was interrupted.*)
ReceiveRetries ==
    /\ phase \in {"await", "rows"}
    /\ ~Readable(fd, s2c[fd])
    /\ \/ /\ link[fd] = "up" /\ srv[fd].pc = "closed"
          /\ Return(issued, "TransportError", seen, observed)
          /\ s2c' = [s2c EXCEPT ![fd] = <<>>]
          /\ UNCHANGED <<cand, nconn, issued, sent, link, c2s, serverVars>>
       \/ UNCHANGED vars

(* EOF, a torn frame or SO_RCVTIMEO: the read fails and Execute returns.   *)
ReceiveFails ==
    /\ phase \in {"await", "rows"}
    /\ ~Readable(fd, s2c[fd])
    /\ Return(issued, "TransportError", seen, observed)
    /\ s2c' = [s2c EXCEPT ![fd] = <<>>]
    /\ UNCHANGED <<cand, nconn, issued, sent, link, c2s, serverVars>>

-----------------------------------------------------------------------------
(* Server: handle_client and what it calls.                                *)

(* The session returns: close(fd) drops what was not read.                 *)
Ends(k) ==
    /\ srv' = [srv EXCEPT ![k].pc = "closed"]
    /\ c2s' = [c2s EXCEPT ![k] = <<>>]

(* The handler returned true: its locals are gone, the next frame is read. *)
NextRequest(k) == srv' = [srv EXCEPT ![k] = Session("read", None, NoOutcome, 0)]

(* ReadAndCheckHandshake verifies and echoes.                              *)
SrvHandshake(k) ==
    /\ srv[k].pc = "hello"
    /\ Readable(k, c2s[k])
    /\ c2s' = [c2s EXCEPT ![k] = Tail(@)]
    /\ s2c' = [s2c EXCEPT ![k] = Receives(cEnd[k], @, Frame("HELLO", None, 0))]
    /\ srv' = [srv EXCEPT ![k].pc = "read"]
    /\ UNCHANGED <<clientVars, link, cEnd, reply>>

SrvReadRequest(k) ==
    /\ srv[k].pc = "read"
    /\ Readable(k, c2s[k])
    /\ c2s' = [c2s EXCEPT ![k] = Tail(@)]
    /\ srv' = [srv EXCEPT ![k].pc = "exec", ![k].req = Head(c2s[k]).req]
    /\ UNCHANGED <<clientVars, link, cEnd, s2c, reply>>

(* execute_sql computes the outcome.                                       *)
SrvExecute(k) ==
    /\ srv[k].pc = "exec"
    /\ \E o \in Outcomes :
          /\ srv' = [srv EXCEPT ![k].pc = "first", ![k].out = o, ![k].sent = 0]
          /\ reply' = [reply EXCEPT ![srv[k].req] =
                          [req |-> {srv[k].req}, kind |-> o.kind, rows |-> o.rows]]
    /\ UNCHANGED <<clientVars, netVars>>

(* WriteFrame succeeds.                                                    *)
Writes(k, tag, n) ==
    s2c' = [s2c EXCEPT ![k] = Receives(cEnd[k], @, Frame(tag, srv[k].req, n))]

(* COMMAND_OK, ERROR or TRANSACTION_ABORT is the whole response.           *)
SrvSendSingle(k) ==
    /\ srv[k].pc = "first"
    /\ srv[k].out.kind # "ROWS"
    /\ Writes(k, srv[k].out.kind, 0)
    /\ NextRequest(k)
    /\ UNCHANGED <<clientVars, link, cEnd, c2s, reply>>

SrvSendMeta(k) ==
    /\ srv[k].pc = "first"
    /\ srv[k].out.kind = "ROWS"
    /\ Writes(k, "META", 0)
    /\ srv' = [srv EXCEPT ![k].pc = "rows"]
    /\ UNCHANGED <<clientVars, link, cEnd, c2s, reply>>

SrvSendRow(k) ==
    /\ srv[k].pc = "rows"
    /\ srv[k].sent < srv[k].out.rows
    /\ srv[k].sent + 1 # srv[k].out.badRow
    /\ Writes(k, "ROW", 0)
    /\ srv' = [srv EXCEPT ![k].sent = @ + 1]
    /\ UNCHANGED <<clientVars, link, cEnd, c2s, reply>>

(* Mutant: a row that does not fit is left out.                            *)
SrvSkipsRow(k) ==
    /\ srv[k].pc = "rows"
    /\ srv[k].sent + 1 = srv[k].out.badRow
    /\ srv' = [srv EXCEPT ![k].sent = @ + 1]
    /\ UNCHANGED <<clientVars, netVars, reply>>

(* TryEncodeRow rejects a row after META has been written: the handler     *)
(* returns false and the session closes the connection.                    *)
SrvRowTooLarge(k) ==
    /\ srv[k].pc = "rows"
    /\ srv[k].sent + 1 = srv[k].out.badRow
    /\ Ends(k)
    /\ UNCHANGED <<clientVars, link, cEnd, s2c, reply>>

SrvSendEnd(k) ==
    /\ srv[k].pc = "rows"
    /\ srv[k].sent = srv[k].out.rows
    /\ Writes(k, "END", srv[k].out.rows)
    /\ NextRequest(k)
    /\ UNCHANGED <<clientVars, link, cEnd, c2s, reply>>

(* recv fails, or stop_clients shut the socket down.                       *)
SrvReadFails(k) ==
    /\ srv[k].pc \in {"hello", "read"}
    /\ Ends(k)
    /\ UNCHANGED <<clientVars, link, cEnd, s2c, reply>>

(* Mutant: a read that timed out is retried, like one that was interrupted.*)
SrvReadRetries(k) ==
    /\ ~Readable(k, c2s[k])
    /\ \/ link[k] = "up" /\ ~cEnd[k] /\ SrvReadFails(k)
       \/ srv[k].pc \in {"hello", "read"} /\ UNCHANGED vars

(* Nothing to read: EOF if the client is gone, else SO_RCVTIMEO.           *)
SrvReadEnds(k) == ~Readable(k, c2s[k]) /\ SrvReadFails(k)

(* The connection is reset although a frame has arrived.                   *)
SrvReadReset(k) == Readable(k, c2s[k]) /\ SrvReadFails(k)

(* sendmsg fails, perhaps after part of the frame has left.                *)
SrvWriteFails(k) ==
    /\ srv[k].pc \in {"first", "rows"}
    /\ \/ UNCHANGED s2c
       \/ s2c' = [s2c EXCEPT ![k] = Receives(cEnd[k], @, Frame("TORN", None, 0))]
    /\ Ends(k)
    /\ UNCHANGED <<clientVars, link, cEnd, reply>>

-----------------------------------------------------------------------------
(* A blocked call of the client goes on.                                   *)
ClientStep == HandshakeEcho \/ HandshakeFails \/ ReceiveFrame \/ ReceiveFails

(* The caller starts a new operation.                                      *)
CallerStep == Connect \/ ClientClose \/ ExecuteRefused \/ ExecuteSendFails
              \/ ExecuteSend

ServerStep(k) ==
    \/ SrvHandshake(k) \/ SrvReadRequest(k) \/ SrvExecute(k) \/ SrvSendSingle(k)
    \/ SrvSendMeta(k) \/ SrvSendRow(k) \/ SrvRowTooLarge(k) \/ SrvSendEnd(k)
    \/ SrvReadEnds(k)

Fault(k) == Cut(k) \/ SrvReadReset(k) \/ SrvWriteFails(k)

(* The caller makes no more calls (the bounds are used up) and every       *)
(* session has ended.                                                      *)
Quiescent ==
    /\ phase = "idle" /\ issued = MaxRequests
    /\ \A k \in Conns : srv[k].pc \in {"unused", "closed"}
    /\ UNCHANGED vars

Next ==
    \/ ClientStep \/ CallerStep \/ Quiescent
    \/ \E k \in Conns : ServerStep(k) \/ Fault(k)

(* Threads are scheduled, execution terminates, and the socket deadlines of*)
(* ConfigureConnectedSocket end a read that never gets its frame.          *)
Fairness == WF_vars(ClientStep) /\ \A k \in Conns : WF_vars(ServerStep(k))

Spec == Init /\ [][Next]_vars
FairSpec == Spec /\ Fairness

-----------------------------------------------------------------------------
(* Types of the client, network and session state.                         *)
TypeOK ==
    /\ fd \in Conns \cup {None} /\ cand \in Conns \cup {None}
    /\ phase \in {"idle", "hello", "await", "rows"}
    /\ nconn \in 0..MaxConns /\ issued \in 0..MaxRequests
    /\ observed \in Nat /\ stopped \in BOOLEAN
    /\ seen \subseteq Requests /\ sent \subseteq Requests
    /\ \A r \in Requests : report[r] # None =>
          report[r].status \in Statuses /\ report[r].from \subseteq Requests
    /\ link \in [Conns -> {"unused", "up", "cut"}]
    /\ cEnd \in [Conns -> BOOLEAN]
    /\ \A k \in Conns : \A q \in {c2s[k], s2c[k]} :
          \A i \in 1..Len(q) : q[i].tag \in Tags
    /\ \A k \in Conns : srv[k].pc \in SrvPCs /\ srv[k].sent \in 0..MaxRows
    /\ \A r \in Requests : reply[r] = None \/ reply[r] \in Replies

(* Whenever Execute leaves the connection open (connection_reusable), both *)
(* directions are drained and the session waits for a request: no late     *)
(* frame of an earlier request can be taken for the next response, also not*)
(* after an early consumer stop or an SQL error.                           *)
ClientSynchronised ==
    phase = "idle" /\ fd # None =>
        /\ s2c[fd] = <<>> /\ c2s[fd] = <<>>
        /\ srv[fd].pc \in {"read", "closed"}

(* This server and this client agree on the protocol: whatever is torn,    *)
(* cut or closed, ExecStreamResult never reports a ProtocolError.          *)
(* The variables also keep their types (TypeOK).                           *)
NoProtocolError ==
    /\ TypeOK
    /\ \A r \in Requests : report[r] # None => report[r].status # "ProtocolError"

(* Every Execute and Connect comes back, also when the network goes silent *)
(* in the middle of a response.                                            *)
CallsReturn == phase # "idle" ~> phase = "idle"

(* The session of a client that left or became unreachable ends, so its    *)
(* thread and descriptor are given back.                                   *)
SessionReclaimed ==
    \A k \in Conns : (srv[k].pc # "unused" /\ (~cEnd[k] \/ link[k] = "cut"))
                        ~> srv[k].pc = "closed"

-----------------------------------------------------------------------------
(* Refinement: what the caller sees of Execute.                            *)

KindOf(status) == CASE status = "CommandOk" -> "OK"
                    [] status = "SqlError" -> "ERROR"
                    [] status = "TransactionAbort" -> "ABORT"
                    [] OTHER -> "ROWS"

FailedReport == [req |-> {}, kind |-> "FAILED", rows |-> 0]
RefusedReport == [req |-> {}, kind |-> "REFUSED", rows |-> 0]

AbstractReport(r) ==
    IF report[r] = None THEN None
    ELSE IF report[r].status \in {"TransportError", "ProtocolError", "InvalidRequest"}
         THEN IF r \in sent THEN FailedReport ELSE RefusedReport
         ELSE [req |-> report[r].from, kind |-> KindOf(report[r].status),
               rows |-> report[r].rows]

RR == INSTANCE RequestReply WITH
        Failed <- FailedReport,
        Refused <- RefusedReport,
        connected <- fd # None,
        pending <- IF phase \in {"await", "rows"} THEN issued ELSE None,
        submitted <- sent,
        report <- [r \in Requests |-> AbstractReport(r)]

(* The client and the server together implement RequestReply: one reply of *)
(* the right request with all its rows, or a failure that disconnects; and *)
(* no request is executed twice.                                           *)
ImplementsRequestReply == RR!Spec
=============================================================================
