---------------------------- MODULE RequestReply ----------------------------
(***************************************************************************)
(* What wire::Client promises to its caller, whatever the network does.    *)
(*                                                                         *)
(* Execute calls are served one at a time.  A call either is refused and   *)
(* never reaches the server, or returns exactly the reply that the server  *)
(* computed for this very request, or fails; a failed request may still be *)
(* executed later, but no request is executed twice and a failure leaves   *)
(* the client disconnected.                                                *)
(***************************************************************************)
CONSTANTS Requests,     \* identities of Execute calls
          Replies,      \* what the server can answer
          Failed,       \* report: the outcome is unknown
          Refused,      \* report: the request was never sent
          None          \* no request, no reply, no report

VARIABLES connected,    \* is_open()
          pending,      \* the request being executed, or None
          submitted,    \* requests handed to the server
          reply,        \* per request: what the server computed, or None
          report        \* per request: what Execute returned, or None

vars == <<connected, pending, submitted, reply, report>>

Init ==
    /\ connected = FALSE
    /\ pending = None
    /\ submitted = {}
    /\ reply = [r \in Requests |-> None]
    /\ report = [r \in Requests |-> None]

(* Connect or Close, between two requests.                                 *)
Reconnect ==
    /\ pending = None
    /\ connected' \in BOOLEAN
    /\ UNCHANGED <<pending, submitted, reply, report>>

Submit(r) ==
    /\ connected
    /\ pending = None
    /\ report[r] = None
    /\ pending' = r
    /\ submitted' = submitted \cup {r}
    /\ UNCHANGED <<connected, reply, report>>

(* The call returns without the server ever seeing the request.            *)
Refuse(r) ==
    /\ pending = None
    /\ report[r] = None
    /\ report' = [report EXCEPT ![r] = Refused]
    /\ connected' \in {connected, FALSE}
    /\ UNCHANGED <<pending, submitted, reply>>

(* At most one execution per request, possibly after the caller gave up.   *)
Serve(r) ==
    /\ r \in submitted
    /\ reply[r] = None
    /\ \E v \in Replies : reply' = [reply EXCEPT ![r] = v]
    /\ UNCHANGED <<connected, pending, submitted, report>>

Answer ==
    /\ pending # None
    /\ reply[pending] # None
    /\ report' = [report EXCEPT ![pending] = reply[pending]]
    /\ pending' = None
    /\ UNCHANGED <<connected, submitted, reply>>

Fail ==
    /\ pending # None
    /\ report' = [report EXCEPT ![pending] = Failed]
    /\ pending' = None
    /\ connected' = FALSE
    /\ UNCHANGED <<submitted, reply>>

Next ==
    \/ Reconnect \/ Answer \/ Fail
    \/ \E r \in Requests : Submit(r) \/ Refuse(r) \/ Serve(r)

Spec == Init /\ [][Next]_vars
=============================================================================
