-------------------------- MODULE ExecStreamProofs --------------------------
(***************************************************************************)
(* The request protocol implements RequestReply, for any number of         *)
(* requests, connections and rows: what Execute reports is the reply       *)
(* computed for its request, or a failure that disconnects.                *)
(*                                                                         *)
(* The inductive invariant says where the response of the current request  *)
(* is: its frames already taken by the client (Consumed), those in the     *)
(* channel, and those the session has still to write make up ResponseFrame *)
(* 1, 2 ...  That the steps of the sessions and of the network keep it     *)
(* comes first, then the steps of the client's calls, then the refinement. *)
(***************************************************************************)
EXTENDS ExecStream, TLAPS

Frames == [tag : Tags, req : Requests \cup {None}, n : Nat]
SessionStates == [pc : SrvPCs, req : Requests \cup {None}, out : Outcomes, sent : 0..MaxRows]

(* Types of all variables, those of functions and sequences in full.       *)
Types ==
    /\ fd \in Conns \cup {None} /\ cand \in Conns \cup {None}
    /\ phase \in {"idle", "hello", "await", "rows"}
    /\ nconn \in 0..MaxConns /\ issued \in 0..MaxRequests
    /\ observed \in Nat /\ stopped \in BOOLEAN
    /\ seen \subseteq Requests /\ sent \subseteq 1..issued
    /\ report \in [Requests -> Results \cup {None}]
    /\ link \in [Conns -> {"unused", "up", "cut"}] /\ cEnd \in [Conns -> BOOLEAN]
    /\ c2s \in [Conns -> Seq(Frames)] /\ s2c \in [Conns -> Seq(Frames)]
    /\ srv \in [Conns -> SessionStates]
    /\ reply \in [Requests -> Replies \cup {None}]

-----------------------------------------------------------------------------
(* The channel holds this frame and nothing else.                          *)
Holds(q, f) == Len(q) = 1 /\ q[1] = f

Unserved == {r \in sent : reply[r] = None}

(* What is on its way to session k: never more than one frame, since the   *)
(* client sends a request only when the answer to the last one is read.    *)
Inbound(k) ==
    /\ srv[k].pc \notin {"hello", "read"} => Len(c2s[k]) = 0
    /\ srv[k].pc = "hello" => Holds(c2s[k], Frame("HELLO", None, 0))
    /\ srv[k].pc = "read" =>
          \/ Len(c2s[k]) = 0
          \/ Holds(c2s[k], Frame("TORN", None, 0))
          \/ \E r \in Unserved : Holds(c2s[k], Frame("EXEC", r, 0))
    /\ srv[k].pc = "exec" => srv[k].req \in Unserved

(* Request r is with connection k and not executed yet.                    *)
Carries(k, r) ==
    \/ Holds(c2s[k], Frame("EXEC", r, 0))
    \/ srv[k].pc = "exec" /\ srv[k].req = r

OneCarrier ==
    \A j, k \in Conns : \A r \in Requests : Carries(j, r) /\ Carries(k, r) => j = k

(* The response to request r: its length and its i-th frame.               *)
ResponseLength(r) == IF reply[r].kind = "ROWS" THEN reply[r].rows + 2 ELSE 1

ResponseFrame(r, i) ==
    IF reply[r].kind # "ROWS" THEN Frame(reply[r].kind, r, 0)
    ELSE IF i = 1 THEN Frame("META", r, 0)
    ELSE IF i <= reply[r].rows + 1 THEN Frame("ROW", r, 0)
    ELSE Frame("END", r, reply[r].rows)

(* How many of its frames the client has taken.                            *)
Consumed == IF phase = "rows" THEN 1 + observed ELSE 0

(* The current request on its connection k.                                *)
Stage(k) ==
    LET s == srv[k]
        upTo == Consumed + Len(s2c[k])
    IN  /\ s.pc \in {"read", "exec", "first", "rows", "closed"}
        /\ reply[issued] = None => Len(s2c[k]) = 0 /\ s.pc \notin {"first", "rows"}
        /\ reply[issued] # None =>
              /\ \A i \in 1..Len(s2c[k]) :
                    s2c[k][i].tag = "TORN" \/ s2c[k][i] = ResponseFrame(issued, Consumed + i)
              /\ upTo <= ResponseLength(issued)
        /\ s.pc = "read" =>
              IF reply[issued] = None THEN Holds(c2s[k], Frame("EXEC", issued, 0))
              ELSE Len(c2s[k]) = 0 /\ upTo = ResponseLength(issued)
        /\ s.pc = "exec" => s.req = issued
        /\ s.pc \in {"first", "rows"} =>
              /\ s.req = issued
              /\ reply[issued].kind = s.out.kind /\ reply[issued].rows = s.out.rows
        /\ s.pc = "first" => upTo = 0 /\ s.sent = 0
        /\ s.pc = "rows" => s.out.kind = "ROWS" /\ s.sent <= s.out.rows /\ upTo = 1 + s.sent

(* An Execute waits for its response.                                      *)
Waiting ==
    phase \in {"await", "rows"} =>
        /\ fd \in Conns /\ cEnd[fd] /\ issued \in sent /\ report[issued] = None
        /\ phase = "await" => observed = 0 /\ seen = {}
        /\ phase = "rows" => /\ seen = {issued}
                             /\ reply[issued] # None /\ reply[issued].kind = "ROWS"
        /\ \A k \in Conns : k # fd => ~Carries(k, issued)
        /\ Stage(fd)

(* Between two calls an open connection is drained.                        *)
Drained(k) ==
    /\ cEnd[k] /\ Len(s2c[k]) = 0 /\ Len(c2s[k]) = 0 /\ srv[k].pc \in {"read", "closed"}

(* Connect waits for the echo on connection k.                             *)
Shaking(k) ==
    /\ cEnd[k] /\ srv[k].pc \in {"hello", "read", "closed"}
    /\ Len(s2c[k]) <= 1
    /\ srv[k].pc = "hello" => Len(s2c[k]) = 0
    /\ srv[k].pc = "read" => Len(c2s[k]) = 0

(* Which connections the client uses.                                      *)
Usage ==
    /\ phase = "idle" /\ fd # None => Drained(fd)
    /\ phase = "hello" => fd = None /\ cand \in Conns /\ Shaking(cand)
    /\ phase # "hello" => cand = None
    /\ phase # "rows" => observed = 0 /\ seen = {}
    /\ fd # None => fd <= nconn
    /\ cand # None => cand <= nconn
    /\ \A k \in Conns : k # fd /\ k # cand => ~cEnd[k]
    /\ \A k \in Conns : srv[k].pc = "unused" <=> nconn < k
    /\ \A k \in Conns : nconn < k => srv[k] = Unused /\ Len(s2c[k]) = 0

(* What was reported and replied.                                          *)
History ==
    /\ \A r \in Requests : issued < r => report[r] = None
    /\ \A r \in Requests : report[r] # None => report[r].status # "ProtocolError"
    /\ \A r \in Requests : reply[r] # None =>
          /\ r \in sent /\ reply[r].req = {r}
          /\ reply[r].kind # "ROWS" => reply[r].rows = 0

IInv ==
    /\ Types /\ (\A k \in Conns : Inbound(k)) /\ OneCarrier
    /\ Waiting /\ Usage /\ History

-----------------------------------------------------------------------------
(* An empty channel is the empty sequence.                                 *)
LEMMA EmptyChannel ==
    ASSUME NEW S, NEW q \in Seq(S)
    PROVE  (q = <<>>) <=> (Len(q) = 0)
  OBVIOUS

(* A frame written comes last.                                             *)
LEMMA AppendedFrame ==
    ASSUME NEW S, NEW q \in Seq(S), NEW f \in S
    PROVE  /\ Append(q, f) \in Seq(S) /\ Len(Append(q, f)) = Len(q) + 1
           /\ Append(q, f)[Len(q) + 1] = f
           /\ \A i \in 1..Len(q) : Append(q, f)[i] = q[i]
  OBVIOUS

(* Taking the first frame moves the others up.                             *)
LEMMA TakenFrame ==
    ASSUME NEW S, NEW q \in Seq(S), q # <<>>
    PROVE  /\ Tail(q) \in Seq(S) /\ Len(Tail(q)) = Len(q) - 1 /\ Len(q) \in Nat \ {0}
           /\ Head(q) = q[1] /\ Head(q) \in S
           /\ \A i \in 1..Len(q) - 1 : Tail(q)[i] = q[i + 1]
  OBVIOUS

(* A step of session k, or of the network on it, keeps the invariant if it *)
(* keeps what concerns connection k.                                       *)
LEMMA ConnectionStep ==
    ASSUME IInv, NEW k \in Conns, Types', UNCHANGED clientVars, UNCHANGED <<cEnd, reply>>,
           \A j \in Conns : j # k =>
               srv'[j] = srv[j] /\ c2s'[j] = c2s[j] /\ s2c'[j] = s2c[j],
           \/ srv[k].pc # "unused" /\ srv'[k].pc # "unused"
           \/ srv'[k] = srv[k] /\ s2c'[k] = s2c[k],
           Inbound(k)', \A r \in Requests : Carries(k, r)' => Carries(k, r),
           k = fd /\ phase = "idle" => Drained(k)',
           k = cand /\ phase = "hello" => Shaking(k)',
           k = fd /\ phase \in {"await", "rows"} => Stage(k)'
    PROVE  IInv'
<1>0. /\ UNCHANGED <<fd, phase, cand, nconn, issued, observed, stopped, seen, sent, report>>
      /\ nconn \in Nat /\ Conns \subseteq Nat /\ None \notin Conns
  BY BoundsAssumption, SMTT(30) DEF clientVars, IInv, Types, Conns
<1>1. \A j \in Conns : Inbound(j)'
  <2> TAKE j \in Conns
  <2>1. CASE j = k
    BY <2>1, Zenon
  <2>2. CASE j # k
    <3>1. Inbound(j) /\ srv'[j] = srv[j] /\ c2s'[j] = c2s[j]
      BY <2>2, Zenon DEF IInv
    <3>2. Unserved' = Unserved
      BY <1>0, Zenon DEF Unserved
    <3> QED  BY <3>1, <3>2, Zenon DEF Inbound, Holds
  <2> QED  BY <2>1, <2>2, Zenon
<1>2. \A j \in Conns : \A r \in Requests : Carries(j, r)' => Carries(j, r)
  <2> TAKE j \in Conns
  <2>1. CASE j = k
    BY <2>1, Zenon
  <2>2. CASE j # k
    BY <2>2, Zenon DEF Carries, Holds, Frame
  <2> QED  BY <2>1, <2>2, Zenon
<1>3. OneCarrier'
  BY <1>2, Zenon DEF IInv, OneCarrier
<1>4. Waiting'
  <2> SUFFICES ASSUME phase \in {"await", "rows"} PROVE Waiting'
    BY <1>0, Zenon DEF Waiting
  <2>1. /\ fd \in Conns /\ cEnd[fd] /\ issued \in sent /\ report[issued] = None
        /\ phase = "await" => observed = 0 /\ seen = {}
        /\ phase = "rows" => /\ seen = {issued}
                             /\ reply[issued] # None /\ reply[issued].kind = "ROWS"
        /\ \A j \in Conns : j # fd => ~Carries(j, issued)
        /\ Stage(fd)
    BY Zenon DEF IInv, Waiting
  <2>2. issued \in Requests
    BY <2>1 DEF IInv, Types, Requests
  <2>3. \A j \in Conns : j # fd => ~Carries(j, issued)'
    BY <1>0, <1>2, <2>1, <2>2 DEF Carries
  <2>4. CASE k = fd
    <3>1. Stage(k)'
      BY <2>4, Zenon
    <3>2. Stage(fd)'
      BY <1>0, <2>4, <3>1, ZenonT(30)
         DEF Stage, Consumed, Holds, Frame, ResponseFrame, ResponseLength
    <3> QED  BY <1>0, <2>1, <2>3, <3>2, Zenon DEF Waiting, Carries
  <2>5. CASE k # fd
    <3>1. srv'[fd] = srv[fd] /\ c2s'[fd] = c2s[fd] /\ s2c'[fd] = s2c[fd]
      BY <2>1, <2>5, Zenon
    <3>2. Stage(fd)'
      BY <1>0, <2>1, <3>1 DEF Stage, Consumed, Holds, Frame, ResponseFrame, ResponseLength
    <3> QED  BY <1>0, <2>1, <2>3, <3>2, Zenon DEF Waiting, Carries
  <2> QED  BY <2>4, <2>5, Zenon
<1>5. Usage'
  <2>1. phase = "idle" /\ fd # None => Drained(fd)'
    <3> SUFFICES ASSUME phase = "idle", fd # None PROVE Drained(fd)'
      BY Zenon
    <3>1. Drained(fd) /\ fd \in Conns
      BY Zenon DEF IInv, Usage, Types
    <3> QED  BY <1>0, <3>1, Zenon DEF Drained
  <2>2. phase = "hello" => fd = None /\ cand \in Conns /\ Shaking(cand)'
    <3> SUFFICES ASSUME phase = "hello" PROVE fd = None /\ cand \in Conns /\ Shaking(cand)'
      BY Zenon
    <3>1. fd = None /\ cand \in Conns /\ Shaking(cand)
      BY Zenon DEF IInv, Usage
    <3> QED  BY <1>0, <3>1, Zenon DEF Shaking
  <2>3. \/ ~(nconn < k) /\ srv'[k].pc # "unused"
        \/ srv'[k] = srv[k] /\ s2c'[k] = s2c[k]
    BY ZenonT(30) DEF IInv, Usage
  <2>4. \A j \in Conns : /\ j # fd /\ j # cand => ~cEnd[j]
                         /\ srv'[j].pc = "unused" <=> nconn < j
                         /\ nconn < j => srv'[j] = Unused /\ Len(s2c'[j]) = 0
    BY <1>0, <2>3 DEF IInv, Usage
  <2>5. /\ phase # "hello" => cand = None
        /\ phase # "rows" => observed = 0 /\ seen = {}
        /\ fd # None => fd <= nconn
        /\ cand # None => cand <= nconn
    BY Zenon DEF IInv, Usage
  <2> QED  BY <1>0, <2>1, <2>2, <2>4, <2>5, Zenon DEF Usage
<1>6. History'
  BY <1>0, Zenon DEF IInv, History
<1> QED  BY <1>1, <1>3, <1>4, <1>5, <1>6, Zenon DEF IInv

(* The state of session k, and its place in the protocol.                  *)
LEMMA SessionFacts ==
    ASSUME IInv, NEW k \in Conns
    PROVE  /\ Types /\ Inbound(k) /\ srv[k] \in SessionStates
           /\ c2s[k] \in Seq(Frames) /\ s2c[k] \in Seq(Frames)
           /\ Len(c2s[k]) \in Nat /\ Len(s2c[k]) \in Nat /\ Consumed \in Nat
           /\ MaxRows \in Nat /\ Conns \subseteq Nat /\ None \notin Nat
           /\ k = fd /\ phase = "idle" => Drained(k)
           /\ k = cand /\ phase = "hello" => Shaking(k)
           /\ k = fd /\ phase \in {"await", "rows"} =>
                 /\ Stage(k) /\ cEnd[k] /\ issued \in Requests /\ issued \in sent
                 /\ reply[issued] # None => reply[issued] \in Replies
<1>1. Types /\ Inbound(k) /\ srv[k] \in SessionStates
      /\ c2s[k] \in Seq(Frames) /\ s2c[k] \in Seq(Frames) /\ None \notin Conns
  BY BoundsAssumption DEF IInv, Types, Conns
<1>2. Len(c2s[k]) \in Nat /\ Len(s2c[k]) \in Nat
  BY <1>1
<1>3. Consumed \in Nat /\ MaxRows \in Nat /\ Conns \subseteq Nat /\ None \notin Nat
  BY <1>1, BoundsAssumption DEF Consumed, Types, Conns
<1>4. k = fd /\ phase = "idle" => Drained(k)
  BY <1>1, Zenon DEF IInv, Usage, Drained
<1>5. k = cand /\ phase = "hello" => Shaking(k)
  BY <1>1, Zenon DEF IInv, Usage, Shaking
<1>6. ASSUME k = fd, phase \in {"await", "rows"}
      PROVE  /\ Stage(k) /\ cEnd[k] /\ issued \in Requests /\ issued \in sent
             /\ reply[issued] # None => reply[issued] \in Replies
  <2>1. Stage(fd) /\ cEnd[fd] /\ issued \in sent
    BY <1>6, Zenon DEF IInv, Waiting
  <2>2. issued \in Requests
    BY <1>1, <2>1 DEF Types, Requests
  <2>3. Stage(k)
    BY <1>6, <2>1, Zenon DEF Stage
  <2> QED  BY <1>1, <1>6, <2>1, <2>2, <2>3, Zenon DEF Types
<1> QED  BY <1>1, <1>2, <1>3, <1>4, <1>5, <1>6, Zenon

(* A session that is writing the response to the current request: where it *)
(* is, and that at least one frame is missing.                             *)
LEMMA Writing ==
    ASSUME NEW k \in Conns, srv[k] \in SessionStates, Stage(k),
           srv[k].pc \in {"first", "rows"},
           Consumed \in Nat, Len(s2c[k]) \in Nat, MaxRows \in Nat,
           reply[issued] # None => reply[issued] \in Replies
    PROVE  /\ reply[issued] # None /\ srv[k].req = issued
           /\ reply[issued].kind = srv[k].out.kind /\ reply[issued].rows = srv[k].out.rows
           /\ srv[k].sent \in Nat /\ srv[k].out.rows \in Nat
           /\ srv[k].pc = "first" => srv[k].sent = 0 /\ Consumed + Len(s2c[k]) + 1 = 1
           /\ srv[k].pc = "rows" => /\ srv[k].out.kind = "ROWS" /\ srv[k].sent <= srv[k].out.rows
                                    /\ Consumed + Len(s2c[k]) + 1 = srv[k].sent + 2
           /\ Consumed + Len(s2c[k]) + 1 <= ResponseLength(issued)
<1>1. PICK n \in Nat : n = Consumed + Len(s2c[k])
  OBVIOUS
<1>2. reply[issued] # None
  BY Zenon DEF Stage
<1>3. /\ srv[k].req = issued
      /\ reply[issued].kind = srv[k].out.kind /\ reply[issued].rows = srv[k].out.rows
      /\ srv[k].pc = "first" => n = 0 /\ srv[k].sent = 0
      /\ srv[k].pc = "rows" => /\ srv[k].out.kind = "ROWS" /\ srv[k].sent <= srv[k].out.rows
                               /\ n = 1 + srv[k].sent
  BY <1>1, Zenon DEF Stage
<1>4. srv[k].sent \in Nat /\ srv[k].out.rows \in Nat
  BY DEF SessionStates, Outcomes
<1>5. ResponseLength(issued) = IF srv[k].out.kind = "ROWS" THEN srv[k].out.rows + 2 ELSE 1
  BY <1>3, Zenon DEF ResponseLength
<1>6. n + 1 <= ResponseLength(issued)
  <2>1. CASE srv[k].pc = "first"
    BY <1>3, <1>4, <1>5, <2>1
  <2>2. CASE srv[k].pc = "rows"
    BY <1>3, <1>4, <1>5, <2>2, SMTT(30)
  <2> QED  BY <2>1, <2>2, Zenon
<1> QED  BY <1>1, <1>2, <1>3, <1>4, <1>6, SMTT(30)

(* Session k writes frame f and goes on in state t.                        *)
Emits(k, f, t) ==
    /\ s2c' = [s2c EXCEPT ![k] = Receives(cEnd[k], @, f)]
    /\ srv' = [srv EXCEPT ![k] = t]
    /\ UNCHANGED clientVars /\ UNCHANGED <<link, cEnd, c2s, reply>>

(* That frame is the next one of the response, and t knows how many left.  *)
IsNext(k, f, t) ==
    LET upTo == Consumed + Len(s2c[k]) + 1
    IN  /\ f = ResponseFrame(issued, upTo) /\ upTo <= ResponseLength(issued)
        /\ t.pc = "read" => upTo = ResponseLength(issued)
        /\ t.pc = "rows" => /\ t.req = issued /\ t.out = srv[k].out
                            /\ t.out.kind = "ROWS" /\ t.sent <= t.out.rows
                            /\ upTo = 1 + t.sent

(* A session writes the next frame of its response.                        *)
LEMMA FrameWritten ==
    ASSUME IInv, NEW k \in Conns, NEW f \in Frames, NEW t \in SessionStates,
           srv[k].pc \in {"first", "rows"}, t.pc \in {"read", "rows"}, Emits(k, f, t),
           k = fd /\ phase \in {"await", "rows"} => IsNext(k, f, t)
    PROVE  IInv'
<1>1. /\ Types /\ Inbound(k) /\ srv[k] \in SessionStates
      /\ c2s[k] \in Seq(Frames) /\ s2c[k] \in Seq(Frames)
      /\ Len(c2s[k]) \in Nat /\ Len(s2c[k]) \in Nat /\ Consumed \in Nat
      /\ k = fd /\ phase = "idle" => Drained(k)
      /\ k = cand /\ phase = "hello" => Shaking(k)
      /\ k = fd /\ phase \in {"await", "rows"} =>
            Stage(k) /\ cEnd[k] /\ issued \in Requests /\ issued \in sent
  BY SessionFacts, Zenon
<1>2. /\ UNCHANGED <<fd, phase, cand, nconn, issued, observed, stopped, seen, sent, report>>
      /\ UNCHANGED <<link, cEnd, c2s, reply>>
  BY Zenon DEF Emits, clientVars
<1>3. /\ srv'[k] = t /\ s2c'[k] = Receives(cEnd[k], s2c[k], f) /\ c2s'[k] = c2s[k]
      /\ \A j \in Conns : j # k =>
             srv'[j] = srv[j] /\ c2s'[j] = c2s[j] /\ s2c'[j] = s2c[j]
  BY <1>1, Zenon DEF Types, Emits
<1>4. Receives(cEnd[k], s2c[k], f) \in Seq(Frames)
  BY <1>1, AppendedFrame, Zenon DEF Receives
<1>5. Types'
  <2>1. s2c' \in [Conns -> Seq(Frames)] /\ srv' \in [Conns -> SessionStates]
    BY <1>1, <1>4, Zenon DEF Types, Emits
  <2> QED  BY <1>1, <1>2, <2>1, Zenon DEF Types
<1>6. Len(c2s[k]) = 0
  BY <1>1, Zenon DEF Inbound
<1>7. Inbound(k)' /\ \A r \in Requests : Carries(k, r)' => Carries(k, r)
  BY <1>3, <1>6, Zenon DEF Inbound, Carries, Holds
<1>8. ~(k = fd /\ phase = "idle") /\ ~(k = cand /\ phase = "hello")
  BY <1>1, Zenon DEF Drained, Shaking
<1>9. ASSUME k = fd, phase \in {"await", "rows"} PROVE Stage(k)'
  <2> DEFINE old == s2c[k]  new == Append(s2c[k], f)
  <2>1. /\ Stage(k) /\ s2c'[k] = new /\ Consumed' = Consumed
        /\ ResponseLength(issued)' = ResponseLength(issued)
    BY <1>1, <1>2, <1>3, <1>9, ZenonT(30) DEF Receives, Consumed, ResponseLength
  <2>2. /\ Len(new) = Len(old) + 1 /\ new[Len(old) + 1] = f
        /\ \A i \in 1..Len(old) : new[i] = old[i]
    BY <1>1, AppendedFrame
  <2>4. reply[issued] # None
    BY <2>1, Zenon DEF Stage
  <2>5. \A i \in 1..Len(new) : new[i].tag = "TORN" \/ new[i] = ResponseFrame(issued, Consumed + i)
    <3> TAKE i \in 1..Len(new)
    <3>1. CASE i \in 1..Len(old)
      BY <2>1, <2>2, <2>4, <3>1, Zenon DEF Stage
    <3>2. CASE i = Len(old) + 1
      BY <1>1, <1>9, <2>2, <3>2, SMTT(30) DEF IsNext
    <3> QED  BY <1>1, <2>2, <3>1, <3>2
  <2>6. \A i \in 1..Len(new) :
           new[i].tag = "TORN" \/ new[i] = ResponseFrame(issued, Consumed + i)'
    BY <1>1, <1>2, <2>1, <2>2, <2>5, SMTT(30) DEF ResponseFrame, Frame
  <2>7. Consumed' + Len(s2c'[k]) = Consumed + Len(s2c[k]) + 1
    BY <1>1, <2>1, <2>2
  <2>8. t.pc = "rows" => reply[issued].kind = t.out.kind /\ reply[issued].rows = t.out.rows
    BY <1>9, <2>1, Zenon DEF Stage, IsNext
  <2>9. /\ Consumed' + Len(s2c'[k]) <= ResponseLength(issued)'
        /\ t.pc = "read" => Consumed' + Len(s2c'[k]) = ResponseLength(issued)'
        /\ t.pc = "rows" => /\ t.req = issued' /\ t.out.kind = "ROWS" /\ t.sent <= t.out.rows
                            /\ Consumed' + Len(s2c'[k]) = 1 + t.sent
    BY <1>2, <1>9, <2>1, <2>7, Zenon DEF IsNext
  <2>10. Len(c2s'[k]) = 0 /\ reply'[issued'] # None /\ srv'[k] = t
    BY <1>2, <1>3, <1>6, <2>4, Zenon
  <2>11. \A i \in 1..Len(s2c'[k]) :
            s2c'[k][i].tag = "TORN" \/ s2c'[k][i] = ResponseFrame(issued, Consumed + i)'
    BY <2>1, <2>6, Zenon
  <2> QED
    BY <1>2, <2>8, <2>9, <2>10, <2>11, Zenon DEF Stage
<1> QED  BY <1>2, <1>3, <1>5, <1>7, <1>8, <1>9, ConnectionStep, Zenon DEF clientVars

(* Session k ends, perhaps after part of a frame has left.                 *)
Leaves(k) ==
    /\ Ends(k)
    /\ \/ UNCHANGED s2c
       \/ /\ srv[k].pc \in {"first", "rows"}
          /\ s2c' = [s2c EXCEPT ![k] = Receives(cEnd[k], @, Frame("TORN", None, 0))]
    /\ UNCHANGED clientVars /\ UNCHANGED <<link, cEnd, reply>>

(* A session that ends leaves the response incomplete, never wrong.        *)
LEMMA SessionEnds ==
    ASSUME IInv, NEW k \in Conns, srv[k].pc # "unused", Leaves(k)
    PROVE  IInv'
<1> DEFINE torn == Frame("TORN", None, 0)
<1>1. /\ Types /\ Inbound(k) /\ srv[k] \in SessionStates
      /\ s2c[k] \in Seq(Frames) /\ Len(s2c[k]) \in Nat /\ Consumed \in Nat
      /\ k = fd /\ phase = "idle" => Drained(k)
      /\ k = cand /\ phase = "hello" => Shaking(k)
      /\ k = fd /\ phase \in {"await", "rows"} =>
            /\ Stage(k) /\ cEnd[k] /\ issued \in Requests /\ issued \in sent
            /\ reply[issued] # None => reply[issued] \in Replies
  BY SessionFacts, Zenon
<1>2. /\ UNCHANGED <<fd, phase, cand, nconn, issued, observed, stopped, seen, sent, report>>
      /\ UNCHANGED <<link, cEnd, reply>>
  BY Zenon DEF Leaves, clientVars
<1>3. torn \in Frames /\ torn.tag = "TORN"
  BY Zenon DEF Frame, Frames, Tags
<1>4. Append(s2c[k], torn) \in Seq(Frames) /\ Len(Append(s2c[k], torn)) = Len(s2c[k]) + 1
  BY <1>1, <1>3, AppendedFrame
<1>5. /\ c2s' = [c2s EXCEPT ![k] = <<>>] /\ srv' = [srv EXCEPT ![k].pc = "closed"]
      /\ <<>> \in Seq(Frames) /\ Len(<<>>) = 0
  BY DEF Leaves, Ends
<1>6. [srv[k] EXCEPT !.pc = "closed"] \in SessionStates
  BY <1>1, Zenon DEF SessionStates, SrvPCs
<1>7. /\ srv'[k] = [srv[k] EXCEPT !.pc = "closed"] /\ Len(c2s'[k]) = 0
      /\ s2c'[k] \in {s2c[k], Append(s2c[k], torn)}
      /\ s2c'[k] # s2c[k] => srv[k].pc \in {"first", "rows"}
      /\ \A j \in Conns : j # k =>
             srv'[j] = srv[j] /\ c2s'[j] = c2s[j] /\ s2c'[j] = s2c[j]
  <2>1. \/ s2c' = s2c
        \/ /\ s2c' = [s2c EXCEPT ![k] = Receives(cEnd[k], s2c[k], torn)]
           /\ srv[k].pc \in {"first", "rows"}
    BY Zenon DEF Leaves
  <2> HIDE DEF torn
  <2>2. /\ s2c'[k] = s2c[k] \/ s2c'[k] = Append(s2c[k], torn)
        /\ s2c'[k] # s2c[k] => srv[k].pc \in {"first", "rows"}
        /\ \A j \in Conns : j # k => s2c'[j] = s2c[j]
    BY <1>1, <2>1, Zenon DEF Types, Receives
  <2>3. srv'[k] = [srv[k] EXCEPT !.pc = "closed"] /\ \A j \in Conns : j # k => srv'[j] = srv[j]
    BY <1>1, <1>5, Zenon DEF Types
  <2>4. c2s'[k] = <<>> /\ \A j \in Conns : j # k => c2s'[j] = c2s[j]
    BY <1>1, <1>5, Zenon DEF Types
  <2> QED  BY <1>5, <2>2, <2>3, <2>4, Zenon
<1>8. Types'
  <2>1. c2s' \in [Conns -> Seq(Frames)] /\ srv' \in [Conns -> SessionStates]
    BY <1>1, <1>5, <1>6, Zenon DEF Types
  <2>2. s2c' \in [Conns -> Seq(Frames)]
    BY <1>1, <1>4, Zenon DEF Types, Leaves, Receives
  <2> QED  BY <1>1, <1>2, <2>1, <2>2, Zenon DEF Types
<1> HIDE DEF torn
<1>9. srv'[k].pc = "closed"
  BY <1>1, <1>7 DEF SessionStates
<1>10. Inbound(k)' /\ \A r \in Requests : Carries(k, r)' => Carries(k, r)
  BY <1>7, <1>9 DEF Inbound, Carries, Holds
<1>11. k = fd /\ phase = "idle" => Drained(k)'
  BY <1>1, <1>2, <1>7, <1>9, Zenon DEF Drained
<1>12. k = cand /\ phase = "hello" => Shaking(k)'
  BY <1>1, <1>2, <1>7, <1>9, Zenon DEF Shaking
<1>13. ASSUME k = fd, phase \in {"await", "rows"} PROVE Stage(k)'
  <2>1. /\ Stage(k) /\ Consumed' = Consumed
        /\ reply[issued] # None => reply[issued] \in Replies
        /\ ResponseLength(issued)' = ResponseLength(issued)
    BY <1>1, <1>2, <1>13, Zenon DEF Consumed, ResponseLength
  <2>2. reply[issued] = None => Len(s2c'[k]) = 0
    BY <1>7, <2>1, Zenon DEF Stage
  <2>3. reply[issued] # None =>
           \A i \in 1..Len(s2c'[k]) :
              s2c'[k][i].tag = "TORN" \/ s2c'[k][i] = ResponseFrame(issued, Consumed + i)
    <3> SUFFICES ASSUME reply[issued] # None, NEW i \in 1..Len(s2c'[k])
        PROVE  s2c'[k][i].tag = "TORN" \/ s2c'[k][i] = ResponseFrame(issued, Consumed + i)
      BY Zenon
    <3>1. CASE i \in 1..Len(s2c[k])
      <4>1. s2c'[k][i] = s2c[k][i]
        BY <1>1, <1>3, <1>7, <3>1, AppendedFrame, SMTT(30)
      <4> QED  BY <2>1, <3>1, <4>1, Zenon DEF Stage
    <3>2. CASE i \notin 1..Len(s2c[k])
      <4>1. i = Len(s2c[k]) + 1 /\ s2c'[k] = Append(s2c[k], torn)
        BY <1>1, <1>4, <1>7, <3>2, SMTT(30)
      <4> QED  BY <1>1, <1>3, <4>1, AppendedFrame
    <3> QED  BY <3>1, <3>2, Zenon
  <2>4. reply[issued] # None =>
           \A i \in 1..Len(s2c'[k]) :
              s2c'[k][i].tag = "TORN" \/ s2c'[k][i] = ResponseFrame(issued, Consumed + i)'
    BY <1>2, <2>1, <2>3, Zenon DEF ResponseFrame, Frame
  <2>5. reply[issued] # None => Consumed + Len(s2c'[k]) <= ResponseLength(issued)
    <3> SUFFICES ASSUME reply[issued] # None
        PROVE  Consumed + Len(s2c'[k]) <= ResponseLength(issued)
      BY Zenon
    <3>1. CASE s2c'[k] = s2c[k]
      BY <2>1, <3>1, Zenon DEF Stage
    <3>2. CASE s2c'[k] # s2c[k]
      <4>1. Len(s2c'[k]) = Len(s2c[k]) + 1 /\ srv[k].pc \in {"first", "rows"}
        BY <1>4, <1>7, <3>2, Zenon
      <4>2. Consumed + Len(s2c[k]) + 1 <= ResponseLength(issued)
        BY <1>1, <2>1, <4>1, Writing, BoundsAssumption, Zenon
      <4> QED  BY <1>1, <4>1, <4>2
    <3> QED  BY <3>1, <3>2, Zenon
  <2> QED  BY <1>2, <1>9, <2>1, <2>2, <2>4, <2>5, Zenon DEF Stage
<1> QED
  BY <1>2, <1>7, <1>8, <1>9, <1>10, <1>11, <1>12, <1>13, ConnectionStep, Zenon DEF clientVars

(* The actions of a session that write a frame.                            *)
LEMMA WritesKeep ==
    ASSUME IInv, NEW k \in Conns,
           SrvSendSingle(k) \/ SrvSendMeta(k) \/ SrvSendRow(k) \/ SrvSendEnd(k)
    PROVE  IInv'
<1>1. /\ srv[k] \in SessionStates /\ Len(s2c[k]) \in Nat /\ Consumed \in Nat
      /\ k = fd /\ phase \in {"await", "rows"} =>
            /\ Stage(k)
            /\ reply[issued] # None => reply[issued] \in Replies
      /\ MaxRows \in Nat
  BY SessionFacts, Zenon
<1>2. /\ srv[k].req \in Requests \cup {None} /\ srv[k].out \in Outcomes
      /\ srv[k].out.kind \in {"OK", "ERROR", "ABORT", "ROWS"}
      /\ srv[k].out.rows \in Nat /\ srv[k].out.rows <= MaxRows /\ srv[k].sent \in Nat
  BY <1>1 DEF SessionStates, Outcomes
<1>3. \A tag \in Tags, n \in Nat : Frame(tag, srv[k].req, n) \in Frames
  BY <1>2, Zenon DEF Frame, Frames
<1> DEFINE rest == Session("read", None, NoOutcome, 0)
<1>4. rest \in SessionStates /\ rest.pc = "read"
  <2>1. NoOutcome \in Outcomes /\ 0 \in 0..MaxRows /\ "read" \in SrvPCs
    BY <1>1 DEF NoOutcome, Outcomes, SrvPCs
  <2> QED  BY <2>1, Zenon DEF Session, SessionStates
<1>5. CASE SrvSendSingle(k)
  <2> DEFINE f == Frame(srv[k].out.kind, srv[k].req, 0)
  <2>1. srv[k].pc = "first" /\ srv[k].out.kind # "ROWS" /\ Emits(k, f, rest)
    BY <1>5, Zenon DEF SrvSendSingle, Writes, NextRequest, Emits
  <2>2. f \in Frames
    BY <1>2, <1>3, <2>1, Zenon DEF Tags
  <2>3. ASSUME k = fd, phase \in {"await", "rows"} PROVE IsNext(k, f, rest)
    <3>1. /\ srv[k].req = issued /\ Consumed + Len(s2c[k]) + 1 = 1
          /\ reply[issued].kind = srv[k].out.kind
      BY <1>1, <2>1, <2>3, Writing, Zenon
    <3>2. f = ResponseFrame(issued, 1) /\ ResponseLength(issued) = 1
      BY <2>1, <3>1, Zenon DEF ResponseFrame, ResponseLength
    <3> HIDE DEF f, rest
    <3> QED  BY <1>4, <3>1, <3>2 DEF IsNext
  <2> HIDE DEF f, rest
  <2> QED  BY <1>4, <2>1, <2>2, <2>3, FrameWritten, Zenon
<1>6. CASE SrvSendMeta(k)
  <2> DEFINE f == Frame("META", srv[k].req, 0)  t == [srv[k] EXCEPT !.pc = "rows"]
  <2>1. srv[k].pc = "first" /\ srv[k].out.kind = "ROWS" /\ Emits(k, f, t)
    BY <1>6, Zenon DEF SrvSendMeta, Writes, Emits
  <2>2. f \in Frames /\ t \in SessionStates /\ t.pc = "rows"
        /\ t.req = srv[k].req /\ t.out = srv[k].out /\ t.sent = srv[k].sent
    BY <1>1, <1>3, ZenonT(30) DEF Tags, SessionStates, SrvPCs
  <2>3. ASSUME k = fd, phase \in {"await", "rows"} PROVE IsNext(k, f, t)
    <3>1. /\ srv[k].req = issued /\ srv[k].sent = 0 /\ Consumed + Len(s2c[k]) + 1 = 1
          /\ reply[issued].kind = "ROWS" /\ 1 <= ResponseLength(issued)
      BY <1>1, <2>1, <2>3, Writing, Zenon
    <3>2. f = ResponseFrame(issued, 1)
      BY <3>1, Zenon DEF ResponseFrame
    <3> HIDE DEF f, t
    <3> QED  BY <1>2, <2>1, <2>2, <3>1, <3>2 DEF IsNext
  <2> HIDE DEF f, t
  <2> QED  BY <2>1, <2>2, <2>3, FrameWritten, Zenon
<1>7. CASE SrvSendRow(k)
  <2> DEFINE f == Frame("ROW", srv[k].req, 0)  t == [srv[k] EXCEPT !.sent = @ + 1]
  <2>1. srv[k].pc = "rows" /\ srv[k].sent < srv[k].out.rows /\ Emits(k, f, t)
    BY <1>7, Zenon DEF SrvSendRow, Writes, Emits
  <2>2. f \in Frames /\ t \in SessionStates /\ t.pc = "rows"
        /\ t.req = srv[k].req /\ t.out = srv[k].out /\ t.sent = srv[k].sent + 1
    <3>1. srv[k].sent + 1 \in 0..MaxRows
      BY <1>1, <1>2, <2>1, SMTT(30)
    <3> QED  BY <1>1, <1>3, <2>1, <3>1, Zenon DEF Tags, SessionStates
  <2>3. ASSUME k = fd, phase \in {"await", "rows"} PROVE IsNext(k, f, t)
    <3>1. /\ srv[k].req = issued /\ Consumed + Len(s2c[k]) + 1 = srv[k].sent + 2
          /\ reply[issued].kind = "ROWS" /\ reply[issued].rows = srv[k].out.rows
          /\ srv[k].out.kind = "ROWS" /\ srv[k].sent + 2 <= ResponseLength(issued)
      BY <1>1, <2>1, <2>3, Writing, Zenon
    <3>2. f = ResponseFrame(issued, srv[k].sent + 2)
      BY <1>2, <2>1, <3>1, SMTT(30) DEF ResponseFrame
    <3> HIDE DEF f, t
    <3> QED  BY <1>2, <2>1, <2>2, <3>1, <3>2, SMTT(30) DEF IsNext
  <2> HIDE DEF f, t
  <2> QED  BY <2>1, <2>2, <2>3, FrameWritten, Zenon
<1>8. CASE SrvSendEnd(k)
  <2> DEFINE f == Frame("END", srv[k].req, srv[k].out.rows)
  <2>1. srv[k].pc = "rows" /\ srv[k].sent = srv[k].out.rows /\ Emits(k, f, rest)
    BY <1>8, Zenon DEF SrvSendEnd, Writes, NextRequest, Emits
  <2>2. f \in Frames
    BY <1>2, <1>3, Zenon DEF Tags
  <2>3. ASSUME k = fd, phase \in {"await", "rows"} PROVE IsNext(k, f, rest)
    <3>1. /\ srv[k].req = issued /\ Consumed + Len(s2c[k]) + 1 = srv[k].sent + 2
          /\ reply[issued].kind = "ROWS" /\ reply[issued].rows = srv[k].out.rows
      BY <1>1, <2>1, <2>3, Writing, ZenonT(30)
    <3>2. /\ f = ResponseFrame(issued, srv[k].sent + 2)
          /\ srv[k].sent + 2 = ResponseLength(issued)
      BY <1>2, <2>1, <3>1 DEF ResponseFrame, ResponseLength
    <3> HIDE DEF f, rest
    <3> QED  BY <1>2, <1>4, <3>1, <3>2 DEF IsNext
  <2> HIDE DEF f, rest
  <2> QED  BY <1>4, <2>1, <2>2, <2>3, FrameWritten, Zenon
<1> QED  BY <1>5, <1>6, <1>7, <1>8, Zenon

(* The echo of the handshake, and a request taken from the channel.        *)
LEMMA ReadsKeep ==
    ASSUME IInv, NEW k \in Conns, SrvHandshake(k) \/ SrvReadRequest(k)
    PROVE  IInv'
<1> DEFINE hello == Frame("HELLO", None, 0)
<1>1. /\ Types /\ Inbound(k) /\ srv[k] \in SessionStates
      /\ c2s[k] \in Seq(Frames) /\ s2c[k] \in Seq(Frames)
      /\ Len(c2s[k]) \in Nat /\ Len(s2c[k]) \in Nat
      /\ k = fd /\ phase = "idle" => Drained(k)
      /\ k = cand /\ phase = "hello" => Shaking(k)
      /\ k = fd /\ phase \in {"await", "rows"} => Stage(k) /\ issued \in Requests
  BY SessionFacts, Zenon
<1>2. /\ UNCHANGED <<fd, phase, cand, nconn, issued, observed, stopped, seen, sent, report>>
      /\ UNCHANGED <<link, cEnd, reply>> /\ UNCHANGED clientVars
  BY Zenon DEF SrvHandshake, SrvReadRequest, clientVars
<1>3. /\ c2s[k] # <<>> /\ Head(c2s[k]).tag # "TORN" /\ srv[k].pc \in {"hello", "read"}
      /\ c2s' = [c2s EXCEPT ![k] = Tail(@)]
  BY Zenon DEF SrvHandshake, SrvReadRequest, Readable
<1>4. /\ Len(c2s[k]) = 1 /\ Head(c2s[k]) = c2s[k][1] /\ Len(Tail(c2s[k])) = 0
      /\ Tail(c2s[k]) \in Seq(Frames)
  <2>1. Len(c2s[k]) # 0
    BY <1>1, <1>3, EmptyChannel, Zenon
  <2>2. Len(c2s[k]) = 1
    BY <1>1, <1>3, <2>1, Zenon DEF Inbound, Holds
  <2> QED  BY <1>1, <1>3, <2>2, TakenFrame
<1>5. /\ c2s' \in [Conns -> Seq(Frames)] /\ Len(c2s'[k]) = 0
      /\ \A j \in Conns : j # k => c2s'[j] = c2s[j]
  BY <1>1, <1>3, <1>4, Zenon DEF Types
<1>6. CASE SrvHandshake(k)
  <2>1. /\ srv[k].pc = "hello" /\ srv' = [srv EXCEPT ![k].pc = "read"]
        /\ s2c' = [s2c EXCEPT ![k] = Receives(cEnd[k], @, hello)]
    BY <1>6, Zenon DEF SrvHandshake
  <2>2. hello \in Frames
    BY Zenon DEF Frame, Frames, Tags
  <2>3. /\ Receives(cEnd[k], s2c[k], hello) \in Seq(Frames)
        /\ Len(Receives(cEnd[k], s2c[k], hello)) <= Len(s2c[k]) + 1
    BY <1>1, <2>2, AppendedFrame DEF Receives
  <2>4. [srv[k] EXCEPT !.pc = "read"] \in SessionStates
    BY <1>1, Zenon DEF SessionStates, SrvPCs
  <2>5. /\ srv' \in [Conns -> SessionStates] /\ s2c' \in [Conns -> Seq(Frames)]
        /\ srv'[k] = [srv[k] EXCEPT !.pc = "read"] /\ Len(s2c'[k]) <= Len(s2c[k]) + 1
        /\ \A j \in Conns : j # k => srv'[j] = srv[j] /\ s2c'[j] = s2c[j]
    BY <1>1, <2>1, <2>3, <2>4, Zenon DEF Types
  <2>6. Types'
    BY <1>1, <1>2, <1>5, <2>5, Zenon DEF Types
  <2>7. srv'[k].pc = "read" /\ Len(s2c'[k]) \in Nat
    BY <1>1, <2>5, <2>6 DEF SessionStates, Types
  <2>8. Inbound(k)' /\ \A r \in Requests : Carries(k, r)' => Carries(k, r)
    BY <1>5, <2>7 DEF Inbound, Carries, Holds
  <2>9. ~(k = fd /\ phase = "idle") /\ ~(k = fd /\ phase \in {"await", "rows"})
    BY <1>1, <2>1, Zenon DEF Drained, Stage
  <2>10. k = cand /\ phase = "hello" => Shaking(k)'
    BY <1>1, <1>2, <1>5, <2>1, <2>5, <2>7 DEF Shaking
  <2> QED  BY <1>2, <1>5, <2>1, <2>5, <2>6, <2>7, <2>8, <2>9, <2>10, ConnectionStep, Zenon
<1>7. CASE SrvReadRequest(k)
  <2>1. /\ srv[k].pc = "read" /\ UNCHANGED s2c
        /\ srv' = [srv EXCEPT ![k].pc = "exec", ![k].req = Head(c2s[k]).req]
    BY <1>7, Zenon DEF SrvReadRequest
  <2>2. PICK r \in Unserved : c2s[k][1] = Frame("EXEC", r, 0)
    BY <1>1, <1>3, <1>4, <2>1 DEF Inbound, Holds, Frame
  <2>3. Head(c2s[k]).req = r /\ r \in Requests /\ Carries(k, r)
    <3>1. r \in Requests
      BY <1>1, BoundsAssumption DEF Types, Unserved, Requests
    <3>2. Head(c2s[k]).req = r
      BY <1>4, <2>2 DEF Frame
    <3> QED  BY <1>4, <2>2, <3>1, <3>2, Zenon DEF Carries, Holds
  <2>4. [srv[k] EXCEPT !.pc = "exec", !.req = r] \in SessionStates
    BY <1>1, <2>3, Zenon DEF SessionStates, SrvPCs
  <2>5. /\ srv' \in [Conns -> SessionStates]
        /\ srv'[k] = [srv[k] EXCEPT !.pc = "exec", !.req = r]
        /\ \A j \in Conns : j # k => srv'[j] = srv[j]
    BY <1>1, <2>1, <2>3, <2>4, Zenon DEF Types
  <2>6. Types'
    BY <1>1, <1>2, <1>5, <2>1, <2>5, Zenon DEF Types
  <2>7. srv'[k].pc = "exec" /\ srv'[k].req = r
    BY <1>1, <2>5, Zenon DEF SessionStates
  <2>8. r \in Unserved'
    BY <1>2, <2>2, Zenon DEF Unserved
  <2>9. Inbound(k)'
    BY <1>5, <2>7, <2>8, Zenon DEF Inbound
  <2>10. \A x \in Requests : Carries(k, x)' => Carries(k, x)
    BY <1>5, <2>3, <2>7 DEF Carries, Holds
  <2>11. ~(k = fd /\ phase = "idle") /\ ~(k = cand /\ phase = "hello")
    BY <1>1, <1>4, <2>1 DEF Drained, Shaking
  <2>12. ASSUME k = fd, phase \in {"await", "rows"} PROVE Stage(k)'
    <3>1. Stage(k) /\ reply[issued] = None
      BY <1>1, <1>4, <2>1, <2>12 DEF Stage
    <3>2. c2s[k][1] = Frame("EXEC", issued, 0) /\ Len(s2c[k]) = 0
      BY <2>1, <3>1, Zenon DEF Stage, Holds
    <3>3. r = issued
      BY <2>2, <3>2 DEF Frame
    <3> QED  BY <1>2, <2>1, <2>7, <3>1, <3>2, <3>3, Zenon DEF Stage
  <2> QED  BY <1>2, <1>5, <2>1, <2>5, <2>6, <2>7, <2>9, <2>10, <2>11, <2>12, ConnectionStep, Zenon
<1> QED  BY <1>6, <1>7, Zenon

(* The steps that end a session, and the network that goes silent.         *)
LEMMA EndsKeep ==
    ASSUME IInv, NEW k \in Conns,
           SrvRowTooLarge(k) \/ SrvReadFails(k) \/ SrvWriteFails(k)
    PROVE  IInv'
  BY SessionEnds, Zenon DEF SrvRowTooLarge, SrvReadFails, SrvWriteFails, Leaves

(* The network stops carrying a connection: only link changes.             *)
LEMMA CutKeeps ==
    ASSUME IInv, NEW k \in Conns, Cut(k)
    PROVE  IInv'
<1>1. /\ Types /\ Inbound(k)
      /\ k = fd /\ phase = "idle" => Drained(k)
      /\ k = cand /\ phase = "hello" => Shaking(k)
      /\ k = fd /\ phase \in {"await", "rows"} => Stage(k)
  BY SessionFacts, Zenon
<1>2. /\ UNCHANGED <<fd, phase, cand, nconn, issued, observed, stopped, seen, sent, report>>
      /\ UNCHANGED <<cEnd, c2s, s2c, srv, reply>> /\ UNCHANGED clientVars
      /\ link' = [link EXCEPT ![k] = "cut"]
  BY Zenon DEF Cut, clientVars, serverVars
<1>3. Types'
  BY <1>1, <1>2, Zenon DEF Types
<1>4. Unserved' = Unserved /\ Consumed' = Consumed
  BY <1>2, Zenon DEF Unserved, Consumed
<1>5. Inbound(k)' /\ \A r \in Requests : Carries(k, r)' => Carries(k, r)
  BY <1>1, <1>2, <1>4, Zenon DEF Inbound, Carries, Holds
<1>6. /\ k = fd /\ phase = "idle" => Drained(k)'
      /\ k = cand /\ phase = "hello" => Shaking(k)'
  BY <1>1, <1>2, Zenon DEF Drained, Shaking
<1>7. k = fd /\ phase \in {"await", "rows"} => Stage(k)'
  BY <1>1, <1>2, <1>4, Zenon DEF Stage, ResponseFrame, ResponseLength, Holds, Frame
<1> QED  BY <1>2, <1>3, <1>5, <1>6, <1>7, ConnectionStep, Zenon

(* Requests that were sent are requests.                                   *)
LEMMA SentRequests ==
    ASSUME IInv PROVE sent \subseteq Requests
<1>1. sent \subseteq 1..issued /\ issued \in 0..MaxRequests
  BY Zenon DEF IInv, Types
<1>2. ASSUME NEW r \in 1..issued PROVE r \in 1..MaxRequests
  BY <1>1, BoundsAssumption
<1> QED  BY <1>1, <1>2, Zenon DEF Requests

(* What is on its way to a session stays so while nobody touches it.       *)
LEMMA InboundKept ==
    ASSUME NEW j, Inbound(j), srv'[j] = srv[j], c2s'[j] = c2s[j], Unserved \subseteq Unserved'
    PROVE  Inbound(j)'
  BY Zenon DEF Inbound, Holds

-----------------------------------------------------------------------------
(* The steps of a call of the client that wait for the server.             *)

(* The client's call returns: afterwards the connection it keeps is        *)
(* drained, and every other one is closed.                                 *)
LEMMA ClientRests ==
    ASSUME IInv, Types', phase' = "idle", cand' = None, observed' = 0, seen' = {},
           UNCHANGED <<nconn, srv, reply, sent>>,
           \A j \in Conns : Inbound(j)',
           \A j \in Conns : \A r \in Requests : Carries(j, r)' => Carries(j, r),
           fd' # None => fd' <= nconn /\ Drained(fd)',
           \A j \in Conns : j # fd' => ~cEnd'[j],
           \A j \in Conns : nconn < j => Len(s2c'[j]) = 0,
           History'
    PROVE  IInv'
<1>1. OneCarrier'
  BY Zenon DEF IInv, OneCarrier
<1>2. Waiting'
  BY Zenon DEF Waiting
<1>3. /\ \A j \in Conns : srv[j].pc = "unused" <=> nconn < j
      /\ \A j \in Conns : nconn < j => srv[j] = Unused
  BY Zenon DEF IInv, Usage
<1>4. Usage'
  BY <1>3, Zenon DEF Usage
<1> QED  BY <1>1, <1>2, <1>4, Zenon DEF IInv

(* The channels to the sessions are as before.                             *)
LEMMA QuietInbound ==
    ASSUME IInv, UNCHANGED <<srv, reply, sent, c2s>>
    PROVE  /\ \A j \in Conns : Inbound(j)'
           /\ \A j \in Conns : \A r \in Requests : Carries(j, r)' => Carries(j, r)
<1>1. Unserved' = Unserved
  BY Zenon DEF Unserved
<1>2. \A j \in Conns : Inbound(j)'
  BY <1>1, InboundKept, Zenon DEF IInv
<1> QED  BY <1>2, Zenon DEF Carries, Holds

(* Connections beyond nconn have empty channels.                           *)
LEMMA ClientFacts ==
    ASSUME IInv
    PROVE  /\ Types /\ None \notin Conns /\ Conns \subseteq Nat /\ None \notin Nat
           /\ \A j \in Conns : j # fd /\ j # cand => ~cEnd[j]
           /\ \A j \in Conns : nconn < j => Len(s2c[j]) = 0
           /\ phase = "idle" => cand = None /\ observed = 0 /\ seen = {}
           /\ phase = "idle" /\ fd # None => fd \in Conns /\ Drained(fd) /\ fd <= nconn
           /\ phase = "hello" => /\ cand \in Conns /\ Shaking(cand) /\ fd = None
                                 /\ cand <= nconn
           /\ phase \in {"await", "rows"} =>
                 /\ fd \in Conns /\ fd <= nconn /\ cand = None /\ issued \in Requests
  BY BoundsAssumption, SMTT(30) DEF IInv, Types, Usage, Waiting, Conns, Requests

(* Connect gets the echo and adopts the candidate, or gives it up.         *)
LEMMA HandshakeKeeps ==
    ASSUME IInv, HandshakeEcho \/ HandshakeFails
    PROVE  IInv'
<1>1. /\ Types /\ None \notin Conns /\ Conns \subseteq Nat
      /\ \A j \in Conns : j # cand => ~cEnd[j]
      /\ \A j \in Conns : nconn < j => Len(s2c[j]) = 0
      /\ cand \in Conns /\ Shaking(cand) /\ fd = None /\ cand <= nconn
      /\ s2c[cand] \in Seq(Frames) /\ nconn \in Nat
  BY ClientFacts DEF HandshakeEcho, HandshakeFails, Types
<1>2. /\ UNCHANGED <<nconn, issued, observed, stopped, seen, sent, report, link, c2s, srv, reply>>
      /\ phase' = "idle" /\ cand' = None
  BY Zenon DEF HandshakeEcho, HandshakeFails, serverVars
<1>3. observed = 0 /\ seen = {} /\ phase = "hello"
  BY Zenon DEF IInv, Usage, HandshakeEcho, HandshakeFails
<1>4. History'
  BY <1>2, Zenon DEF IInv, History
<1>5. CASE HandshakeEcho
  <2>1. /\ s2c[cand] # <<>> /\ s2c' = [s2c EXCEPT ![cand] = Tail(@)] /\ fd' = cand
        /\ UNCHANGED cEnd
    BY <1>5, Zenon DEF HandshakeEcho, Readable
  <2>2. Tail(s2c[cand]) \in Seq(Frames) /\ Len(Tail(s2c[cand])) = Len(s2c[cand]) - 1
        /\ Len(s2c[cand]) \in Nat \ {0}
    BY <1>1, <2>1, TakenFrame, Zenon
  <2>3. srv[cand].pc \in {"read", "closed"} /\ Len(Tail(s2c[cand])) = 0 /\ Len(c2s[cand]) = 0
    <3>1. Inbound(cand) /\ srv[cand].pc \in {"read", "closed"}
      BY <1>1, <2>2, Zenon DEF IInv, Shaking
    <3>2. Len(s2c[cand]) <= 1 /\ (srv[cand].pc = "read" => Len(c2s[cand]) = 0)
      BY <1>1, Zenon DEF Shaking
    <3>3. Len(s2c[cand]) = 1
      <4>1. ASSUME NEW m \in Nat \ {0}, m <= 1 PROVE m = 1
        BY <4>1
      <4> QED  BY <2>2, <3>2, <4>1, Zenon
    <3>4. srv[cand].pc = "closed" => Len(c2s[cand]) = 0
      BY <3>1, Zenon DEF Inbound
    <3> QED  BY <2>2, <3>1, <3>2, <3>3, <3>4
  <2>4. s2c' \in [Conns -> Seq(Frames)]
        /\ s2c'[cand] = Tail(s2c[cand]) /\ \A j \in Conns : j # cand => s2c'[j] = s2c[j]
    BY <1>1, <2>1, <2>2, Zenon DEF Types
  <2>5. Types'
    BY <1>1, <1>2, <2>1, <2>4, Zenon DEF Types
  <2>6. Drained(fd)'
    BY <1>1, <1>2, <2>1, <2>3, <2>4, Zenon DEF Drained, Shaking
  <2>7. \A j \in Conns : nconn < j => Len(s2c'[j]) = 0
    BY <1>1, <2>4, SMTT(30)
  <2> QED  BY <1>1, <1>2, <1>3, <1>4, <2>1, <2>5, <2>6, <2>7, QuietInbound, ClientRests, Zenon
<1>6. CASE HandshakeFails
  <2>1. /\ s2c' = [s2c EXCEPT ![cand] = <<>>] /\ UNCHANGED fd
        /\ cEnd' = [cEnd EXCEPT ![cand] = FALSE]
    BY <1>1, <1>6, Zenon DEF HandshakeFails, CloseEnd
  <2>2. <<>> \in Seq(Frames) /\ Len(<<>>) = 0
    OBVIOUS
  <2>3. Types'
    BY <1>1, <1>2, <2>1, <2>2, Zenon DEF Types
  <2>4. \A j \in Conns : ~cEnd'[j] /\ (nconn < j => Len(s2c'[j]) = 0)
    BY <1>1, <2>1, <2>2, Zenon DEF Types
  <2> QED  BY <1>1, <1>2, <1>3, <1>4, <2>1, <2>3, <2>4, QuietInbound, ClientRests, Zenon
<1> QED  BY <1>5, <1>6, Zenon

(* Close leaves no connection in use.                                      *)
LEMMA CloseKeeps ==
    ASSUME IInv, ClientClose
    PROVE  IInv'
<1>1. /\ Types /\ \A j \in Conns : j # fd /\ j # cand => ~cEnd[j]
      /\ \A j \in Conns : nconn < j => Len(s2c[j]) = 0
      /\ cand = None /\ observed = 0 /\ seen = {} /\ None \notin Conns /\ fd \in Conns
  BY ClientFacts, Zenon DEF ClientClose
<1>2. /\ UNCHANGED <<phase, cand, nconn, issued, observed, stopped, seen, sent, report>>
      /\ UNCHANGED <<link, c2s, s2c, srv, reply>>
      /\ phase = "idle" /\ fd' = None /\ cEnd' = [cEnd EXCEPT ![fd] = FALSE]
  BY <1>1, Zenon DEF ClientClose, CloseEnd, serverVars
<1>3. Types' /\ History'
  BY <1>1, <1>2, Zenon DEF Types, IInv, History
<1>4. \A j \in Conns : ~cEnd'[j]
  BY <1>1, <1>2, Zenon DEF Types
<1> QED  BY <1>1, <1>2, <1>3, <1>4, QuietInbound, ClientRests, Zenon

(* Execute returns with a status: the report is new, and the connection    *)
(* stays open only if the status is reusable and the connection drained.   *)
LEMMA ReturnKeeps ==
    ASSUME IInv, NEW status \in Statuses, NEW from \in SUBSET Requests, NEW rows \in Nat,
           issued' \in Requests, issued' \in {issued, issued + 1},
           Return(issued', status, from, rows), status # "ProtocolError",
           phase # "hello",
           UNCHANGED <<cand, nconn, sent, link, srv, reply>>,
           c2s' \in [Conns -> Seq(Frames)], s2c' \in [Conns -> Seq(Frames)],
           \A j \in Conns : Inbound(j)',
           \A j \in Conns : \A r \in Requests : Carries(j, r)' => Carries(j, r),
           \A j \in Conns : j # fd => s2c'[j] = s2c[j],
           fd # None /\ Reusable(status) =>
              /\ cEnd[fd] /\ Len(s2c'[fd]) = 0 /\ Len(c2s'[fd]) = 0
              /\ srv[fd].pc \in {"read", "closed"}
    PROVE  IInv'
<1>1. /\ Types /\ None \notin Conns /\ Conns \subseteq Nat
      /\ \A j \in Conns : j # fd => ~cEnd[j]
      /\ \A j \in Conns : nconn < j => Len(s2c[j]) = 0
      /\ cand = None /\ fd \in Conns \cup {None} /\ nconn \in Nat
      /\ fd # None => fd <= nconn
  <2>1. /\ Types /\ None \notin Conns /\ Conns \subseteq Nat /\ cand = None
        /\ \A j \in Conns : j # fd /\ j # cand => ~cEnd[j]
        /\ \A j \in Conns : nconn < j => Len(s2c[j]) = 0
    BY ClientFacts, Zenon DEF IInv, Usage
  <2>2. fd \in Conns \cup {None} /\ nconn \in 0..MaxConns
    BY <2>1, Zenon DEF Types
  <2>3. fd # None => fd <= nconn
    BY Zenon DEF IInv, Usage
  <2>4. nconn \in Nat
    BY <2>2, SMTT(30)
  <2> QED  BY <2>1, <2>2, <2>3, <2>4, Zenon
<1>2. /\ report' = [report EXCEPT ![issued'] = Result(status, from, rows)]
      /\ phase' = "idle" /\ observed' = 0 /\ stopped' = FALSE /\ seen' = {}
      /\ fd' = IF Reusable(status) THEN fd ELSE None
      /\ cEnd' = IF Reusable(status) THEN cEnd ELSE CloseEnd(cEnd, fd)
  BY Zenon DEF Return
<1>3. cEnd' \in [Conns -> BOOLEAN] /\ \A j \in Conns : j # fd' => ~cEnd'[j]
  BY <1>1, <1>2, Zenon DEF CloseEnd, Types
<1>4. Result(status, from, rows) \in Results /\ Result(status, from, rows).status = status
  BY Zenon DEF Result, Results
<1>5. report' \in [Requests -> Results \cup {None}]
  BY <1>1, <1>2, <1>4, Zenon DEF Types
<1>6. sent \subseteq 1..issued' /\ issued' \in 0..MaxRequests /\ issued <= issued'
  BY <1>1, BoundsAssumption DEF Types, Requests
<1>7. Types'
  BY <1>1, <1>2, <1>3, <1>5, <1>6, Zenon DEF Types
<1>8. History'
  <2>1. \A r \in Requests : r # issued' => report'[r] = report[r]
    BY <1>1, <1>2, Zenon DEF Types
  <2>2. report'[issued'].status = status
    BY <1>1, <1>2, <1>4, Zenon DEF Types
  <2>3. \A r \in Requests : issued' < r => issued < r /\ r # issued'
    BY <1>1, <1>6 DEF Types, Requests
  <2>4. \A r \in Requests : issued' < r => report'[r] = None
    BY <2>1, <2>3, Zenon DEF IInv, History
  <2>5. \A r \in Requests : report'[r] # None => report'[r].status # "ProtocolError"
    BY <2>1, <2>2, Zenon DEF IInv, History
  <2> QED  BY <2>4, <2>5, Zenon DEF IInv, History
<1>9. \A j \in Conns : nconn < j => Len(s2c'[j]) = 0
  BY <1>1
<1>10. fd' # None => fd' <= nconn /\ Drained(fd)'
  BY <1>1, <1>2, Zenon DEF Drained
<1> QED  BY <1>1, <1>2, <1>3, <1>7, <1>8, <1>9, <1>10, ClientRests, Zenon

(* An Execute that returns without having written its frame, or only part  *)
(* of it.                                                                  *)
LEMMA RefusalsKeep ==
    ASSUME IInv, ExecuteRefused \/ ExecuteSendFails
    PROVE  IInv'
<1> DEFINE torn == Frame("TORN", None, 0)
<1>1. /\ Types /\ phase = "idle" /\ issued' = issued + 1 /\ issued < MaxRequests
      /\ None \notin Conns
      /\ fd # None => fd \in Conns /\ Drained(fd)
      /\ UNCHANGED <<cand, nconn, sent, link, srv, reply, s2c>>
  BY ClientFacts, Zenon DEF ExecuteRefused, ExecuteSendFails, serverVars
<1>2. issued' \in Requests
  BY <1>1, BoundsAssumption DEF Types, Requests
<1>3. /\ "TransportError" \in Statuses /\ "InvalidRequest" \in Statuses
      /\ {} \in SUBSET Requests /\ 0 \in Nat /\ ~Reusable("TransportError")
  BY Zenon DEF Statuses, Reusable
<1>4. CASE ExecuteRefused
  <2>1. UNCHANGED c2s
    BY <1>4, Zenon DEF ExecuteRefused
  <2>2. /\ \A j \in Conns : Inbound(j)'
        /\ \A j \in Conns : \A r \in Requests : Carries(j, r)' => Carries(j, r)
    BY <1>1, <2>1, QuietInbound, Zenon
  <2>3. CASE fd = None /\ Return(issued', "TransportError", {}, 0)
    BY <1>1, <1>2, <1>3, <2>1, <2>2, <2>3, ReturnKeeps, Zenon DEF Types
  <2>4. CASE fd # None /\ Return(issued', "InvalidRequest", {}, 0)
    BY <1>1, <1>2, <1>3, <2>1, <2>2, <2>4, ReturnKeeps, Zenon DEF Types, Drained
  <2> QED  BY <1>4, <2>3, <2>4, Zenon DEF ExecuteRefused
<1>5. CASE ExecuteSendFails
  <2>1. fd \in Conns /\ Drained(fd) /\ Return(issued', "TransportError", {}, 0)
    BY <1>1, <1>5, Zenon DEF ExecuteSendFails
  <2>2. torn \in Frames
    BY Zenon DEF Frame, Frames, Tags
  <2>3. c2s[fd] \in Seq(Frames) /\ Len(c2s[fd]) = 0 /\ srv[fd].pc \in {"read", "closed"}
    BY <1>1, <2>1, Zenon DEF Types, Drained
  <2>4. /\ Append(c2s[fd], torn) \in Seq(Frames) /\ Holds(Append(c2s[fd], torn), torn)
    BY <2>2, <2>3, AppendedFrame DEF Holds
  <2>5. /\ c2s' \in [Conns -> Seq(Frames)] /\ \A j \in Conns : j # fd => c2s'[j] = c2s[j]
        /\ \/ c2s'[fd] = c2s[fd]
           \/ srv[fd].pc = "read" /\ c2s'[fd] = Append(c2s[fd], torn)
    <3>1. CASE UNCHANGED c2s
      BY <1>1, <3>1, Zenon DEF Types
    <3>2. CASE c2s' = [c2s EXCEPT ![fd] = Receives(srv[fd].pc # "closed", @, torn)]
      <4>1. Receives(srv[fd].pc # "closed", c2s[fd], torn) \in Seq(Frames)
        BY <2>3, <2>4, Zenon DEF Receives
      <4>2. c2s'[fd] = Receives(srv[fd].pc # "closed", c2s[fd], torn)
        BY <1>1, <2>1, <3>2, Zenon DEF Types
      <4> QED  BY <1>1, <2>1, <2>3, <3>2, <4>1, <4>2, Zenon DEF Receives, Types
    <3> QED  BY <1>5, <3>1, <3>2, Zenon DEF ExecuteSendFails
  <2>6. Unserved' = Unserved
    BY <1>1, Zenon DEF Unserved
  <2>7. \A j \in Conns : Inbound(j)'
    <3> TAKE j \in Conns
    <3>1. Inbound(j)
      BY Zenon DEF IInv
    <3>2. CASE c2s'[j] = c2s[j]
      BY <1>1, <2>6, <3>1, <3>2, InboundKept, Zenon
    <3>3. CASE c2s'[j] # c2s[j]
      <4>1. srv'[j].pc = "read" /\ Holds(c2s'[j], torn)
        BY <1>1, <2>4, <2>5, <3>3, Zenon
      <4> QED  BY <4>1, Zenon DEF Inbound, Holds
    <3> QED  BY <3>2, <3>3, Zenon
  <2>8. \A j \in Conns : \A r \in Requests : Carries(j, r)' => Carries(j, r)
    BY <1>1, <2>4, <2>5, SMTT(30) DEF Carries, Holds, Frame
  <2> QED  BY <1>1, <1>2, <1>3, <2>1, <2>5, <2>7, <2>8, ReturnKeeps, Zenon DEF Types
<1> QED  BY <1>4, <1>5, Zenon

(* The frame the client reads next is the next one of the response; the    *)
(* last one ends the call with the status that fits the reply.             *)
LEMMA NextFrame ==
    ASSUME IInv, phase \in {"await", "rows"}, Readable(fd, s2c[fd]),
           NEW f, f = Head(s2c[fd]), NEW n, n = IF f.tag = "ROW" THEN observed + 1 ELSE observed
    PROVE  /\ reply[issued] \in Replies /\ f.req = issued /\ issued \in Requests /\ n \in Nat
           /\ s2c[fd] \in Seq(Frames) /\ s2c[fd] # <<>> /\ Len(s2c[fd]) \in Nat \ {0}
           /\ Consumed + Len(s2c[fd]) <= ResponseLength(issued)
           /\ \/ Interpret(f) = "more" /\ reply[issued].kind = "ROWS" /\ n = Consumed
              \/ /\ Interpret(f) \in {"CommandOk", "SqlError", "TransactionAbort", "ResultSet",
                                      "ConsumerStopped"}
                 /\ KindOf(Interpret(f)) = reply[issued].kind /\ n = reply[issued].rows
                 /\ Consumed + 1 = ResponseLength(issued)
<1>1. /\ fd \in Conns /\ Stage(fd) /\ issued \in Requests
      /\ phase = "await" => observed = 0
      /\ phase = "rows" => reply[issued].kind = "ROWS"
  BY ClientFacts, Zenon DEF IInv, Waiting
<1>2. /\ s2c[fd] \in Seq(Frames) /\ s2c[fd] # <<>> /\ f.tag # "TORN" /\ observed \in Nat
  BY <1>1, Zenon DEF IInv, Types, Readable
<1>3. Len(s2c[fd]) \in Nat \ {0} /\ f = s2c[fd][1]
  BY <1>2, TakenFrame, Zenon
<1>4. reply[issued] \in Replies
  BY <1>1, <1>3, Zenon DEF Stage, IInv, Types
<1>5. reply[issued] # None
  BY <1>4, NoneAssumption, Zenon
<1>6. Consumed \in Nat /\ n \in Nat
  BY <1>2 DEF Consumed
<1>7. f = ResponseFrame(issued, Consumed + 1) /\ Consumed + Len(s2c[fd]) <= ResponseLength(issued)
  BY <1>1, <1>2, <1>3, <1>5 DEF Stage
<1>8. /\ reply[issued].rows \in Nat /\ reply[issued].kind \in {"OK", "ERROR", "ABORT", "ROWS"}
      /\ reply[issued].kind # "ROWS" => reply[issued].rows = 0
  BY <1>1, <1>4, <1>5, BoundsAssumption DEF Replies, IInv, History
<1>9. f.req = issued
  BY <1>7 DEF ResponseFrame, Frame
<1>10. CASE reply[issued].kind # "ROWS"
  <2>1. f = Frame(reply[issued].kind, issued, 0) /\ ResponseLength(issued) = 1
    BY <1>7, <1>10, Zenon DEF ResponseFrame, ResponseLength
  <2>2. phase = "await" /\ Consumed = 0 /\ n = 0 /\ f.tag = reply[issued].kind
    BY <1>1, <1>8, <1>10, <2>1 DEF Consumed, Frame
  <2>3. /\ f.tag = "OK" => Interpret(f) = "CommandOk"
        /\ f.tag = "ERROR" => Interpret(f) = "SqlError"
        /\ f.tag = "ABORT" => Interpret(f) = "TransactionAbort"
    BY <2>2, Zenon DEF Interpret
  <2>4. /\ KindOf("CommandOk") = "OK" /\ KindOf("SqlError") = "ERROR"
        /\ KindOf("TransactionAbort") = "ABORT"
    BY Zenon DEF KindOf
  <2>5. f.tag \in {"OK", "ERROR", "ABORT"}
    BY <1>8, <1>10, <2>2, Zenon
  <2>6. /\ Interpret(f) \in {"CommandOk", "SqlError", "TransactionAbort"}
        /\ KindOf(Interpret(f)) = reply[issued].kind
    BY <2>2, <2>3, <2>4, <2>5, Zenon
  <2> QED  BY <1>1, <1>2, <1>3, <1>4, <1>6, <1>7, <1>8, <1>9, <1>10, <2>1, <2>2, <2>6, SMTT(30)
<1>11. CASE reply[issued].kind = "ROWS" /\ phase = "await"
  <2>1. Consumed = 0 /\ f = Frame("META", issued, 0)
    BY <1>7, <1>11 DEF Consumed, ResponseFrame
  <2>2. f.tag = "META" /\ n = 0
    BY <1>1, <1>11, <2>1 DEF Frame
  <2>3. Interpret(f) = "more"
    BY <1>11, <2>2, Zenon DEF Interpret
  <2> QED  BY <1>1, <1>2, <1>3, <1>4, <1>6, <1>7, <1>9, <1>11, <2>1, <2>2, <2>3, ZenonT(30)
<1>12. CASE reply[issued].kind = "ROWS" /\ phase = "rows"
  <2>1. Consumed = 1 + observed /\ ResponseLength(issued) = reply[issued].rows + 2
    BY <1>12, Zenon DEF Consumed, ResponseLength
  <2>2. CASE observed < reply[issued].rows
    <3>1. Consumed + 1 # 1 /\ Consumed + 1 <= reply[issued].rows + 1
      BY <1>2, <1>8, <2>1, <2>2, SMTT(30)
    <3>2. f = Frame("ROW", issued, 0)
      BY <1>7, <1>12, <3>1, Zenon DEF ResponseFrame
    <3>3. f.tag = "ROW" /\ n = Consumed
      BY <1>2, <2>1, <3>2 DEF Frame
    <3>4. Interpret(f) = "more"
      BY <1>12, <3>3, Zenon DEF Interpret
    <3> QED  BY <1>1, <1>2, <1>3, <1>4, <1>6, <1>7, <1>9, <1>12, <3>3, <3>4, ZenonT(30)
  <2>3. CASE ~(observed < reply[issued].rows)
    <3>1. observed = reply[issued].rows
      BY <1>2, <1>3, <1>7, <1>8, <2>1, <2>3, SMTT(30)
    <3>2. Consumed + 1 # 1 /\ ~(Consumed + 1 <= reply[issued].rows + 1)
          /\ Consumed + 1 = ResponseLength(issued)
      BY <1>2, <1>8, <2>1, <3>1, SMTT(30)
    <3>3. f = Frame("END", issued, reply[issued].rows)
      BY <1>7, <1>12, <3>2, Zenon DEF ResponseFrame
    <3>4. f.tag = "END" /\ f.n = observed /\ n = reply[issued].rows
      BY <3>1, <3>3 DEF Frame
    <3>5. Interpret(f) \in {"ResultSet", "ConsumerStopped"}
      BY <1>12, <3>4, Zenon DEF Interpret
    <3>6. KindOf(Interpret(f)) = "ROWS"
      BY <3>5, Zenon DEF KindOf
    <3> QED  BY <1>1, <1>2, <1>3, <1>4, <1>6, <1>7, <1>9, <1>12, <3>2, <3>4, <3>5, <3>6, ZenonT(30)
  <2> QED  BY <2>2, <2>3, Zenon
<1> QED  BY <1>10, <1>11, <1>12, Zenon

(* A response frame, or the failure to read one.                           *)
LEMMA ReceiveKeeps ==
    ASSUME IInv, ReceiveFrame \/ ReceiveFails
    PROVE  IInv'
<1>1. /\ Types /\ phase \in {"await", "rows"} /\ fd \in Conns /\ issued \in Requests
      /\ None \notin Conns /\ fd <= nconn /\ cand = None
  BY ClientFacts, Zenon DEF ReceiveFrame, ReceiveFails
<1>2. /\ cEnd[fd] /\ Stage(fd) /\ issued \in sent /\ report[issued] = None
      /\ phase = "await" => seen = {}
      /\ phase = "rows" => seen = {issued}
      /\ \A j \in Conns : j # fd => ~Carries(j, issued)
  BY <1>1, Zenon DEF IInv, Waiting
<1>3. UNCHANGED <<cand, nconn, issued, sent, link, c2s, srv, reply>>
  BY Zenon DEF ReceiveFrame, ReceiveFails, serverVars
<1>4. /\ \A j \in Conns : Inbound(j)'
      /\ \A j \in Conns : \A r \in Requests : Carries(j, r)' => Carries(j, r)
  BY <1>3, QuietInbound, Zenon
<1>5. CASE ReceiveFails
  <2>1. /\ Return(issued', "TransportError", seen, observed) /\ s2c' = [s2c EXCEPT ![fd] = <<>>]
        /\ "TransportError" \in Statuses /\ ~Reusable("TransportError")
        /\ seen \in SUBSET Requests /\ observed \in Nat
    BY <1>1, <1>3, <1>5, Zenon DEF ReceiveFails, Statuses, Reusable, Types
  <2>2. <<>> \in Seq(Frames)
    OBVIOUS
  <2>3. /\ s2c' \in [Conns -> Seq(Frames)] /\ \A j \in Conns : j # fd => s2c'[j] = s2c[j]
        /\ c2s' \in [Conns -> Seq(Frames)]
    BY <1>1, <1>3, <2>1, <2>2, Zenon DEF Types
  <2> QED  BY <1>1, <1>3, <1>4, <2>1, <2>3, ReturnKeeps, Zenon
<1>6. CASE ReceiveFrame
  <2> DEFINE f == Head(s2c[fd])  n == IF f.tag = "ROW" THEN observed + 1 ELSE observed
  <2>1. Readable(fd, s2c[fd]) /\ s2c' = [s2c EXCEPT ![fd] = Tail(@)]
    BY <1>6, Zenon DEF ReceiveFrame
  <2>2. \/ /\ Interpret(f) = "more" /\ phase' = "rows" /\ observed' = n
           /\ stopped' \in {stopped, TRUE} /\ seen' = seen \cup {f.req}
           /\ UNCHANGED <<report, fd, cEnd>>
        \/ Interpret(f) # "more" /\ Return(issued, Interpret(f), seen \cup {f.req}, n)
    BY <1>6, Zenon DEF ReceiveFrame
  <2> HIDE DEF f, n
  <2>3. /\ reply[issued] \in Replies /\ f.req = issued /\ issued \in Requests /\ n \in Nat
        /\ s2c[fd] \in Seq(Frames) /\ s2c[fd] # <<>> /\ Len(s2c[fd]) \in Nat \ {0}
        /\ Consumed + Len(s2c[fd]) <= ResponseLength(issued)
        /\ \/ Interpret(f) = "more" /\ reply[issued].kind = "ROWS" /\ n = Consumed
           \/ /\ Interpret(f) \in {"CommandOk", "SqlError", "TransactionAbort", "ResultSet",
                                   "ConsumerStopped"}
              /\ Consumed + 1 = ResponseLength(issued)
    BY <1>1, <2>1, NextFrame DEF f, n
  <2>4. /\ Tail(s2c[fd]) \in Seq(Frames) /\ Len(Tail(s2c[fd])) = Len(s2c[fd]) - 1
        /\ \A i \in 1..Len(s2c[fd]) - 1 : Tail(s2c[fd])[i] = s2c[fd][i + 1]
    BY <2>3, TakenFrame, Zenon
  <2>5. /\ s2c' \in [Conns -> Seq(Frames)] /\ s2c'[fd] = Tail(s2c[fd])
        /\ \A j \in Conns : j # fd => s2c'[j] = s2c[j]
    BY <1>1, <2>1, <2>4, Zenon DEF Types
  <2>6. Consumed \in Nat /\ reply[issued] # None /\ seen \cup {f.req} = {issued}
    <3>1. Consumed \in Nat
      BY <1>1 DEF Consumed, Types
    <3>2. reply[issued] # None
      BY <2>3, NoneAssumption, Zenon
    <3>3. seen = {} \/ seen = {issued}
      BY <1>1, <1>2, Zenon
    <3> QED  BY <2>3, <3>1, <3>2, <3>3, Zenon
  <2>7. CASE Interpret(f) # "more"
    <3>1. Interpret(f) \in Statuses /\ Interpret(f) # "ProtocolError"
          /\ {issued} \in SUBSET Requests
      BY <1>1, <2>3, <2>7, Zenon DEF Statuses
    <3>2. Len(s2c[fd]) = 1 /\ Len(s2c'[fd]) = 0
      <4>1. ASSUME NEW c \in Nat, NEW m \in Nat \ {0}, c + m <= c + 1 PROVE m = 1
        BY <4>1
      <4>2. Consumed + Len(s2c[fd]) <= Consumed + 1
        BY <2>3, <2>7, Zenon
      <4>3. Len(s2c[fd]) = 1
        BY <2>3, <2>6, <4>1, <4>2, Zenon
      <4> QED  BY <2>4, <2>5, <4>3
    <3>3. srv[fd].pc \in {"read", "closed"} /\ Len(c2s[fd]) = 0
      <4> DEFINE upTo == Consumed + Len(s2c[fd])
      <4>1. upTo = ResponseLength(issued) /\ upTo # 0
        BY <2>3, <2>6, <2>7, <3>2
      <4>2. srv[fd].pc # "first"
        BY <1>2, <4>1, Zenon DEF Stage
      <4>3. srv[fd].pc # "rows"
        <5> SUFFICES ASSUME srv[fd].pc = "rows" PROVE FALSE
          BY Zenon
        <5>1. /\ upTo = 1 + srv[fd].sent /\ srv[fd].sent <= srv[fd].out.rows
              /\ reply[issued].kind = "ROWS" /\ reply[issued].rows = srv[fd].out.rows
          BY <1>2, Zenon DEF Stage
        <5>2. srv[fd].sent \in Nat /\ srv[fd].out.rows \in Nat
          BY <1>1, <2>3, <5>1, BoundsAssumption DEF Types, SessionStates, Replies
        <5>3. upTo = srv[fd].out.rows + 2
          BY <4>1, <5>1, Zenon DEF ResponseLength
        <5> HIDE DEF upTo
        <5> QED  BY <5>1, <5>2, <5>3
      <4>4. Inbound(fd)
        BY <1>1, Zenon DEF IInv
      <4>5. srv[fd].pc # "exec"
        BY <1>2, <2>6, <4>4, Zenon DEF Stage, Inbound, Unserved
      <4> QED  BY <1>2, <2>6, <4>2, <4>3, <4>4, <4>5, Zenon DEF Stage, Inbound
    <3>4. Return(issued', Interpret(f), {issued}, n)
      BY <1>3, <2>2, <2>6, <2>7, Zenon
    <3>5. c2s' \in [Conns -> Seq(Frames)]
      BY <1>1, <1>3, Zenon DEF Types
    <3> HIDE DEF f, n
    <3> QED
      BY <1>1, <1>2, <1>3, <1>4, <2>3, <2>5, <3>1, <3>2, <3>3, <3>4, <3>5, ReturnKeeps, ZenonT(30)
  <2>8. CASE Interpret(f) = "more"
    <3>1. /\ phase' = "rows" /\ observed' = n /\ stopped' \in {stopped, TRUE} /\ seen' = {issued}
          /\ UNCHANGED <<report, fd, cEnd>> /\ n = Consumed /\ reply[issued].kind = "ROWS"
      BY <2>2, <2>3, <2>6, <2>8, Zenon
    <3>2. Types'
      BY <1>1, <1>3, <2>3, <2>5, <3>1, Zenon DEF Types
    <3>3. Consumed' = Consumed + 1 /\ ResponseLength(issued)' = ResponseLength(issued)
      BY <1>3, <2>6, <3>1 DEF Consumed, ResponseLength
    <3>4. Consumed' + Len(s2c'[fd]) = Consumed + Len(s2c[fd])
      <4>1. ASSUME NEW c \in Nat, NEW m \in Nat PROVE (c + 1) + (m - 1) = c + m
        OBVIOUS
      <4>2. Len(s2c'[fd]) = Len(s2c[fd]) - 1 /\ Len(s2c[fd]) \in Nat
        BY <2>3, <2>4, <2>5, Zenon
      <4> QED  BY <2>6, <3>3, <4>1, <4>2, Zenon
    <3>5. \A i \in 1..Len(s2c'[fd]) :
             s2c'[fd][i].tag = "TORN" \/ s2c'[fd][i] = ResponseFrame(issued, Consumed + 1 + i)
      <4> TAKE i \in 1..Len(s2c'[fd])
      <4>1. i + 1 \in 1..Len(s2c[fd]) /\ i \in 1..Len(s2c[fd]) - 1
        BY <2>3, <2>4, <2>5
      <4>2. s2c'[fd][i] = s2c[fd][i + 1]
        BY <2>4, <2>5, <4>1, Zenon
      <4>3. s2c[fd][i + 1].tag = "TORN"
            \/ s2c[fd][i + 1] = ResponseFrame(issued, Consumed + (i + 1))
        BY <1>2, <2>6, <4>1, Zenon DEF Stage
      <4>4. Consumed + (i + 1) = Consumed + 1 + i
        BY <2>6, <4>1
      <4> QED  BY <4>2, <4>3, <4>4, Zenon
    <3>6. \A i \in 1..Len(s2c'[fd]) :
             s2c'[fd][i].tag = "TORN" \/ s2c'[fd][i] = ResponseFrame(issued, Consumed + i)'
      BY <1>3, <3>3, <3>5, ZenonT(30) DEF ResponseFrame, Frame
    <3>7. srv[fd].pc # "first" /\ reply[issued] # None
      BY <1>2, <2>3, <2>6 DEF Stage
    <3>8. Stage(fd)'
      BY <1>2, <1>3, <3>1, <3>3, <3>4, <3>6, <3>7, Zenon DEF Stage, Holds, Frame
    <3>9. Waiting'
      BY <1>1, <1>2, <1>3, <2>6, <3>1, <3>8, Zenon DEF Waiting, Carries, Holds, Frame
    <3>10. OneCarrier'
      BY <1>4, Zenon DEF IInv, OneCarrier
    <3>11. \A j \in Conns : nconn < j => Len(s2c'[j]) = 0
      BY <1>1, <2>5, BoundsAssumption DEF IInv, Usage, Types, Conns
    <3>12. Usage'
      BY <1>1, <1>3, <3>1, <3>11, Zenon DEF IInv, Usage
    <3>13. History'
      BY <1>3, <3>1, Zenon DEF IInv, History
    <3> QED  BY <1>4, <3>2, <3>9, <3>10, <3>12, <3>13, Zenon DEF IInv
  <2> QED  BY <2>7, <2>8, Zenon
<1> QED  BY <1>5, <1>6, Zenon

(* execute_sql computes the outcome of the request, which no other         *)
(* connection holds.                                                       *)
LEMMA ExecuteKeeps ==
    ASSUME IInv, NEW k \in Conns, SrvExecute(k)
    PROVE  IInv'
<1>1. /\ Types /\ Inbound(k) /\ srv[k] \in SessionStates /\ srv[k].pc = "exec"
      /\ k = fd /\ phase = "idle" => Drained(k)
      /\ k = cand /\ phase = "hello" => Shaking(k)
      /\ k = fd /\ phase \in {"await", "rows"} => Stage(k)
  BY SessionFacts, Zenon DEF SrvExecute
<1>2. /\ UNCHANGED <<fd, phase, cand, nconn, issued, observed, stopped, seen, sent, report>>
      /\ UNCHANGED <<link, cEnd, c2s, s2c>>
  BY Zenon DEF SrvExecute, clientVars, netVars
<1> DEFINE x == srv[k].req
<1>3. PICK o \in Outcomes :
         /\ srv' = [srv EXCEPT ![k].pc = "first", ![k].out = o, ![k].sent = 0]
         /\ reply' = [reply EXCEPT ![x] = [req |-> {x}, kind |-> o.kind, rows |-> o.rows]]
  BY Zenon DEF SrvExecute
<1>4. x \in Unserved /\ x \in Requests /\ x \in sent /\ reply[x] = None
  <2>1. x \in Unserved
    BY <1>1, Zenon DEF Inbound
  <2>2. x \in sent /\ reply[x] = None
    BY <2>1, Zenon DEF Unserved
  <2> QED  BY <2>1, <2>2, SentRequests, Zenon
<1> DEFINE v == [req |-> {x}, kind |-> o.kind, rows |-> o.rows]
<1>5. v \in Replies /\ v # None /\ (v.kind # "ROWS" => v.rows = 0)
  <2>1. o.kind \in {"OK", "ERROR", "ABORT", "ROWS"} /\ o.rows \in 0..MaxRows
        /\ (o.kind # "ROWS" => o.rows = 0)
    BY BoundsAssumption DEF Outcomes
  <2>2. v \in Replies
    BY <1>4, <2>1, Zenon DEF Replies
  <2> QED  BY <2>1, <2>2, NoneAssumption, Zenon
<1>6. /\ reply'[x] = v /\ \A r \in Requests : r # x => reply'[r] = reply[r]
      /\ reply' \in [Requests -> Replies \cup {None}]
  BY <1>1, <1>3, <1>4, <1>5, Zenon DEF Types
<1>7. /\ srv'[k].pc = "first" /\ srv'[k].out = o /\ srv'[k].sent = 0 /\ srv'[k].req = x
      /\ \A j \in Conns : j # k => srv'[j] = srv[j]
      /\ srv' \in [Conns -> SessionStates]
  <2>1. [srv[k] EXCEPT !.pc = "first", !.out = o, !.sent = 0] \in SessionStates
    <3>1. 0 \in 0..MaxRows /\ "first" \in SrvPCs
      BY BoundsAssumption DEF SrvPCs
    <3> QED  BY <1>1, <3>1, Zenon DEF SessionStates
  <2>2. srv'[k] = [srv[k] EXCEPT !.pc = "first", !.out = o, !.sent = 0]
    BY <1>1, <1>3, Zenon DEF Types
  <2>3. /\ srv' \in [Conns -> SessionStates]
        /\ \A j \in Conns : j # k => srv'[j] = srv[j]
    BY <1>1, <1>3, <2>1, Zenon DEF Types
  <2>4. srv[k] \in SessionStates
    BY <1>1, Zenon
  <2> QED  BY <2>2, <2>3, <2>4, Zenon DEF SessionStates
<1>8. Types'
  BY <1>1, <1>2, <1>6, <1>7, Zenon DEF Types
<1> HIDE DEF x, v
<1>9. Carries(k, x)
  BY <1>1, Zenon DEF Carries, x
<1>10. \A j \in Conns : Inbound(j)'
  <2> TAKE j \in Conns
  <2>1. CASE j = k
    BY <1>1, <1>2, <1>7, <2>1, Zenon DEF Inbound
  <2>2. CASE j # k
    <3>1. ~Carries(j, x) /\ Inbound(j) /\ srv'[j] = srv[j] /\ c2s'[j] = c2s[j]
      BY <1>2, <1>4, <1>7, <1>9, <2>2, Zenon DEF IInv, OneCarrier
    <3>2. \A r \in Unserved : r # x => r \in Unserved'
      <4>1. \A r \in sent : r \in Requests
        BY <1>1, BoundsAssumption DEF Types, Requests
      <4> QED  BY <1>2, <1>6, <4>1, Zenon DEF Unserved
    <3> QED  BY <3>1, <3>2, Zenon DEF Inbound, Carries, Holds
  <2> QED  BY <2>1, <2>2, Zenon
<1>11. \A j \in Conns : \A r \in Requests : Carries(j, r)' => Carries(j, r)
  BY <1>2, <1>7, Zenon DEF Carries, Holds, Frame
<1>12. OneCarrier'
  BY <1>11, Zenon DEF IInv, OneCarrier
<1>13. Waiting'
  <2> SUFFICES ASSUME phase \in {"await", "rows"} PROVE Waiting'
    BY <1>2, Zenon DEF Waiting
  <2>1. /\ fd \in Conns /\ cEnd[fd] /\ issued \in sent /\ report[issued] = None
        /\ phase = "await" => observed = 0 /\ seen = {}
        /\ phase = "rows" => /\ seen = {issued}
                             /\ reply[issued] # None /\ reply[issued].kind = "ROWS"
        /\ \A j \in Conns : j # fd => ~Carries(j, issued)
        /\ Stage(fd)
    BY Zenon DEF IInv, Waiting
  <2>2. issued \in Requests
    BY <1>1, <2>1 DEF Types, Requests
  <2>3. \A j \in Conns : j # fd => ~Carries(j, issued)'
    BY <1>2, <1>11, <2>1, <2>2, Zenon DEF Carries
  <2>4. CASE k = fd
    <3>1. x = issued /\ Stage(k)
      BY <1>1, <2>4, Zenon DEF Stage, x
    <3>2. /\ reply[issued] = None /\ phase = "await" /\ Len(s2c[k]) = 0
          /\ Len(c2s[k]) = 0
      BY <1>1, <1>4, <2>1, <3>1, Zenon DEF Stage, Inbound
    <3>3. Consumed' = 0 /\ reply'[issued] = v /\ v.kind = o.kind /\ v.rows = o.rows
      BY <1>2, <1>6, <3>1, <3>2, Zenon DEF Consumed, v
    <3>4. o.rows \in Nat
      BY BoundsAssumption DEF Outcomes
    <3>5. 0 <= ResponseLength(issued)'
      <4>1. issued' = issued /\ reply'[issued].rows \in Nat
        BY <1>2, <3>3, <3>4, Zenon
      <4> QED  BY ONLY <4>1 DEF ResponseLength
    <3>6. Stage(fd)'
      <4>1. issued' = issued /\ fd' = fd /\ s2c'[fd] = s2c[fd] /\ reply'[issued] # None
        BY <1>2, <1>5, <3>3, Zenon
      <4>2. /\ srv'[fd].pc = "first" /\ srv'[fd].out = o /\ srv'[fd].sent = 0
            /\ srv'[fd].req = issued
        BY <1>7, <2>4, <3>1, Zenon
      <4>3. Len(s2c[fd]) = 0
        BY <2>4, <3>2, Zenon
      <4> QED  BY ONLY <3>3, <3>5, <4>1, <4>2, <4>3 DEF Stage
    <3> QED  BY <1>2, <2>1, <2>3, <3>2, <3>6, Zenon DEF Waiting, Carries
  <2>5. CASE k # fd
    <3>1. x # issued
      BY <1>9, <2>1, <2>5, Zenon
    <3>2. srv'[fd] = srv[fd] /\ reply'[issued] = reply[issued] /\ Consumed' = Consumed
      BY <1>2, <1>6, <1>7, <2>1, <2>2, <2>5, <3>1, ZenonT(30) DEF Consumed
    <3>3. Stage(fd)'
      BY <1>2, <2>1, <3>2, Zenon DEF Stage, Holds, Frame, ResponseFrame, ResponseLength
    <3> QED  BY <1>2, <2>1, <2>3, <3>2, <3>3, Zenon DEF Waiting, Carries
  <2> QED  BY <2>4, <2>5, Zenon
<1>14. Usage'
  <2>1. phase = "idle" /\ fd # None => fd # k /\ Drained(fd)'
    BY <1>1, <1>2, <1>7, Zenon DEF IInv, Usage, Drained, Types
  <2>2. phase = "hello" => fd = None /\ cand \in Conns /\ Shaking(cand)'
    BY <1>1, <1>2, <1>7, Zenon DEF IInv, Usage, Shaking, Types
  <2>3. ~(nconn < k)
    BY <1>1, Zenon DEF IInv, Usage
  <2>4. \A j \in Conns : /\ srv'[j].pc = "unused" <=> nconn < j
                         /\ nconn < j => srv'[j] = Unused
    BY <1>7, <2>3, Zenon DEF IInv, Usage
  <2>5. /\ phase # "hello" => cand = None
        /\ phase # "rows" => observed = 0 /\ seen = {}
        /\ fd # None => fd <= nconn
        /\ cand # None => cand <= nconn
        /\ \A j \in Conns : j # fd /\ j # cand => ~cEnd[j]
        /\ \A j \in Conns : nconn < j => Len(s2c[j]) = 0
    BY Zenon DEF IInv, Usage
  <2> QED  BY <1>2, <2>1, <2>2, <2>4, <2>5, Zenon DEF Usage
<1>15. History'
  <2>1. \A r \in Requests : reply'[r] # None =>
          /\ r \in sent /\ reply'[r].req = {r}
          /\ reply'[r].kind # "ROWS" => reply'[r].rows = 0
    <3> TAKE r \in Requests
    <3>1. CASE r = x
      <4>1. reply'[r] = v /\ v.req = {r}
        BY ONLY <1>6, <3>1 DEF v
      <4> QED  BY <1>4, <1>5, <3>1, <4>1, Zenon
    <3>2. CASE r # x
      BY <1>6, <3>2, Zenon DEF IInv, History
    <3> QED  BY <3>1, <3>2, Zenon
  <2> QED  BY <1>2, <2>1, Zenon DEF IInv, History
<1> QED  BY <1>8, <1>10, <1>12, <1>13, <1>14, <1>15, Zenon DEF IInv

(* The next request on a drained connection.                               *)
LEMMA SendKeeps ==
    ASSUME IInv, ExecuteSend
    PROVE  IInv'
<1>1. /\ Types /\ phase = "idle" /\ fd \in Conns /\ Drained(fd) /\ fd <= nconn /\ cand = None
      /\ observed = 0 /\ seen = {} /\ issued \in Nat /\ issued < MaxRequests
      /\ None \notin Conns /\ Conns \subseteq Nat
  BY ClientFacts, BoundsAssumption, SMTT(30) DEF ExecuteSend, Types
<1>0. PICK r \in Requests : r = issued + 1
  BY <1>1, BoundsAssumption DEF Requests
<1> DEFINE exec == Frame("EXEC", r, 0)
<1>2. /\ issued' = r /\ phase' = "await" /\ sent' = sent \cup {r}
      /\ UNCHANGED <<fd, cand, nconn, observed, stopped, seen, report, link, cEnd, s2c, srv, reply>>
      /\ c2s' = [c2s EXCEPT ![fd] = Receives(srv[fd].pc # "closed", @, exec)]
  BY <1>0, Zenon DEF ExecuteSend, serverVars
<1>3. r \in Requests /\ r \notin sent /\ reply[r] = None /\ report[r] = None
  <2>1. issued < r
    BY <1>0, <1>1
  <2>2. r \notin sent
    <3>1. sent \subseteq 1..issued
      BY <1>1, Zenon DEF Types
    <3> QED  BY <1>0, <1>1, <3>1
  <2> QED  BY <2>1, <2>2, Zenon DEF IInv, History
<1>4. exec \in Frames
  BY <1>3, Zenon DEF Frame, Frames, Tags
<1>5. c2s[fd] \in Seq(Frames) /\ Len(c2s[fd]) = 0 /\ Len(s2c[fd]) = 0 /\ cEnd[fd]
      /\ srv[fd].pc \in {"read", "closed"}
  BY <1>1, Zenon DEF Types, Drained
<1>6. Append(c2s[fd], exec) \in Seq(Frames) /\ Holds(Append(c2s[fd], exec), exec)
  BY <1>4, <1>5, AppendedFrame DEF Holds
<1>7. /\ c2s' \in [Conns -> Seq(Frames)] /\ \A j \in Conns : j # fd => c2s'[j] = c2s[j]
      /\ srv[fd].pc = "read" => Holds(c2s'[fd], exec)
      /\ srv[fd].pc = "closed" => Len(c2s'[fd]) = 0
  <2>1. Receives(srv[fd].pc # "closed", c2s[fd], exec) \in Seq(Frames)
    BY <1>5, <1>6, Zenon DEF Receives
  <2>2. c2s'[fd] = Receives(srv[fd].pc # "closed", c2s[fd], exec)
    BY <1>1, <1>2, Zenon DEF Types
  <2>3. c2s' \in [Conns -> Seq(Frames)] /\ \A j \in Conns : j # fd => c2s'[j] = c2s[j]
    BY <1>1, <1>2, <2>1, Zenon DEF Types
  <2> HIDE DEF exec
  <2> QED  BY <1>5, <1>6, <2>2, <2>3, Zenon DEF Receives
<1>8. Types'
  <2>1. sent' \subseteq 1..issued' /\ issued' \in 0..MaxRequests
    BY <1>0, <1>1, <1>2, BoundsAssumption DEF Types
  <2> QED  BY <1>1, <1>2, <1>7, <2>1, Zenon DEF Types
<1>9. Unserved' = Unserved \cup {r}
  BY <1>2, <1>3, Zenon DEF Unserved
<1>10. \A j \in Conns : \A x \in Requests : Carries(j, x) => x \in sent
  <2> SUFFICES ASSUME NEW j \in Conns, NEW x \in Requests, Carries(j, x) PROVE x \in sent
    BY Zenon
  <2>1. Inbound(j)
    BY Zenon DEF IInv
  <2>2. CASE srv[j].pc = "exec" /\ srv[j].req = x
    BY <2>1, <2>2, Zenon DEF Inbound, Unserved
  <2>3. CASE Holds(c2s[j], Frame("EXEC", x, 0))
    <3>1. srv[j].pc \in {"hello", "read"}
      BY <2>1, <2>3 DEF Inbound, Holds
    <3>2. srv[j].pc # "hello"
      BY <2>1, <2>3 DEF Inbound, Holds, Frame
    <3>3. PICK y \in Unserved : Holds(c2s[j], Frame("EXEC", y, 0))
      BY <2>1, <2>3, <3>1, <3>2 DEF Inbound, Holds, Frame
    <3>4. x = y
      BY <2>3, <3>3 DEF Holds, Frame
    <3> QED  BY <3>3, <3>4, Zenon DEF Unserved
  <2> QED  BY <2>2, <2>3, Zenon DEF Carries
<1>11. \A j \in Conns : Inbound(j)'
  <2> TAKE j \in Conns
  <2>1. Inbound(j)
    BY Zenon DEF IInv
  <2>2. CASE j # fd
    BY <1>2, <1>7, <1>9, <2>1, <2>2, InboundKept, Zenon
  <2>3. CASE j = fd
    BY <1>2, <1>5, <1>7, <1>9, <2>3, Zenon DEF Inbound
  <2> QED  BY <2>2, <2>3, Zenon
<1>12. /\ \A j \in Conns : \A x \in Requests : x # r /\ Carries(j, x)' => Carries(j, x)
       /\ \A j \in Conns : j # fd => ~Carries(j, r)'
  <2>1. \A j \in Conns : j # fd => \A x \in Requests : Carries(j, x)' => Carries(j, x)
    BY <1>2, <1>7, Zenon DEF Carries, Holds
  <2>2. \A x \in Requests : x # r => ~Carries(fd, x)'
    BY <1>2, <1>5, <1>7 DEF Carries, Holds, Frame
  <2> QED  BY <1>2, <1>3, <1>10, <2>1, <2>2, Zenon DEF Carries
<1>13. OneCarrier'
  <2> SUFFICES ASSUME NEW j \in Conns, NEW k \in Conns, NEW x \in Requests,
                      Carries(j, x)', Carries(k, x)'
      PROVE  j = k
    BY Zenon DEF OneCarrier
  <2>1. CASE x = r
    BY <1>12, <2>1, Zenon DEF Carries
  <2>2. CASE x # r
    BY <1>12, <2>2, Zenon DEF IInv, OneCarrier
  <2> QED  BY <2>1, <2>2, Zenon
<1>14. Waiting'
  <2>1. reply'[issued'] = None /\ report'[issued'] = None /\ issued' \in sent'
    BY <1>2, <1>3, Zenon
  <2>2. srv'[fd].pc = "read" => Holds(c2s[fd], Frame("EXEC", issued, 0))'
    BY <1>2, <1>7, Zenon DEF Holds
  <2>3. Stage(fd)'
    BY <1>2, <1>5, <2>1, <2>2, Zenon DEF Stage
  <2>4. \A j \in Conns : j # fd => ~Carries(j, issued)'
    BY <1>2, <1>12, Zenon DEF Carries
  <2> QED  BY <1>1, <1>2, <1>5, <2>1, <2>3, <2>4, Zenon DEF Waiting, Carries
<1>15. Usage'
  BY <1>1, <1>2, Zenon DEF IInv, Usage
<1>16. History'
  <2>1. \A x \in Requests : issued' < x => issued < x
    BY <1>0, <1>1, <1>2 DEF Requests
  <2> QED  BY <1>2, <2>1, Zenon DEF IInv, History
<1> QED  BY <1>8, <1>11, <1>13, <1>14, <1>15, <1>16, Zenon DEF IInv

(* Connect: the old connection is closed, a new one is used.               *)
LEMMA ConnectKeeps ==
    ASSUME IInv, Connect
    PROVE  IInv'
<1> DEFINE hello == Frame("HELLO", None, 0)
<1>1. /\ Types /\ phase = "idle" /\ cand = None /\ observed = 0 /\ seen = {}
      /\ nconn \in Nat /\ nconn < MaxConns /\ None \notin Conns /\ Conns \subseteq Nat
      /\ fd # None => fd \in Conns /\ fd <= nconn
      /\ \A j \in Conns : j # fd => ~cEnd[j]
  BY ClientFacts, BoundsAssumption, SMTT(30) DEF Connect, Types
<1>0. PICK k \in Conns : k = nconn + 1
  BY <1>1, BoundsAssumption DEF Conns
<1>2. k \in Conns /\ k # fd /\ nconn < k
  BY <1>0, <1>1
<1>3. /\ nconn' = k /\ cand' = k /\ fd' = None /\ phase' = "hello"
      /\ cEnd' = [CloseEnd(cEnd, fd) EXCEPT ![k] = TRUE] /\ link' = [link EXCEPT ![k] = "up"]
      /\ c2s' = [c2s EXCEPT ![k] = <<hello>>] /\ srv' = [srv EXCEPT ![k].pc = "hello"]
      /\ UNCHANGED <<issued, observed, stopped, seen, sent, report, s2c, reply>>
  BY <1>0, Zenon DEF Connect
<1>4. hello \in Frames /\ <<hello>> \in Seq(Frames) /\ Holds(<<hello>>, hello)
  <2>1. hello \in Frames
    BY Zenon DEF Frame, Frames, Tags
  <2> HIDE DEF hello
  <2> QED  BY <2>1 DEF Holds
<1>5. srv[k] = Unused /\ Len(s2c[k]) = 0
  BY <1>2, Zenon DEF IInv, Usage
<1>6. /\ srv'[k] = [srv[k] EXCEPT !.pc = "hello"] /\ c2s'[k] = <<hello>>
      /\ \A j \in Conns : j # k => srv'[j] = srv[j] /\ c2s'[j] = c2s[j]
  BY <1>1, <1>2, <1>3, Zenon DEF Types
<1>7. srv'[k].pc = "hello" /\ srv'[k] \in SessionStates
  <2>1. srv[k] \in SessionStates
    BY <1>1, <1>2, Zenon DEF Types
  <2> QED  BY <1>6, <2>1, Zenon DEF SessionStates, SrvPCs
<1>8. cEnd' \in [Conns -> BOOLEAN] /\ cEnd'[k] /\ \A j \in Conns : j # k => ~cEnd'[j]
  BY <1>1, <1>2, <1>3, Zenon DEF CloseEnd, Types
<1>9. Types'
  <2>1. c2s' \in [Conns -> Seq(Frames)] /\ link' \in [Conns -> {"unused", "up", "cut"}]
    BY <1>1, <1>2, <1>3, <1>4, Zenon DEF Types
  <2>2. srv' \in [Conns -> SessionStates]
    BY <1>1, <1>2, <1>3, <1>6, <1>7, Zenon DEF Types
  <2>3. nconn' \in 0..MaxConns
    BY <1>0, <1>1, <1>3, BoundsAssumption
  <2> QED  BY <1>1, <1>2, <1>3, <1>8, <2>1, <2>2, <2>3, Zenon DEF Types
<1>10. \A j \in Conns : Inbound(j)'
  <2> TAKE j \in Conns
  <2>1. Inbound(j) /\ Unserved' = Unserved
    BY <1>3, Zenon DEF IInv, Unserved
  <2>2. CASE j # k
    BY <1>6, <2>1, <2>2, InboundKept, Zenon
  <2>3. CASE j = k
    <3>1. Holds(c2s'[j], hello)
      BY <1>4, <1>6, <2>3, Zenon
    <3> QED  BY <1>7, <2>3, <3>1, Zenon DEF Inbound, Holds
  <2> QED  BY <2>2, <2>3, Zenon
<1>11. \A j \in Conns : \A r \in Requests : Carries(j, r)' => Carries(j, r)
  <2>1. \A r \in Requests : ~Carries(k, r)'
    <3>1. Holds(c2s'[k], hello)
      BY <1>4, <1>6, Zenon
    <3> QED  BY <1>7, <3>1 DEF Carries, Holds, Frame
  <2>2. \A j \in Conns : j # k => \A r \in Requests : Carries(j, r)' => Carries(j, r)
    BY <1>6, Zenon DEF Carries, Holds
  <2> QED  BY <2>1, <2>2, Zenon
<1>12. OneCarrier'
  BY <1>11, Zenon DEF IInv, OneCarrier
<1>13. Waiting' /\ History'
  BY <1>3, Zenon DEF Waiting, IInv, History
<1>14. Usage'
  <2>1. Shaking(cand)'
    BY <1>3, <1>5, <1>7, <1>8 DEF Shaking
  <2>2. \A j \in Conns : nconn' < j => nconn < j /\ j # k
    BY <1>0, <1>1, <1>3
  <2>3. \A j \in Conns : srv'[j].pc = "unused" <=> nconn' < j
    <3> TAKE j \in Conns
    <3>1. CASE j = k
      BY <1>1, <1>3, <1>7, <3>1
    <3>2. CASE j # k
      <4>1. nconn' < j <=> nconn < j
        BY <1>0, <1>1, <1>3, <3>2
      <4> QED  BY <1>6, <3>2, <4>1, Zenon DEF IInv, Usage
    <3> QED  BY <3>1, <3>2, Zenon
  <2>4. \A j \in Conns : nconn' < j => srv'[j] = Unused /\ Len(s2c'[j]) = 0
    BY <1>3, <1>6, <2>2, Zenon DEF IInv, Usage
  <2> QED  BY <1>1, <1>2, <1>3, <1>8, <2>1, <2>3, <2>4 DEF Usage
<1> QED  BY <1>9, <1>10, <1>12, <1>13, <1>14, Zenon DEF IInv

-----------------------------------------------------------------------------
(* The invariant holds at the start and is kept by every step.             *)
THEOREM ExecStreamInvariant == Spec => []IInv
<1>1. Init => IInv
  <2> SUFFICES ASSUME Init PROVE IInv
    BY Zenon
  <2>1. <<>> \in Seq(Frames) /\ Len(<<>>) = 0
    OBVIOUS
  <2>2. Unused \in SessionStates /\ Unused.pc = "unused"
    <3>1. NoOutcome \in Outcomes /\ 0 \in 0..MaxRows /\ "unused" \in SrvPCs
      BY BoundsAssumption DEF NoOutcome, Outcomes, SrvPCs
    <3> QED  BY <3>1, Zenon DEF Unused, Session, SessionStates
  <2>3. Types
    <3>1. 0 \in 0..MaxConns /\ 0 \in 0..MaxRequests
      BY BoundsAssumption
    <3>2. c2s \in [Conns -> Seq(Frames)] /\ s2c \in [Conns -> Seq(Frames)]
      BY <2>1, Zenon DEF Init
    <3>3. srv \in [Conns -> SessionStates]
      BY <2>2, Zenon DEF Init
    <3> QED  BY <3>1, <3>2, <3>3, Zenon DEF Init, Types
  <2>4. \A k \in Conns : srv[k] = Unused /\ Len(c2s[k]) = 0 /\ Len(s2c[k]) = 0
    BY <2>1, Zenon DEF Init
  <2>5. \A k \in Conns : Inbound(k) /\ \A r \in Requests : ~Carries(k, r)
    BY <2>2, <2>4 DEF Inbound, Carries, Holds
  <2>6. Waiting /\ History /\ OneCarrier
    BY <2>5, Zenon DEF Init, Waiting, History, OneCarrier
  <2>7. Usage
    BY <2>2, <2>4, BoundsAssumption DEF Init, Usage, Conns
  <2> QED  BY <2>3, <2>5, <2>6, <2>7, Zenon DEF IInv
<1>2. IInv /\ [Next]_vars => IInv'
  <2> SUFFICES ASSUME IInv, [Next]_vars PROVE IInv'
    BY Zenon
  <2>1. CASE UNCHANGED vars
    <3>1. /\ UNCHANGED <<fd, phase, cand, nconn, issued, observed, stopped, seen, sent, report>>
          /\ UNCHANGED <<link, cEnd, c2s, s2c, srv, reply>>
      BY <2>1, Zenon DEF vars, clientVars, netVars, serverVars
    <3>2. Types' /\ History'
      BY <3>1, Zenon DEF IInv, Types, History
    <3>3. (\A k \in Conns : Inbound(k)') /\ OneCarrier'
      BY <3>1, QuietInbound, Zenon DEF IInv, OneCarrier
    <3>4. Usage'
      BY <3>1, Zenon DEF IInv, Usage, Drained, Shaking
    <3>5. Stage(fd) => Stage(fd)'
      BY <3>1, Zenon DEF Stage, Consumed, Holds, Frame, ResponseFrame, ResponseLength
    <3>6. \A k \in Conns : Carries(k, issued)' => Carries(k, issued)
      BY <3>1, Zenon DEF Carries, Holds, Frame
    <3>7. Waiting'
      BY <3>1, <3>5, <3>6, Zenon DEF IInv, Waiting, Carries
    <3> QED  BY <3>2, <3>3, <3>4, <3>7, Zenon DEF IInv
  <2>2. CASE ClientStep
    BY <2>2, HandshakeKeeps, ReceiveKeeps, Zenon DEF ClientStep
  <2>3. CASE CallerStep
    BY <2>3, ConnectKeeps, CloseKeeps, RefusalsKeep, SendKeeps, Zenon DEF CallerStep
  <2>4. ASSUME NEW k \in Conns, ServerStep(k) \/ Fault(k) PROVE IInv'
    BY <2>4, ReadsKeep, ExecuteKeeps, WritesKeep, EndsKeep, CutKeeps, Zenon
       DEF ServerStep, Fault, SrvReadEnds, SrvReadReset
  <2> QED  BY <2>1, <2>2, <2>3, <2>4, Zenon DEF Next, Quiescent
<1> QED  BY <1>1, <1>2, PTL DEF Spec

(* An open connection between two calls is drained in both directions, for *)
(* any number of requests, connections and rows.                           *)
THEOREM AlwaysSynchronised == Spec => []ClientSynchronised
<1>1. IInv => ClientSynchronised
  <2> SUFFICES ASSUME IInv, phase = "idle", fd # None
      PROVE  s2c[fd] = <<>> /\ c2s[fd] = <<>> /\ srv[fd].pc \in {"read", "closed"}
    BY Zenon DEF ClientSynchronised
  <2>1. fd \in Conns /\ Drained(fd) /\ s2c[fd] \in Seq(Frames) /\ c2s[fd] \in Seq(Frames)
    BY Zenon DEF IInv, Usage, Types
  <2> QED  BY <2>1, EmptyChannel, Zenon DEF Drained
<1> QED  BY <1>1, ExecStreamInvariant, PTL

(* ExecStreamResult never reports a protocol error against this server.    *)
THEOREM NeverProtocolError == Spec => []NoProtocolError
<1>1. IInv => NoProtocolError
  <2> SUFFICES ASSUME IInv PROVE NoProtocolError
    BY Zenon
  <2>1. \A r \in Requests : report[r] # None => report[r].status # "ProtocolError"
    BY Zenon DEF IInv, History
  <2>2. sent \subseteq Requests
    BY SentRequests, Zenon
  <2>3. \A k \in Conns : \A q \in {c2s[k], s2c[k]} : \A i \in 1..Len(q) : q[i].tag \in Tags
    <3> SUFFICES ASSUME NEW k \in Conns, NEW q \in {c2s[k], s2c[k]}, NEW i \in 1..Len(q)
        PROVE  q[i].tag \in Tags
      BY Zenon
    <3>1. q \in Seq(Frames)
      BY DEF IInv, Types
    <3>2. q[i] \in Frames
      BY <3>1
    <3> QED  BY <3>2, Zenon DEF Frames
  <2>4. \A k \in Conns : srv[k].pc \in SrvPCs /\ srv[k].sent \in 0..MaxRows
    BY Zenon DEF IInv, Types, SessionStates
  <2>5. \A r \in Requests : report[r] # None =>
          report[r].status \in Statuses /\ report[r].from \subseteq Requests
    BY Zenon DEF IInv, Types, Results
  <2>6. \A r \in Requests : reply[r] = None \/ reply[r] \in Replies
    BY Zenon DEF IInv, Types
  <2>7. TypeOK
    BY <2>2, <2>3, <2>4, <2>5, <2>6, Zenon DEF IInv, Types, TypeOK
  <2> QED  BY <2>1, <2>7, Zenon DEF NoProtocolError
<1> QED  BY <1>1, ExecStreamInvariant, PTL

-----------------------------------------------------------------------------
(* The refinement: every step is one of RequestReply, or is not seen by    *)
(* the caller.                                                             *)
AbstractReports == [r \in Requests |-> AbstractReport(r)]

(* None is neither a request nor a connection.                             *)
LEMMA NoneApart == None \notin Requests /\ None \notin Conns
  BY BoundsAssumption DEF Requests, Conns

(* A step that leaves the mapped variables alone is not seen.              *)
LEMMA Unseen ==
    ASSUME UNCHANGED <<fd, phase, issued, sent, report, reply>>
    PROVE  UNCHANGED RR!vars
  BY Zenon DEF RR!vars, AbstractReport, FailedReport, RefusedReport, KindOf

(* The report of one request is added, the others stay.                    *)
LEMMA OneReport ==
    ASSUME IInv, NEW x \in Requests, NEW v, report' = [report EXCEPT ![x] = v], UNCHANGED sent
    PROVE  AbstractReports' = [AbstractReports EXCEPT ![x] = AbstractReport(x)']
<1>1. \A r \in Requests : r # x => report'[r] = report[r]
  BY Zenon DEF IInv, Types
<1>2. \A r \in Requests : r # x => AbstractReport(r)' = AbstractReport(r)
  BY <1>1, Zenon DEF AbstractReport
<1> QED  BY <1>2, Zenon DEF AbstractReports

(* Connect and Close are Reconnect.                                        *)
LEMMA RefineReconnect ==
    ASSUME IInv, Connect \/ HandshakeEcho \/ HandshakeFails \/ ClientClose
    PROVE  RR!Reconnect
<1>1. /\ phase \notin {"await", "rows"} /\ phase' \notin {"await", "rows"}
      /\ UNCHANGED <<issued, sent, report, reply>>
  BY Zenon DEF Connect, HandshakeEcho, HandshakeFails, ClientClose, serverVars
<1>2. UNCHANGED AbstractReports
  BY <1>1, Zenon DEF AbstractReports, AbstractReport, FailedReport, RefusedReport, KindOf
<1> QED  BY <1>1, <1>2, Zenon DEF RR!Reconnect, AbstractReports

(* ExecuteSend is Submit.                                                  *)
LEMMA RefineSubmit ==
    ASSUME IInv, ExecuteSend
    PROVE  \E r \in Requests : RR!Submit(r)
<1>1. /\ phase = "idle" /\ fd # None /\ issued \in Nat /\ issued < MaxRequests
      /\ issued' = issued + 1 /\ phase' = "await" /\ sent' = sent \cup {issued + 1}
      /\ UNCHANGED <<fd, report, reply>>
  BY BoundsAssumption DEF ExecuteSend, serverVars, IInv, Types
<1>2. PICK x \in Requests : x = issued + 1
  BY <1>1, BoundsAssumption DEF Requests
<1>3. report[x] = None
  BY <1>1, <1>2 DEF IInv, History
<1>4. \A r \in Requests : AbstractReport(r)' = AbstractReport(r)
  BY <1>1, <1>2, <1>3, Zenon DEF AbstractReport
<1>5. AbstractReports' = AbstractReports /\ AbstractReports[x] = None
  BY <1>3, <1>4, Zenon DEF AbstractReports, AbstractReport
<1>6. RR!Submit(x)
  BY <1>1, <1>2, <1>5, Zenon DEF RR!Submit, AbstractReports
<1> QED  BY <1>6, Zenon

(* An Execute that never wrote its frame is Refuse.                        *)
LEMMA RefineRefuse ==
    ASSUME IInv, ExecuteRefused \/ ExecuteSendFails
    PROVE  \E r \in Requests : RR!Refuse(r)
<1>1. /\ phase = "idle" /\ issued \in Nat /\ issued < MaxRequests
      /\ issued' = issued + 1 /\ UNCHANGED <<sent, reply>>
      /\ \E status \in {"TransportError", "InvalidRequest"} : Return(issued', status, {}, 0)
  <2>1. issued \in 0..MaxRequests
    BY Zenon DEF IInv, Types
  <2>2. issued \in Nat
    BY <2>1, BoundsAssumption
  <2>3. /\ phase = "idle" /\ issued < MaxRequests /\ issued' = issued + 1
        /\ UNCHANGED <<sent, reply>>
    BY Zenon DEF ExecuteRefused, ExecuteSendFails, serverVars
  <2>4. \E status \in {"TransportError", "InvalidRequest"} : Return(issued', status, {}, 0)
    BY Zenon DEF ExecuteRefused, ExecuteSendFails
  <2> QED  BY <2>2, <2>3, <2>4, Zenon
<1>2. PICK x \in Requests : x = issued + 1
  BY <1>1, BoundsAssumption DEF Requests
<1>3. PICK status \in {"TransportError", "InvalidRequest"} : Return(x, status, {}, 0)
  BY <1>1, <1>2, Zenon
<1>4. /\ report[x] = None /\ x \notin sent
      /\ report' = [report EXCEPT ![x] = Result(status, {}, 0)]
      /\ phase' = "idle" /\ fd' \in {fd, None}
  <2>1. sent \subseteq 1..issued
    BY Zenon DEF IInv, Types
  <2>2. report[x] = None
    BY <1>1, <1>2 DEF IInv, History
  <2>3. x \notin sent
    BY <1>1, <1>2, <2>1
  <2>4. /\ report' = [report EXCEPT ![x] = Result(status, {}, 0)] /\ phase' = "idle"
        /\ fd' \in {fd, None}
    BY <1>3, Zenon DEF Return
  <2> QED  BY <2>2, <2>3, <2>4, Zenon
<1>5. report'[x] = Result(status, {}, 0) /\ report'[x] # None
  <2>1. Result(status, {}, 0) \in Results
    BY ZenonT(30) DEF Result, Results, Statuses
  <2> QED  BY <1>4, <2>1, NoneAssumption, Zenon DEF IInv, Types
<1>6. AbstractReport(x)' = RefusedReport
  <2>1. report'[x].status = status
    BY ONLY <1>5 DEF Result
  <2> QED  BY <1>1, <1>4, <1>5, <2>1, Zenon DEF AbstractReport
<1>7. AbstractReports' = [AbstractReports EXCEPT ![x] = RefusedReport] /\ AbstractReports[x] = None
  BY <1>1, <1>4, <1>6, OneReport, Zenon DEF AbstractReports, AbstractReport
<1>8. RR!Refuse(x)
  BY <1>1, <1>4, <1>7, Zenon DEF RR!Refuse, AbstractReports
<1> QED  BY <1>8, ZenonT(30)

(* SrvExecute is Serve.                                                    *)
LEMMA RefineServe ==
    ASSUME IInv, NEW k \in Conns, SrvExecute(k)
    PROVE  \E r \in Requests : RR!Serve(r)
<1>1. /\ UNCHANGED <<fd, phase, issued, sent, report>> /\ Inbound(k) /\ srv[k].pc = "exec"
  BY Zenon DEF SrvExecute, clientVars, IInv
<1>2. PICK x \in Requests : x = srv[k].req /\ x \in sent /\ reply[x] = None
  BY <1>1, SentRequests, Zenon DEF Inbound, Unserved
<1>3. PICK o \in Outcomes :
         reply' = [reply EXCEPT ![x] = [req |-> {x}, kind |-> o.kind, rows |-> o.rows]]
  BY <1>2, Zenon DEF SrvExecute
<1>4. [req |-> {x}, kind |-> o.kind, rows |-> o.rows] \in Replies
  <2>1. o.kind \in {"OK", "ERROR", "ABORT", "ROWS"} /\ o.rows \in 0..MaxRows
    BY BoundsAssumption DEF Outcomes
  <2> QED  BY <2>1, Zenon DEF Replies
<1>5. UNCHANGED AbstractReports
  BY <1>1, Zenon DEF AbstractReports, AbstractReport, FailedReport, RefusedReport, KindOf
<1>6. RR!Serve(x)
  BY <1>1, <1>2, <1>3, <1>4, <1>5, Zenon DEF RR!Serve, AbstractReports
<1> QED  BY <1>6, Zenon

(* A call that ends with a final frame is Answer, one that cannot read is  *)
(* Fail, and a frame in between is not seen.                               *)
LEMMA RefineReceive ==
    ASSUME IInv, ReceiveFrame \/ ReceiveFails
    PROVE  RR!Answer \/ RR!Fail \/ UNCHANGED RR!vars
<1>1. /\ phase \in {"await", "rows"} /\ fd \in Conns /\ issued \in Requests
      /\ issued # None /\ issued \in sent
      /\ phase = "await" => seen = {}
      /\ phase = "rows" => seen = {issued}
      /\ UNCHANGED <<issued, sent, reply>>
  BY ClientFacts, NoneApart, Zenon DEF ReceiveFrame, ReceiveFails, IInv, Waiting, serverVars
<1>2. fd # None /\ seen \subseteq Requests /\ observed \in Nat
  BY <1>1, NoneApart, Zenon DEF IInv, Types
<1>3. CASE ReceiveFails
  <2>1. /\ report' = [report EXCEPT ![issued] = Result("TransportError", seen, observed)]
        /\ phase' = "idle" /\ fd' = None
    BY <1>3, Zenon DEF ReceiveFails, Return, Reusable
  <2>2. Result("TransportError", seen, observed) \in Results
    BY <1>2, Zenon DEF Result, Results, Statuses
  <2>3. report'[issued] = Result("TransportError", seen, observed) /\ report'[issued] # None
    BY <1>1, <2>1, <2>2, NoneAssumption, ZenonT(30) DEF IInv, Types
  <2>4. AbstractReport(issued)' = FailedReport
    <3>1. report'[issued].status = "TransportError"
      BY ONLY <2>3 DEF Result
    <3> QED  BY <1>1, <2>3, <3>1, Zenon DEF AbstractReport
  <2>5. PICK x \in Requests : x = issued
    BY <1>1, Zenon
  <2>6. AbstractReports' = [AbstractReports EXCEPT ![x] = AbstractReport(x)']
    BY <1>1, <2>1, <2>5, OneReport, Zenon
  <2>7. AbstractReport(x)' = FailedReport
    BY <1>1, <2>4, <2>5, Zenon DEF AbstractReport
  <2>8. RR!Fail
    BY <1>1, <2>1, <2>5, <2>6, <2>7, Zenon DEF RR!Fail, AbstractReports
  <2> QED  BY <2>8, Zenon
<1>4. CASE ReceiveFrame
  <2> DEFINE f == Head(s2c[fd])  n == IF f.tag = "ROW" THEN observed + 1 ELSE observed
  <2>1. /\ Readable(fd, s2c[fd])
        /\ \/ Interpret(f) = "more" /\ phase' = "rows" /\ UNCHANGED <<report, fd>>
           \/ Interpret(f) # "more" /\ Return(issued, Interpret(f), seen \cup {f.req}, n)
    BY <1>4, Zenon DEF ReceiveFrame
  <2>2. PICK st : st = Interpret(f)
    BY Zenon
  <2>3. /\ reply[issued] \in Replies /\ f.req = issued /\ n \in Nat
        /\ st # "more" =>
              /\ st \in {"CommandOk", "SqlError", "TransactionAbort", "ResultSet",
                         "ConsumerStopped"}
              /\ KindOf(st) = reply[issued].kind /\ n = reply[issued].rows
    BY <1>1, <2>1, <2>2, NextFrame, Zenon
  <2>4. CASE st = "more"
    <3>1. UNCHANGED <<report, fd, issued, sent, reply>> /\ phase' = "rows"
      BY <1>1, <2>1, <2>2, <2>4, Zenon
    <3> QED
      BY <1>1, <3>1, Zenon DEF RR!vars, AbstractReport, FailedReport, RefusedReport, KindOf
  <2>5. CASE st # "more"
    <3>1. seen \cup {f.req} = {issued}
      BY <1>1, <2>3, Zenon
    <3>2. /\ report' = [report EXCEPT ![issued] = Result(st, {issued}, n)]
          /\ phase' = "idle" /\ fd' = fd
      BY <2>1, <2>2, <2>3, <2>5, <3>1, Zenon DEF Return, Reusable
    <3> HIDE DEF f, n
    <3>3. Result(st, {issued}, n) \in Results
      BY <1>1, <2>3, <2>5, Zenon DEF Result, Results, Statuses
    <3>4. report'[issued] = Result(st, {issued}, n) /\ report'[issued] # None
      BY <1>1, <3>2, <3>3, NoneAssumption, Zenon DEF IInv, Types
    <3>5. reply[issued] = [req |-> {issued}, kind |-> KindOf(st), rows |-> n]
      <4>1. reply[issued].req = {issued}
        BY <1>1, <2>3, NoneAssumption, Zenon DEF IInv, History
      <4> QED  BY <2>3, <2>5, <4>1, Zenon DEF Replies
    <3>6. PICK x \in Requests : x = issued
      BY <1>1, Zenon
    <3>7. AbstractReport(x)' = reply[x]
      BY <1>1, <2>3, <2>5, <3>4, <3>5, <3>6, SMTT(30) DEF AbstractReport, Result
    <3>8. AbstractReports' = [AbstractReports EXCEPT ![x] = AbstractReport(x)']
      BY <1>1, <3>2, <3>6, OneReport, Zenon
    <3>9. reply[x] # None
      BY <2>3, <3>6, NoneAssumption, Zenon
    <3>10. RR!Answer
      BY <1>1, <3>2, <3>6, <3>7, <3>8, <3>9, Zenon DEF RR!Answer, AbstractReports
    <3> QED  BY <3>10, Zenon
  <2> QED  BY <2>4, <2>5, Zenon
<1> QED  BY <1>3, <1>4, Zenon

(* The client, the server and a network that may cut any connection at any *)
(* moment implement RequestReply: a call returns the one reply computed    *)
(* for it with all its rows, or fails and disconnects, and no request is   *)
(* executed twice.                                                         *)
THEOREM ImplementsReplies == Spec => ImplementsRequestReply
<1>1. Init => RR!Init
  <2> SUFFICES ASSUME Init PROVE RR!Init
    BY Zenon
  <2>1. \A r \in Requests : AbstractReport(r) = None
    BY Zenon DEF Init, AbstractReport
  <2> QED  BY <2>1, Zenon DEF Init, RR!Init
<1>2. IInv /\ [Next]_vars => [RR!Next]_(RR!vars)
  <2> SUFFICES ASSUME IInv, [Next]_vars PROVE RR!Next \/ UNCHANGED RR!vars
    BY Zenon
  <2>1. CASE UNCHANGED vars
    BY <2>1, Unseen, Zenon DEF vars, clientVars, netVars, serverVars
  <2>2. CASE ClientStep
    BY <2>2, RefineReconnect, RefineReceive, Zenon DEF ClientStep, RR!Next
  <2>3. CASE CallerStep
    BY <2>3, RefineReconnect, RefineSubmit, RefineRefuse, Zenon DEF CallerStep, RR!Next
  <2>4. ASSUME NEW k \in Conns, ServerStep(k) \/ Fault(k)
        PROVE  RR!Next \/ UNCHANGED RR!vars
    <3>1. CASE SrvExecute(k)
      BY <3>1, RefineServe, Zenon DEF RR!Next
    <3>2. CASE ~SrvExecute(k)
      <4>1. UNCHANGED <<fd, phase, issued, sent, report, reply>>
        BY <2>4, <3>2, Zenon
           DEF ServerStep, Fault, Cut, SrvHandshake, SrvReadRequest, SrvSendSingle, SrvSendMeta,
               SrvSendRow, SrvRowTooLarge, SrvSendEnd, SrvReadEnds, SrvReadReset, SrvReadFails,
               SrvWriteFails, clientVars, serverVars
      <4> QED  BY <4>1, Unseen, Zenon
    <3> QED  BY <3>1, <3>2, Zenon
  <2> QED  BY <2>1, <2>2, <2>3, <2>4, Zenon DEF Next, Quiescent
<1> QED
  BY <1>1, <1>2, ExecStreamInvariant, PTL DEF Spec, RR!Spec, ImplementsRequestReply
=============================================================================
