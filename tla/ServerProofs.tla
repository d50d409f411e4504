---------------------------- MODULE ServerProofs ----------------------------
(***************************************************************************)
(* TLAPS proofs about the server: its threads and sockets (Server), for    *)
(* any sets of connections and descriptor numbers, and the transactions of *)
(* its sessions (Session), for any number of sessions, transactions and    *)
(* exceptions.                                                             *)
(*                                                                         *)
(* For Server the argument rests on who owns a descriptor number.  A       *)
(* connection owns its number from accept() to close(); the numbers that   *)
(* serve() and the signal handler close are never a connection's, because  *)
(* a stop request leaves listening_fd set only when it came before any     *)
(* client could be accepted.  Registration and erasure happen inside       *)
(* clients_mutex_, so no connection registers a reused number between the  *)
(* close() and the erase of its previous user.                             *)
(*                                                                         *)
(* For Session: each live transaction has exactly one session that will    *)
(* end it, no Context outlives its transaction, and replies tell what      *)
(* happened.                                                               *)
(***************************************************************************)
EXTENDS Server, Session, TLAPS

Holding == {"accepted", "handshake", "read", "exec", "send", "abort", "lock",
            "close"}

Served == {"handshake", "read", "exec", "send", "abort", "lock", "close"}

(* A connection owns exactly its own number, from accept() to close().     *)
Ownership ==
    /\ \A c \in Conns : thread[c] \in Holding =>
          sockFd[c] \in Fds /\ fdTable[sockFd[c]] = c
    /\ \A f \in Fds : fdTable[f] \in Conns =>
          sockFd[fdTable[f]] = f /\ thread[fdTable[f]] \in Holding
    /\ \A c \in Conns : thread[c] = "erase" => sockFd[c] \in Fds

(* No client has been accepted yet.                                        *)
NoClients ==
    /\ \A c \in Conns : thread[c] \in {"none", "pending"}
    /\ \A f \in Fds : fdTable[f] \in {"free", "listener"}

(* Who knows the listening socket, and when it can still be open.          *)
Listener ==
    /\ listeningFd # NoFd =>
          \/ fdTable[listeningFd] = "listener"
          \/ pc = "endclear" /\ fdTable[listeningFd] = "free"
    /\ \A f \in Fds : fdTable[f] = "listener" =>
          f = listeningFd \/ (pc = "assign" /\ f = arg)
    /\ pc = "assign" => arg \in Fds /\ fdTable[arg] = "listener"
    /\ pc \in {"endclose", "endclear"} => listeningFd \in {NoFd, arg}
    /\ pc = "endclear" => \A f \in Fds : fdTable[f] = "free"
    /\ pc \in {"boot", "recover", "listen", "assign", "stop", "join", "flush",
               "closedb", "done"} => listeningFd = NoFd
    /\ pc \in {"boot", "recover", "listen", "assign", "endload", "endclose",
               "endclear"} => NoClients
    /\ stopRequested /\ listeningFd # NoFd =>
          /\ NoClients
          /\ pc \in {"loop", "endcheck", "endload", "endclose", "endclear"}
    /\ pc \in {"endcheck", "endload", "endclose", "endclear"} => stopRequested

(* The connection main has accepted and not yet handed to a thread.        *)
InHands ==
    /\ pc \in {"configure", "register", "spawn"} =>
          cur \in Conns /\ thread[cur] = "accepted"
    /\ pc = "reject" =>
          cur \in Conns /\ thread[cur] \in {"lock", "close", "erase", "exited"}
    /\ \A c \in Conns : thread[c] = "accepted" =>
          c = cur /\ pc \in {"configure", "register", "spawn"}
    /\ pc = "spawn" => sockFd[cur] \in clientFds

(* The holder of clients_mutex_ is the one connection inside close_client. *)
Mutex ==
    /\ \A c \in Conns : thread[c] \in {"close", "erase"} <=> mutex = c

(* Registered numbers belong to connections that have not been erased, and *)
(* the number being erased is registered for nobody else.                  *)
Registry ==
    /\ \A c \in Conns : thread[c] \in Served => sockFd[c] \in clientFds
    /\ \A f \in clientFds : \E c \in Conns :
          /\ sockFd[c] = f
          /\ thread[c] \in Served \cup {"erase"} \/ (c = cur /\ pc = "spawn")
    /\ \A c, d \in Conns :
          thread[c] = "erase" /\ c # d /\ sockFd[c] = sockFd[d] =>
              thread[d] \notin Served /\ ~(d = cur /\ pc = "spawn")

IInv ==
    /\ TypeOK
    /\ Ownership
    /\ Listener
    /\ InHands
    /\ Mutex
    /\ Registry
    /\ NoClientDuringClose
-----------------------------------------------------------------------------
(* The initial state of the process satisfies the inductive invariant.     *)
LEMMA InitInv == Init => IInv
<1> SUFFICES ASSUME Init PROVE IInv
  BY Zenon
<1> USE ConnsAssumption, FdsAssumption DEF Init
<1>1. TypeOK
  BY Zenon DEF TypeOK, MainPCs, ThreadPCs
<1>2. Ownership /\ InHands /\ Registry
  BY Zenon DEF Ownership, Holding, InHands, Registry, Served
<1>3. Listener
  BY Zenon DEF Listener, NoClients, NoFd
<1>4. Mutex /\ NoClientDuringClose
  BY Zenon DEF Mutex, NoClientDuringClose, Running
<1> QED
  BY <1>1, <1>2, <1>3, <1>4, Zenon DEF IInv

(* A client thread that serves its connection, outside the mutex.          *)
Serving == Served \ {"close"}

(* Steps of a client thread between its states of Serving, whatever bytes  *)
(* they take from the socket, preserve the inductive invariant: nothing    *)
(* that it says tells these states apart.                                  *)
LEMMA ServingStep ==
  ASSUME IInv, NEW c \in Conns, thread[c] \in Serving \ {"lock"},
         NEW t \in Serving, thread' = [thread EXCEPT ![c] = t],
         inbox' \in [Conns -> BOOLEAN],
         UNCHANGED <<pc, mainVars, mutex, clientFds, fdTable, sockFd, shut,
                     peerClosed>>
  PROVE  IInv'
<1>1. /\ thread' \in [Conns -> ThreadPCs]
      /\ \A d \in Conns : d # c => thread'[d] = thread[d]
      /\ thread'[c] \in Serving
  BY Zenon DEF IInv, TypeOK, ThreadPCs, Serving, Served
<1>2. \A d \in Conns :
         /\ thread'[d] \in Holding <=> thread[d] \in Holding
         /\ thread'[d] \in Served <=> thread[d] \in Served
         /\ thread'[d] \in {"close", "erase"} <=> thread[d] \in {"close", "erase"}
         /\ thread'[d] = "erase" <=> thread[d] = "erase"
         /\ thread'[d] = "accepted" <=> thread[d] = "accepted"
         /\ thread'[d] \in {"none", "pending"} <=> thread[d] \in {"none", "pending"}
         /\ d \in Running' <=> d \in Running
         /\ thread[d] \in {"lock", "close", "erase", "exited"} /\ d # c =>
               thread'[d] \in {"lock", "close", "erase", "exited"}
  BY <1>1 DEF Holding, Serving, Served, Running
<1>3. TypeOK'
  BY <1>1, Zenon DEF IInv, TypeOK, mainVars
<1>4. Ownership'
  BY <1>2, Zenon DEF IInv, Ownership
<1>5. Registry'
  <2>1. \A d \in Conns :
           thread[d] \in Served \cup {"erase"} => thread'[d] \in Served \cup {"erase"}
    BY <1>2, Zenon
  <2> QED
    BY <1>2, <2>1 DEF IInv, Registry, mainVars
<1>6. Mutex' /\ Listener'
  BY <1>2 DEF IInv, Mutex, Listener, NoClients, mainVars
<1>7. NoClientDuringClose'
  <2>1. Running' = Running
    BY <1>2, Zenon DEF Running
  <2> QED
    BY <2>1, Zenon DEF IInv, NoClientDuringClose
<1>8. InHands'
  <2>1. thread[c] \notin {"lock", "close", "erase", "exited"}
    BY Zenon DEF Serving, Served
  <2> QED
    BY <1>2, <2>1, Zenon DEF IInv, InHands, mainVars
<1> QED
  BY <1>3, <1>4, <1>5, <1>6, <1>7, <1>8, Zenon DEF IInv

(* The steps of a client thread that only move it within Serving.          *)
LEMMA ServingInv ==
  ASSUME IInv, NEW c \in Conns,
         \/ Handshake(c) \/ ReadRequest(c) \/ ReadEof(c) \/ ReadTimeout(c)
         \/ SendResponse(c) \/ SendOnDeadSocket(c) \/ SendGivesUp(c)
         \/ AbortSession(c)
  PROVE  IInv'
<1> USE DEF mainVars, sockVars
<1>1. /\ thread[c] \in Serving \ {"lock"}
      /\ \E t \in Serving : thread' = [thread EXCEPT ![c] = t]
  BY Zenon DEF Handshake, ReadRequest, ReadEof, ReadTimeout, ReadReturnsNothing,
         SendResponse, SendOnDeadSocket, SendGivesUp, SendReturnsFalse,
         AbortSession, Serving, Served
<1>2. UNCHANGED <<pc, mainVars, mutex, clientFds, fdTable, sockFd, shut,
                  peerClosed>>
  BY Zenon DEF Handshake, ReadRequest, ReadEof, ReadTimeout, ReadReturnsNothing,
         SendResponse, SendOnDeadSocket, SendGivesUp, SendReturnsFalse,
         AbortSession
<1>3. inbox' \in [Conns -> BOOLEAN]
  BY Zenon
  DEF Handshake, ReadRequest, ReadEof, ReadTimeout, ReadReturnsNothing,
      SendResponse, SendOnDeadSocket, SendGivesUp, SendReturnsFalse,
      AbortSession, IInv, TypeOK
<1> QED
  BY <1>1, <1>2, <1>3, ServingStep, Zenon

(* What a peer sends or closes, and stuttering, leaves all that the        *)
(* inductive invariant relates alone.                                      *)
LEMMA PeerInv ==
  ASSUME IInv,
         UNCHANGED vars \/ \E c \in Conns : PeerSend(c) \/ PeerClose(c)
  PROVE  IInv'
<1>1. UNCHANGED <<pc, mainVars, mutex, clientFds, fdTable, thread, sockFd, shut>>
  BY Zenon DEF vars, mainVars, PeerSend, PeerClose
<1>2. inbox' \in [Conns -> BOOLEAN] /\ peerClosed' \in [Conns -> BOOLEAN]
  BY Zenon DEF vars, PeerSend, PeerClose, IInv, TypeOK
<1>3. TypeOK'
  BY <1>1, <1>2, Zenon DEF IInv, TypeOK, mainVars
<1>4. Ownership' /\ Registry' /\ Mutex' /\ InHands'
  BY <1>1 DEF IInv, Ownership, Registry, Mutex, InHands, mainVars
<1>5. Listener' /\ NoClientDuringClose'
  BY <1>1, Zenon DEF IInv, Listener, NoClients, NoClientDuringClose, Running, mainVars
<1> QED
  BY <1>3, <1>4, <1>5, Zenon DEF IInv

(* A connection request waits in the queue of the listening socket.        *)
LEMMA ConnectInv ==
  ASSUME IInv, NEW c \in Conns, Connect(c)
  PROVE  IInv'
<1> USE DEF Connect, mainVars, sockVars
<1>1. TypeOK'
  BY Zenon DEF IInv, TypeOK, ThreadPCs
<1>2. \A d \in Conns :
         /\ d # c => thread'[d] = thread[d]
         /\ thread[c] = "none" /\ thread'[c] = "pending"
  BY Zenon DEF IInv, TypeOK
<1>3. Ownership' /\ Mutex' /\ InHands'
  BY <1>2 DEF IInv, Ownership, Holding, Mutex, InHands
<1>4. Registry'
  BY <1>2 DEF IInv, Registry, Served
<1>5. Listener'
  BY <1>2, Zenon DEF IInv, Listener, NoClients
<1>6. NoClientDuringClose'
  <2>1. Running' = Running
    BY <1>2, Zenon DEF Running
  <2> QED
    BY <2>1, Zenon DEF IInv, NoClientDuringClose
<1> QED
  BY <1>1, <1>3, <1>4, <1>5, <1>6, Zenon DEF IInv

(* The steps of the main thread that leave connections, descriptor         *)
(* numbers, the registry and the mutex alone.                              *)
MainOnly ==
    \/ OpenDatabase \/ Recover \/ ListenFails \/ AssignListeningFd
    \/ LoopTest \/ LoadListeningFd
    \/ AcceptOnClosedSocket \/ AcceptTransientError
    \/ ConfigureConnection \/ RejectDone
    \/ EndCheck \/ EndLoad \/ EndClear
    \/ ShutdownClients \/ JoinClients \/ FlushLog

(* They preserve the inductive invariant.                                  *)
LEMMA MainOnlyInv == ASSUME IInv, MainOnly PROVE IInv'
<1> USE DEF MainOnly, OpenDatabase, Recover, ListenFails, AssignListeningFd,
        LoopTest, LoadListeningFd, AcceptOnClosedSocket, AcceptTransientError,
        AcceptReturnsError, ConfigureConnection, RejectDone, EndCheck, EndLoad,
        EndClear, ShutdownClients, JoinClients, FlushLog, Goto
<1>1. /\ UNCHANGED <<mutex, clientFds, fdTable, thread, sockFd, peerClosed, inbox>>
      /\ pc' # "spawn" /\ pc # "spawn"
  BY Zenon DEF mainVars, sockVars
<1>2. TypeOK'
  <2>1. /\ pc' \in MainPCs /\ stopRequested' = stopRequested
        /\ listeningFd' \in {listeningFd, arg, NoFd} /\ arg' \in {arg, listeningFd}
        /\ cur' \in {cur, NoConn}
    BY Zenon DEF mainVars, MainPCs
  <2>2. databaseOpen' \in BOOLEAN
    BY Zenon DEF mainVars, IInv, TypeOK
  <2>3. shut' \in [Conns -> BOOLEAN]
    BY Zenon DEF sockVars, IInv, TypeOK
  <2>4. TypeOK
    BY Zenon DEF IInv
  <2> QED
    BY ONLY <1>1, <2>1, <2>2, <2>3, <2>4, Zenon DEF TypeOK
<1>3. Ownership' /\ Mutex'
  <2>1. Ownership /\ Mutex
    BY Zenon DEF IInv
  <2> QED
    BY ONLY <1>1, <2>1, Zenon DEF Ownership, Mutex
<1>4. Registry'
  <2>1. Registry
    BY Zenon DEF IInv
  <2> QED
    BY ONLY <1>1, <2>1, Zenon DEF Registry
<1>5. InHands'
  BY Zenon DEF IInv, InHands, mainVars, sockVars
<1>6. Listener'
  BY FdsAssumption DEF IInv, TypeOK, Listener, NoClients, NoFd, mainVars, sockVars
<1>7. NoClientDuringClose'
  <2>1. pc' \in {"flush", "closedb", "done"} =>
           pc = "flush" \/ (pc = "join" /\ Running = {})
    BY Zenon
  <2>2. pc = "join" /\ Running = {} => clientFds = {}
    <3>1. Registry /\ (pc = "join" => pc # "spawn")
      BY Zenon DEF IInv
    <3> QED
      BY ONLY <3>1, Zenon DEF Registry, Served, Running
  <2>3. Running' = Running
    BY ONLY <1>1, Zenon DEF Running
  <2>4. NoClientDuringClose
    BY Zenon DEF IInv
  <2> QED
    BY ONLY <1>1, <2>1, <2>2, <2>3, <2>4, Zenon DEF NoClientDuringClose
<1> QED
  BY ONLY <1>2, <1>3, <1>4, <1>5, <1>6, <1>7, Zenon DEF IInv

(* Every step of the main thread, of a client thread, of the signal        *)
(* handler and of a peer preserves the inductive invariant.                *)
LEMMA StepInv == IInv /\ [Next]_vars => IInv'
<1> SUFFICES ASSUME IInv, [Next]_vars PROVE IInv'
  BY Zenon
<1> USE ConnsAssumption, FdsAssumption DEF Goto, mainVars, sockVars
<1>1. CASE HandleInterrupt
  <2> USE <1>1 DEF HandleInterrupt
  <2>1. TypeOK'
    BY Zenon DEF IInv, TypeOK
  <2>2. Ownership'
    BY DEF IInv, Ownership, Listener
  <2>3. Listener'
    BY DEF IInv, TypeOK, Listener, NoClients
  <2>4. InHands'
    BY Zenon DEF IInv, InHands
  <2>5. Mutex'
    BY Zenon DEF IInv, Mutex
  <2>6. Registry'
    BY Zenon DEF IInv, Registry
  <2>7. NoClientDuringClose'
    BY Zenon DEF IInv, NoClientDuringClose, Running
  <2> QED
    BY ONLY <2>1, <2>2, <2>3, <2>4, <2>5, <2>6, <2>7, Zenon DEF IInv
<1>2. CASE CreateListeningSocket
  <2> USE <1>2 DEF CreateListeningSocket, FreeFds, IsNewFd
  <2>1. TypeOK'
    BY Zenon DEF IInv, TypeOK, MainPCs
  <2>2. Ownership'
    BY DEF IInv, Ownership
  <2>3. Listener'
    BY DEF IInv, TypeOK, Listener, NoClients
  <2>4. InHands'
    BY Zenon DEF IInv, InHands
  <2>5. Mutex'
    BY Zenon DEF IInv, Mutex
  <2>6. Registry'
    BY Zenon DEF IInv, Registry
  <2>7. NoClientDuringClose'
    BY Zenon DEF IInv, NoClientDuringClose
  <2> QED
    BY ONLY <2>1, <2>2, <2>3, <2>4, <2>5, <2>6, <2>7, Zenon DEF IInv
<1>3. CASE ConfigureFails
  <2> USE <1>3 DEF ConfigureFails
  <2>1. TypeOK'
    BY Zenon DEF IInv, TypeOK, MainPCs, ThreadPCs, InHands, Ownership, Holding
  <2>2. Ownership'
    BY DEF IInv, TypeOK, Ownership, Holding, InHands
  <2>3. Listener'
    BY DEF IInv, Listener, InHands, Ownership, Holding
  <2>4. InHands'
    BY Zenon DEF IInv, TypeOK, InHands
  <2>5. Mutex'
    BY DEF IInv, Mutex, InHands
  <2>6. Registry'
    BY DEF IInv, Registry, Served, InHands
  <2>7. NoClientDuringClose'
    BY Zenon DEF IInv, NoClientDuringClose
  <2> QED
    BY ONLY <2>1, <2>2, <2>3, <2>4, <2>5, <2>6, <2>7, Zenon DEF IInv
<1>4. CASE RegisterConnection
  <2> USE <1>4 DEF RegisterConnection
  <2>1. TypeOK'
    <3>1. clientFds \subseteq Fds /\ sockFd[cur] \in Fds
      BY Zenon DEF IInv, TypeOK, InHands, Ownership, Holding
    <3>2. clientFds \cup {sockFd[cur]} \subseteq Fds
      BY ONLY <3>1, Zenon
    <3> QED
      BY <3>2, Zenon DEF IInv, TypeOK, MainPCs
  <2>2. Ownership'
    BY Zenon DEF IInv, Ownership
  <2>3. Listener'
    BY Zenon DEF IInv, Listener
  <2>4. InHands'
    BY Zenon DEF IInv, InHands
  <2>5. Mutex'
    BY Zenon DEF IInv, Mutex
  <2>6. Registry'
    BY DEF IInv, Registry, InHands, Mutex
  <2>7. NoClientDuringClose'
    BY Zenon DEF IInv, NoClientDuringClose
  <2> QED
    BY ONLY <2>1, <2>2, <2>3, <2>4, <2>5, <2>6, <2>7, Zenon DEF IInv
<1>5. CASE SpawnThread
  <2> USE <1>5 DEF SpawnThread
  <2>1. TypeOK'
    BY Zenon DEF IInv, TypeOK, MainPCs, ThreadPCs, InHands
  <2>2. Ownership'
    BY DEF IInv, Ownership, Holding, InHands
  <2>3. Listener'
    BY Zenon DEF IInv, Listener
  <2>4. InHands'
    BY Zenon DEF IInv, TypeOK, InHands
  <2>5. Mutex'
    BY DEF IInv, Mutex, InHands
  <2>6. Registry'
    BY DEF IInv, TypeOK, Registry, Served, InHands
  <2>7. NoClientDuringClose'
    BY Zenon DEF IInv, NoClientDuringClose
  <2> QED
    BY ONLY <2>1, <2>2, <2>3, <2>4, <2>5, <2>6, <2>7, Zenon DEF IInv
<1>6. CASE SpawnFails
  <2> USE <1>6 DEF SpawnFails
  <2>1. TypeOK'
    BY Zenon DEF IInv, TypeOK, MainPCs, ThreadPCs, InHands
  <2>2. Ownership'
    BY DEF IInv, Ownership, Holding, InHands
  <2>3. Listener'
    BY Zenon DEF IInv, Listener
  <2>4. InHands'
    BY Zenon DEF IInv, TypeOK, InHands
  <2>5. Mutex'
    BY DEF IInv, Mutex, InHands
  <2>6. Registry'
    BY DEF IInv, TypeOK, Registry, Served, InHands
  <2>7. NoClientDuringClose'
    BY Zenon DEF IInv, NoClientDuringClose
  <2> QED
    BY ONLY <2>1, <2>2, <2>3, <2>4, <2>5, <2>6, <2>7, Zenon DEF IInv
<1>7. CASE EndClose
  <2> USE <1>7 DEF EndClose
  <2>1. TypeOK'
    BY Zenon DEF IInv, TypeOK, MainPCs
  <2>2. Ownership'
    BY DEF IInv, TypeOK, Ownership, Listener, NoClients
  <2>3. Listener'
    BY DEF IInv, TypeOK, Listener, NoClients, NoFd
  <2>4. InHands'
    BY Zenon DEF IInv, InHands
  <2>5. Mutex'
    BY Zenon DEF IInv, Mutex
  <2>6. Registry'
    BY Zenon DEF IInv, Registry
  <2>7. NoClientDuringClose'
    BY Zenon DEF IInv, NoClientDuringClose
  <2> QED
    BY ONLY <2>1, <2>2, <2>3, <2>4, <2>5, <2>6, <2>7, Zenon DEF IInv
<1>8. CASE CloseDb
  <2> USE <1>8 DEF CloseDb
  <2>1. TypeOK'
    BY Zenon DEF IInv, TypeOK, MainPCs
  <2>2. Ownership'
    <3>1. \A f \in Fds : fdTable[f] \in Conns \/ fdTable'[f] \in Conns =>
             fdTable'[f] = fdTable[f]
      BY Zenon DEF IInv
    <3> QED
      BY <3>1, Zenon DEF IInv, Ownership
  <2>3. Listener'
    BY Zenon DEF IInv, Listener
  <2>4. InHands'
    BY Zenon DEF IInv, InHands
  <2>5. Mutex'
    BY Zenon DEF IInv, Mutex
  <2>6. Registry'
    BY Zenon DEF IInv, Registry
  <2>7. NoClientDuringClose'
    BY Zenon DEF IInv, NoClientDuringClose, Running
  <2> QED
    BY ONLY <2>1, <2>2, <2>3, <2>4, <2>5, <2>6, <2>7, Zenon DEF IInv
<1>9. ASSUME NEW c \in Conns, AcceptConnection(c) PROVE IInv'
  <2> USE <1>9 DEF AcceptConnection, FreeFds, IsNewFd, IsListener
  <2>1. TypeOK'
    BY DEF IInv, TypeOK, MainPCs, ThreadPCs
  <2>2. Ownership'
    BY DEF IInv, TypeOK, Ownership, Holding
  <2>3. Listener'
    BY DEF IInv, Listener
  <2>4. InHands'
    BY Zenon DEF IInv, TypeOK, InHands
  <2>5. Mutex'
    BY DEF IInv, Mutex
  <2>6. Registry'
    BY DEF IInv, Registry, Served
  <2>7. NoClientDuringClose'
    BY Zenon DEF IInv, NoClientDuringClose
  <2> QED
    BY ONLY <2>1, <2>2, <2>3, <2>4, <2>5, <2>6, <2>7, Zenon DEF IInv
<1>10. ASSUME NEW c \in Conns, ExecuteSql(c) PROVE IInv'
  <2> USE <1>10 DEF ExecuteSql, FreeFds, IsNewFd
  <2>1. TypeOK'
    BY DEF IInv, TypeOK, ThreadPCs
  <2>2. Ownership'
    <3>1. \A f \in Fds : fdTable[f] \in Conns \/ fdTable'[f] \in Conns =>
             fdTable'[f] = fdTable[f]
      BY DEF IInv, TypeOK
    <3>2. \A d \in Conns : /\ thread'[d] \in Holding <=> thread[d] \in Holding
                           /\ thread'[d] = "erase" <=> thread[d] = "erase"
      BY DEF IInv, Holding
    <3> QED
      BY <3>1, <3>2, ZenonT(60) DEF IInv, Ownership
  <2>3. Listener'
    BY DEF IInv, TypeOK, Listener, NoClients
  <2>4. InHands'
    BY DEF IInv, InHands
  <2>5. Mutex'
    BY DEF IInv, Mutex
  <2>6. Registry'
    BY DEF IInv, Registry, Served
  <2>7. NoClientDuringClose'
    BY Zenon DEF IInv, NoClientDuringClose, Running
  <2> QED
    BY ONLY <2>1, <2>2, <2>3, <2>4, <2>5, <2>6, <2>7, Zenon DEF IInv
<1>11. ASSUME NEW c \in Conns, CloseClientLock(c) PROVE IInv'
  <2> USE <1>11 DEF CloseClientLock
  <2>1. TypeOK'
    BY Zenon DEF IInv, TypeOK, ThreadPCs
  <2>2. Ownership'
    BY DEF IInv, Ownership, Holding
  <2>3. Listener'
    BY Zenon DEF IInv, Listener, NoClients
  <2>4. InHands'
    BY DEF IInv, InHands
  <2>5. Mutex'
    BY DEF IInv, TypeOK, Mutex
  <2>6. Registry'
    BY DEF IInv, Registry, Served
  <2>7. NoClientDuringClose'
    BY Zenon DEF IInv, NoClientDuringClose, Running
  <2> QED
    BY ONLY <2>1, <2>2, <2>3, <2>4, <2>5, <2>6, <2>7, Zenon DEF IInv
<1>12. ASSUME NEW c \in Conns, CloseClientClose(c) PROVE IInv'
  <2> USE <1>12 DEF CloseClientClose
  <2>1. TypeOK'
    BY Zenon DEF IInv, TypeOK, ThreadPCs, Ownership, Holding
  <2>2. Ownership'
    BY DEF IInv, TypeOK, Ownership, Holding
  <2>3. Listener'
    BY DEF IInv, Listener, NoClients, Ownership, Holding
  <2>4. InHands'
    BY DEF IInv, InHands
  <2>5. Mutex'
    BY DEF IInv, Mutex
  <2>6. Registry'
    BY DEF IInv, Registry, Served, Ownership, Holding, InHands
  <2>7. NoClientDuringClose'
    BY Zenon DEF IInv, NoClientDuringClose, Running
  <2> QED
    BY ONLY <2>1, <2>2, <2>3, <2>4, <2>5, <2>6, <2>7, Zenon DEF IInv
<1>13. ASSUME NEW c \in Conns, CloseClientErase(c) PROVE IInv'
  <2> USE <1>13 DEF CloseClientErase
  <2>1. TypeOK'
    BY Zenon DEF IInv, TypeOK, ThreadPCs
  <2>2. Ownership'
    BY DEF IInv, Ownership, Holding
  <2>3. Listener'
    BY Zenon DEF IInv, Listener, NoClients
  <2>4. InHands'
    <3>1. pc = "spawn" => sockFd[cur] # sockFd[c]
      BY Zenon DEF IInv, InHands, Registry
    <3> QED
      BY <3>1 DEF IInv, InHands
  <2>5. Mutex'
    BY Zenon DEF IInv, TypeOK, Mutex
  <2>6. Registry'
    BY DEF IInv, Registry, Served
  <2>7. NoClientDuringClose'
    BY Zenon DEF IInv, NoClientDuringClose, Running
  <2> QED
    BY ONLY <2>1, <2>2, <2>3, <2>4, <2>5, <2>6, <2>7, Zenon DEF IInv
<1> QED
  BY <1>1, <1>2, <1>3, <1>4, <1>5, <1>6, <1>7, <1>8, <1>9, <1>10, <1>11,
     <1>12, <1>13, MainOnlyInv, ServingInv, PeerInv, ConnectInv, Zenon
  DEF Next, MainStep, ThreadStep, ExternalStep, Terminated, MainOnly

(* The inductive invariant holds in every reachable state.                 *)
THEOREM ServerInvariant == Spec => []IInv
  BY InitInv, StepInv, PTL DEF Spec

(* Type correctness of the process state of server.cpp.                    *)
THEOREM ServerTypeCorrect == Spec => []TypeOK
<1>1. IInv => TypeOK
  BY Zenon DEF IInv
<1> QED
  BY <1>1, ServerInvariant, PTL

(* stop_clients() never applies shutdown() to a descriptor number that the *)
(* kernel has given to another connection or to a table file.              *)
THEOREM RegistryAlwaysMatchesSockets == Spec => []RegistryMatchesSockets
<1>1. IInv => RegistryMatchesSockets
  <2> SUFFICES ASSUME IInv, NEW f \in clientFds
               PROVE  \/ \E c \in Conns : sockFd[c] = f /\ fdTable[f] = c
                      \/ /\ mutex \in Conns
                         /\ thread[mutex] = "erase"
                         /\ sockFd[mutex] = f
    BY Zenon DEF RegistryMatchesSockets
  <2>1. PICK c \in Conns :
           /\ sockFd[c] = f
           /\ thread[c] \in Served \cup {"erase"} \/ (c = cur /\ pc = "spawn")
    BY Zenon DEF IInv, Registry
  <2>2. CASE thread[c] = "erase"
    BY <2>1, <2>2, Zenon DEF IInv, Mutex
  <2>3. CASE thread[c] # "erase"
    BY <2>1, <2>3 DEF IInv, Ownership, InHands, Served, Holding
  <2> QED
    BY <2>2, <2>3, Zenon
<1> QED
  BY <1>1, ServerInvariant, PTL

(* Every client thread that may block on its socket is registered, so that *)
(* stop_clients() wakes it.                                                *)
THEOREM ServedConnectionsStayRegistered == Spec => []ServedConnectionRegistered
<1>1. IInv => ServedConnectionRegistered
  BY DEF IInv, Registry, Ownership, Served, Holding, Running,
         ServedConnectionRegistered
<1> QED
  BY <1>1, ServerInvariant, PTL

(* run() flushes the log and closes the database only after every client   *)
(* thread has returned.                                                    *)
THEOREM DatabaseClosedAfterClients == Spec => []NoClientDuringClose
<1>1. IInv => NoClientDuringClose
  BY Zenon DEF IInv
<1> QED
  BY <1>1, ServerInvariant, PTL

(* When run() returns no socket is left open.                              *)
THEOREM SocketsAllClosed == Spec => []NoSocketLeak
<1>1. IInv => NoSocketLeak
  <2> SUFFICES ASSUME IInv, pc = "done", NEW f \in Fds
               PROVE  fdTable[f] \in {"free", "file"}
    BY Zenon DEF NoSocketLeak
  <2>1. fdTable[f] # "listener"
    BY FdsAssumption DEF IInv, Listener, NoFd
  <2>2. fdTable[f] \notin Conns
    BY DEF IInv, Ownership, Holding, InHands, Running, NoClientDuringClose
  <2> QED
    BY <2>1, <2>2, Zenon DEF IInv, TypeOK
<1> QED
  BY <1>1, ServerInvariant, PTL

(* No close() of serve(), of the signal handler, of close_client() or of   *)
(* close_db() releases a descriptor number that belongs to someone else.   *)
THEOREM EveryCloseIsItsOwn == Spec => NoForeignClose
<1>1. ASSUME IInv, [Next]_vars PROVE [ClosesOnlyItsOwn]_vars
  <2> USE <1>1, ConnsAssumption, FdsAssumption DEF Goto, ClosesOnlyItsOwn
  <2>1. CASE HandleInterrupt
    BY <2>1, Zenon DEF HandleInterrupt, IInv, TypeOK, Listener, NoFd
  <2>2. CASE EndClose
    BY <2>2, Zenon DEF EndClose, IInv, TypeOK, Listener, NoClients, NoFd, mainVars
  <2>3. CASE ConfigureFails
    BY <2>3 DEF ConfigureFails, IInv, TypeOK, InHands, Ownership, Holding
  <2>4. ASSUME NEW c \in Conns, CloseClientClose(c) PROVE ClosesOnlyItsOwn
    <3>1. thread[c] = "close" /\ sockFd[c] \in Fds /\ fdTable[sockFd[c]] = c
      BY <2>4, Zenon DEF CloseClientClose, IInv, TypeOK, Ownership, Holding
    <3>2. \A f \in Fds : fdTable'[f] # fdTable[f] => f = sockFd[c]
      BY <2>4 DEF CloseClientClose, IInv, TypeOK, Ownership, Holding
    <3> QED
      BY <3>1, <3>2, Zenon
  <2>5. CASE CloseDb
    <3>1. pc = "closedb" /\ \A f \in Fds : fdTable'[f] # fdTable[f] => fdTable[f] = "file"
      BY ONLY <2>5, Zenon DEF CloseDb, Goto
    <3> QED
      BY ONLY <3>1, ConnsAssumption, Zenon DEF ClosesOnlyItsOwn
  <2>6. CASE CreateListeningSocket
    BY <2>6 DEF CreateListeningSocket, IInv, TypeOK, FreeFds, IsNewFd
  <2>7. ASSUME NEW c \in Conns, AcceptConnection(c) \/ ExecuteSql(c)
        PROVE  ClosesOnlyItsOwn
    BY <2>7 DEF AcceptConnection, ExecuteSql, IInv, TypeOK, FreeFds, IsNewFd
  <2>8. CASE UNCHANGED fdTable
    BY ONLY <2>8, Zenon DEF ClosesOnlyItsOwn
  <2>9. \/ HandleInterrupt \/ EndClose \/ ConfigureFails \/ CloseDb
        \/ CreateListeningSocket \/ UNCHANGED fdTable
        \/ \E c \in Conns : \/ CloseClientClose(c)
                            \/ AcceptConnection(c) \/ ExecuteSql(c)
    BY Zenon
       DEF Next, MainStep, ThreadStep, ExternalStep, Terminated, vars,
           AcceptTransientError, AcceptOnClosedSocket, AcceptReturnsError,
           OpenDatabase, Recover, ListenFails, AssignListeningFd, LoopTest,
           LoadListeningFd, ConfigureConnection, RegisterConnection,
           SpawnThread, SpawnFails, RejectDone, EndCheck, EndLoad, EndClear,
           ShutdownClients, JoinClients, FlushLog, Handshake, ReadRequest,
           ReadEof, ReadTimeout, ReadReturnsNothing, SendOnDeadSocket,
           SendGivesUp, SendReturnsFalse, SendResponse, AbortSession,
           CloseClientLock, CloseClientErase, Connect, PeerSend, PeerClose
  <2> QED
    BY <2>1, <2>2, <2>3, <2>4, <2>5, <2>6, <2>7, <2>8, <2>9, Zenon
<1> QED
  BY <1>1, ServerInvariant, PTL DEF Spec, NoForeignClose

-----------------------------------------------------------------------------
(* Session: the transactions of the sessions.                              *)

(* Between requests a session keeps only a transaction opened by BEGIN.    *)
Kept(s) == txnId[s] = NoTxn \/ txnId[s] \in explicit

(* The statement's transaction has ended in the way of the statement.      *)
Ended(s) == own[s] \in IF kind[s] = "abort" THEN aborted ELSE committed

(* The reply r fits the fate of the statement's transaction.               *)
Fits(s, r) ==
    \/ own[s] = NoTxn
    \/ r # "abort" /\ own[s] = txnId[s] /\ own[s] \in explicit
    \/ r \in {"abort", "error"} /\ own[s] \in aborted
    \/ r = "error" /\ kind[s] = "read"
    \/ r = "ok" /\ Ended(s)

(* What a session knows of its transaction at each step of a request.      *)
Phase(s) ==
    /\ ctx[s] \in {NoTxn, txnId[s]}
    /\ step[s] \in {"idle", "closing", "gone"} => ctx[s] = NoTxn
    /\ step[s] = "gone" => txnId[s] = NoTxn
    /\ step[s] \in {"run", "done", "error", "aborting"} => ctx[s] = txnId[s]
    /\ step[s] \in {"run", "error", "aborting"} => own[s] = txnId[s]
    /\ step[s] = "done" => \/ own[s] = txnId[s] /\ kind[s] # "abort"
                           \/ txnId[s] = NoTxn /\ Ended(s)
    /\ step[s] \in {"idle", "send", "replied"} => Kept(s)
    /\ step[s] = "send" => Fits(s, "ok")
    /\ step[s] = "replied" => Fits(s, reply[s])

(* txn_map_ and the transaction ids of the sessions.                       *)
TxnOwnership ==
    /\ \A s \in Sessions : txnId[s] # NoTxn => txnId[s] \in map
    /\ \A t \in map : \E s \in Sessions : txnId[s] = t
    /\ \A r, s \in Sessions : txnId[r] = txnId[s] /\ r # s => txnId[r] = NoTxn
    /\ map \subseteq 1..last /\ explicit \subseteq map
    /\ ~lab4 => \A s \in Sessions : txnId[s] = NoTxn

SessionInv == SessionTypeOK /\ TxnOwnership /\ \A s \in Sessions : Phase(s)

-----------------------------------------------------------------------------
(* What a step of session s leaves alone: the other sessions' variables.   *)
OthersKeep(s) ==
    \A r \in Sessions \ {s} :
        /\ step'[r] = step[r] /\ kind'[r] = kind[r] /\ txnId'[r] = txnId[r]
        /\ ctx'[r] = ctx[r] /\ own'[r] = own[r] /\ reply'[r] = reply[r]

(* What a step of session s may do to the transactions: it ends at most    *)
(* its own, and what has happened to one stays so.                         *)
EndsOwn(s) ==
    /\ explicit \ {txnId[s]} \subseteq explicit'
    /\ committed \subseteq committed' /\ aborted \subseteq aborted'

(* The phase of another session does not change.                           *)
LEMMA OtherPhases ==
    ASSUME SessionInv, NEW s \in Sessions, NEW r \in Sessions, r # s, OthersKeep(s), EndsOwn(s)
    PROVE  Phase(r)'
<1>1. Phase(r) /\ (txnId[r] = txnId[s] => txnId[r] = NoTxn)
  BY Zenon DEF SessionInv, TxnOwnership
<1>2. txnId[r] \in explicit => txnId[r] \in explicit'
  <2>1. explicit \subseteq Txns
    BY Zenon DEF SessionInv, SessionTypeOK
  <2>2. QED  BY <1>1, <2>1, NoTxnAssumption, Zenon DEF EndsOwn, Txns
<1>3. Kept(r) => Kept(r)'
  BY <1>2, Zenon DEF OthersKeep, Kept
<1>4. Ended(r) => Ended(r)'
  BY Zenon DEF OthersKeep, EndsOwn, Ended
<1>5. ASSUME NEW x PROVE Fits(r, x) => Fits(r, x)'
  BY <1>2, <1>4, Zenon DEF OthersKeep, EndsOwn, Fits
<1>6. Fits(r, reply[r]) => Fits(r, reply[r])'
  BY <1>5, Zenon DEF OthersKeep
<1>7. /\ step'[r] = step[r] /\ kind'[r] = kind[r] /\ txnId'[r] = txnId[r]
      /\ ctx'[r] = ctx[r] /\ own'[r] = own[r]
      /\ reply'[r] = reply[r]
  BY Zenon DEF OthersKeep
<1>8. Fits(r, "ok") => Fits(r, "ok")'
  BY <1>5, Zenon
<1> QED
  BY <1>1, <1>3, <1>4, <1>6, <1>7, <1>8, Zenon DEF Phase

(* TxnOwnership when no transaction begins or ends.                           *)
LEMMA OwnershipKept ==
    ASSUME TxnOwnership, UNCHANGED <<txnId, map, last, lab4>>, explicit' \subseteq map
    PROVE  TxnOwnership'
  BY Zenon DEF TxnOwnership

(* TxnOwnership when session s ends its transaction.                          *)
LEMMA OwnershipEnded ==
    ASSUME SessionTypeOK, TxnOwnership, NEW s \in Sessions, txnId[s] # NoTxn,
           txnId' = [txnId EXCEPT ![s] = NoTxn], map' = map \ {txnId[s]},
           explicit' = explicit \ {txnId[s]}, UNCHANGED <<last, lab4>>
    PROVE  TxnOwnership'
<1>1. txnId \in [Sessions -> Txns \cup {NoTxn}]
  BY Zenon DEF SessionTypeOK
<1>2. \A r \in Sessions : txnId'[r] = IF r = s THEN NoTxn ELSE txnId[r]
  BY <1>1, Zenon
<1>3. \A r \in Sessions : r # s => txnId[r] # txnId[s]
  BY Zenon DEF TxnOwnership
<1>4. \A r \in Sessions : txnId'[r] # NoTxn => txnId'[r] \in map'
  BY <1>2, <1>3 DEF TxnOwnership
<1>5. \A t \in map' : \E r \in Sessions : txnId'[r] = t
  BY <1>2 DEF TxnOwnership
<1>6. \A q, r \in Sessions : txnId'[q] = txnId'[r] /\ q # r => txnId'[q] = NoTxn
  BY <1>2 DEF TxnOwnership
<1>7. map' \subseteq 1..last' /\ explicit' \subseteq map'
  BY Zenon DEF TxnOwnership
<1>8. ~lab4' => \A r \in Sessions : txnId'[r] = NoTxn
  BY <1>2, Zenon DEF TxnOwnership
<1> QED
  BY <1>4, <1>5, <1>6, <1>7, <1>8, Zenon DEF TxnOwnership

(* TxnOwnership when session s, which had none, begins a transaction.         *)
LEMMA OwnershipBegun ==
    ASSUME SessionTypeOK, TxnOwnership, NEW s \in Sessions, txnId[s] = NoTxn, lab4,
           last' = last + 1, txnId' = [txnId EXCEPT ![s] = last'], map' = map \cup {last'},
           UNCHANGED <<explicit, lab4>>
    PROVE  TxnOwnership'
<1>1. txnId \in [Sessions -> Txns \cup {NoTxn}] /\ last \in Nat
  BY SessionBounds DEF SessionTypeOK
<1>2. \A r \in Sessions : txnId'[r] = IF r = s THEN last' ELSE txnId[r]
  BY <1>1, Zenon
<1>3. last' \notin map /\ last' \in 1..last' /\ 1..last \subseteq 1..last'
  BY <1>1 DEF TxnOwnership
<1>4. \A r \in Sessions : txnId[r] = last' => txnId[r] = NoTxn
  BY <1>3, Zenon DEF TxnOwnership
<1>5. \A r \in Sessions : txnId'[r] # NoTxn => txnId'[r] \in map'
  BY <1>2 DEF TxnOwnership
<1>6. \A t \in map' : \E r \in Sessions : txnId'[r] = t
  <2> TAKE t \in map'
  <2>1. CASE t = last'
    BY <2>1, <1>2, Zenon
  <2>2. CASE t # last'
    <3>1. PICK r \in Sessions : txnId[r] = t
      BY <2>2, Zenon DEF TxnOwnership
    <3>2. t # NoTxn
      BY NoTxnAssumption, <2>2, Zenon DEF SessionTypeOK, Txns
    <3> QED  BY <3>1, <3>2, <1>2, Zenon
  <2> QED  BY <2>1, <2>2, Zenon
<1>7. \A q, r \in Sessions : txnId'[q] = txnId'[r] /\ q # r => txnId'[q] = NoTxn
  BY <1>2, <1>4 DEF TxnOwnership
<1>8. map' \subseteq 1..last' /\ explicit' \subseteq map'
  BY <1>3, Zenon DEF TxnOwnership
<1> QED
  BY <1>5, <1>6, <1>7, <1>8, Zenon DEF TxnOwnership

(* A step that keeps the types and the ownership, and leaves session s in  *)
(* the phase it should be in, keeps the invariant.                         *)
LEMMA StepKeeps ==
    ASSUME SessionInv, NEW s \in Sessions, SessionTypeOK', TxnOwnership', Phase(s)', OthersKeep(s), EndsOwn(s)
    PROVE  SessionInv'
<1>1. \A r \in Sessions : r # s => Phase(r)'
  BY OtherPhases, Zenon
<1> QED
  BY <1>1, Zenon DEF SessionInv

(* A step that neither begins nor ends a transaction.                      *)
LEMMA QuietKeeps ==
    ASSUME SessionInv, NEW s \in Sessions, SessionTypeOK', OthersKeep(s), Phase(s)',
           UNCHANGED <<lab4, txnId, last, map, committed, aborted>>,
           explicit \subseteq explicit', explicit' \subseteq map
    PROVE  SessionInv'
<1>1. TxnOwnership'
  BY OwnershipKept, Zenon DEF SessionInv
<1>2. EndsOwn(s)
  BY Zenon DEF EndsOwn
<1> QED
  BY <1>1, <1>2, StepKeeps, Zenon

(* A step that commits or aborts the transaction of its session.           *)
LEMMA EndKeeps ==
    ASSUME SessionInv, NEW s \in Sessions, SessionTypeOK', OthersKeep(s), Phase(s)',
           txnId[s] # NoTxn, txnId' = [txnId EXCEPT ![s] = NoTxn],
           Commit(txnId[s]) \/ Abort(txnId[s]), UNCHANGED lab4
    PROVE  SessionInv'
<1>1. /\ map' = map \ {txnId[s]} /\ explicit' = explicit \ {txnId[s]}
      /\ committed \subseteq committed' /\ aborted \subseteq aborted' /\ UNCHANGED last
  BY Zenon DEF Commit, Abort
<1>2. TxnOwnership'
  BY <1>1, OwnershipEnded, Zenon DEF SessionInv
<1>3. EndsOwn(s)
  BY <1>1, Zenon DEF EndsOwn
<1> QED
  BY <1>2, <1>3, StepKeeps, Zenon

(* The phase of a session tells its transaction, which is in the map.      *)
LEMMA PhaseFacts ==
    ASSUME SessionInv, NEW s \in Sessions
    PROVE  /\ SessionTypeOK /\ Phase(s) /\ explicit \subseteq map
           /\ GetTransaction(txnId[s]) = txnId[s]
           /\ txnId[s] # NoTxn => txnId[s] \in Txns
           /\ Throws => faults' \in 0..MaxFaults
<1>1. SessionTypeOK /\ Phase(s) /\ TxnOwnership
  BY Zenon DEF SessionInv
<1>2. GetTransaction(txnId[s]) = txnId[s] /\ explicit \subseteq map
  BY <1>1, Zenon DEF TxnOwnership, GetTransaction
<1>3. txnId[s] # NoTxn => txnId[s] \in Txns
  BY <1>1, Zenon DEF SessionTypeOK
<1>4. Throws => faults' \in 0..MaxFaults
  BY <1>1, SessionBounds DEF SessionTypeOK, Throws
<1> QED
  BY <1>1, <1>2, <1>3, <1>4, Zenon

-----------------------------------------------------------------------------
(* StartStatement: prepare_transaction finds the transaction, begins one   *)
(* or throws.                                                              *)
LEMMA StartKeeps ==
    ASSUME SessionInv, NEW s \in Sessions, NEW k \in Kinds, StartStatement(s, k)
    PROVE  SessionInv'
<1>1. /\ SessionTypeOK /\ TxnOwnership /\ Phase(s) /\ explicit \subseteq map
      /\ GetTransaction(txnId[s]) = txnId[s]
  BY PhaseFacts, Zenon DEF SessionInv
<1>2. step[s] = "idle" /\ ctx[s] = NoTxn
  BY <1>1, Zenon DEF StartStatement, Proceed, Phase
<1>3. CASE ~lab4 \/ txnId[s] # NoTxn
  <2>1. /\ step' = [step EXCEPT ![s] = "run"] /\ kind' = [kind EXCEPT ![s] = k]
        /\ own' = [own EXCEPT ![s] = txnId[s]] /\ ctx' = [ctx EXCEPT ![s] = txnId[s]]
        /\ UNCHANGED <<lab4, down, txnId, reply, last, map, explicit, committed, aborted, faults>>
    <3>1. CASE ~lab4
      <4>1. txnId[s] = NoTxn /\ ctx = [ctx EXCEPT ![s] = NoTxn]
        BY <1>1, <1>2, <3>1, Zenon DEF TxnOwnership, SessionTypeOK
      <4> QED  BY <3>1, <4>1, Zenon DEF StartStatement, Proceed, txnVars
    <3>2. CASE lab4
      BY <1>1, <1>3, <3>2, Zenon DEF StartStatement, Proceed, txnVars
    <3> QED  BY <3>1, <3>2, Zenon
  <2>2. SessionTypeOK' /\ OthersKeep(s)
    BY <1>1, <2>1, Zenon DEF SessionTypeOK, OthersKeep
  <2>3. step'[s] = "run" /\ own'[s] = txnId[s] /\ ctx'[s] = txnId[s] /\ txnId'[s] = txnId[s]
    BY <1>1, <2>1, Zenon DEF SessionTypeOK
  <2>4. Phase(s)'
    BY <2>3, Zenon DEF Phase
  <2> QED  BY <1>1, <2>1, <2>2, <2>4, QuietKeeps, Zenon
<1>4. CASE lab4 /\ txnId[s] = NoTxn
  <2>1. CASE /\ last < MaxTxns /\ step' = [step EXCEPT ![s] = "run"]
             /\ kind' = [kind EXCEPT ![s] = k] /\ last' = last + 1
             /\ map' = map \cup {last'} /\ ctx' = [ctx EXCEPT ![s] = last']
             /\ own' = [own EXCEPT ![s] = last'] /\ txnId' = [txnId EXCEPT ![s] = last']
             /\ UNCHANGED <<lab4, down, reply, explicit, committed, aborted, faults>>
    <3>1. last' \in Txns /\ last' \in 0..MaxTxns
      BY <1>1, <2>1, SessionBounds DEF SessionTypeOK, Txns
    <3>2. SessionTypeOK'
      BY <1>1, <2>1, <3>1, Zenon DEF SessionTypeOK
    <3>3. TxnOwnership'
      BY <1>1, <1>4, <2>1, OwnershipBegun, Zenon
    <3>4. OthersKeep(s) /\ EndsOwn(s)
      BY <1>1, <2>1, Zenon DEF SessionTypeOK, OthersKeep, EndsOwn
    <3>5. step'[s] = "run" /\ own'[s] = last' /\ ctx'[s] = last' /\ txnId'[s] = last'
      BY <1>1, <2>1, Zenon DEF SessionTypeOK
    <3>6. Phase(s)'
      BY <3>5, Zenon DEF Phase
    <3> QED  BY <3>2, <3>3, <3>4, <3>6, StepKeeps, Zenon
  <2>2. CASE /\ step' = [step EXCEPT ![s] = "error"] /\ kind' = [kind EXCEPT ![s] = k]
             /\ own' = [own EXCEPT ![s] = NoTxn] /\ Throws
             /\ UNCHANGED <<lab4, down, ctx, txnId, reply, last, map, explicit, committed, aborted>>
    <3>1. faults' \in 0..MaxFaults
      BY <2>2, PhaseFacts, Zenon
    <3>2. SessionTypeOK' /\ OthersKeep(s)
      BY <1>1, <2>2, <3>1, Zenon DEF SessionTypeOK, OthersKeep
    <3>3. step'[s] = "error" /\ own'[s] = NoTxn /\ ctx'[s] = NoTxn /\ txnId'[s] = NoTxn
      BY <1>1, <1>2, <1>4, <2>2, Zenon DEF SessionTypeOK
    <3>4. Phase(s)'
      BY <3>3, Zenon DEF Phase
    <3> QED  BY <1>1, <2>2, <3>2, <3>4, QuietKeeps, Zenon
  <2> QED
    BY <1>1, <1>4, <2>1, <2>2, Zenon DEF StartStatement, Proceed, txnVars
<1> QED  BY <1>3, <1>4, Zenon

(* RejectRequest, ReadFails and Replied: between two requests.             *)
LEMMA BetweenKeeps ==
    ASSUME SessionInv, NEW s \in Sessions, RejectRequest(s) \/ ReadFails(s) \/ Replied(s)
    PROVE  SessionInv'
<1>1. SessionTypeOK /\ Phase(s) /\ explicit \subseteq map
  BY PhaseFacts, Zenon
<1>2. UNCHANGED <<lab4, down, txnId, last, map, explicit, committed, aborted, faults>>
  BY Zenon DEF RejectRequest, ReadFails, Replied, Proceed, txnVars
<1>3. CASE RejectRequest(s)
  <2>1. /\ step' = [step EXCEPT ![s] = "replied"] /\ reply' = [reply EXCEPT ![s] = "error"]
        /\ kind' = [kind EXCEPT ![s] = "read"] /\ own' = [own EXCEPT ![s] = NoTxn]
        /\ UNCHANGED ctx /\ step[s] = "idle"
    BY <1>3, Zenon DEF RejectRequest, Proceed
  <2>2. SessionTypeOK' /\ OthersKeep(s)
    BY <1>1, <1>2, <2>1, Zenon DEF SessionTypeOK, OthersKeep, Kinds
  <2>3. step'[s] = "replied" /\ own'[s] = NoTxn /\ ctx'[s] = NoTxn /\ Kept(s)'
    BY <1>1, <1>2, <2>1, Zenon DEF SessionTypeOK, Phase, Kept
  <2>4. Phase(s)'
    BY <2>3, Zenon DEF Phase, Fits
  <2> QED  BY <1>1, <1>2, <2>2, <2>4, QuietKeeps, Zenon
<1>4. CASE ReadFails(s)
  <2>1. /\ step' = [step EXCEPT ![s] = "closing"] /\ UNCHANGED <<kind, ctx, own, reply>>
        /\ step[s] = "idle"
    BY <1>4, Zenon DEF ReadFails, Proceed
  <2>2. SessionTypeOK' /\ OthersKeep(s)
    BY <1>1, <1>2, <2>1, Zenon DEF SessionTypeOK, OthersKeep
  <2>3. step'[s] = "closing" /\ ctx'[s] = NoTxn
    BY <1>1, <2>1, Zenon DEF SessionTypeOK, Phase
  <2>4. Phase(s)'
    BY <2>3, Zenon DEF Phase
  <2> QED  BY <1>1, <1>2, <2>2, <2>4, QuietKeeps, Zenon
<1>5. CASE Replied(s)
  <2>1. PICK to \in {"idle", "closing"} : step' = [step EXCEPT ![s] = to]
    BY <1>5, Zenon DEF Replied, Proceed
  <2>2. /\ ctx' = [ctx EXCEPT ![s] = NoTxn] /\ UNCHANGED <<kind, own, reply>>
        /\ step[s] = "replied"
    BY <1>5, Zenon DEF Replied, Proceed
  <2>3. SessionTypeOK' /\ OthersKeep(s)
    BY <1>1, <1>2, <2>1, <2>2, Zenon DEF SessionTypeOK, OthersKeep
  <2>4. step'[s] \in {"idle", "closing"} /\ ctx'[s] = NoTxn /\ Kept(s)'
    BY <1>1, <1>2, <2>1, <2>2, Zenon DEF SessionTypeOK, Phase, Kept
  <2>5. Phase(s)'
    BY <2>4, Zenon DEF Phase
  <2> QED  BY <1>1, <1>2, <2>3, <2>5, QuietKeeps, Zenon
<1> QED  BY <1>3, <1>4, <1>5, Zenon

(* StatementFails, RunStatement and RunBegin.                              *)
LEMMA RunKeeps ==
    ASSUME SessionInv, NEW s \in Sessions, StatementFails(s) \/ RunStatement(s) \/ RunBegin(s)
    PROVE  SessionInv'
<1>1. SessionTypeOK /\ Phase(s) /\ explicit \subseteq map
  BY PhaseFacts, Zenon
<1>2. /\ UNCHANGED <<lab4, down, txnId, kind, ctx, own, reply>>
      /\ UNCHANGED <<last, map, committed, aborted, faults>>
      /\ step[s] = "run"
  BY Zenon DEF StatementFails, RunStatement, RunBegin, Proceed, txnVars
<1>3. ctx[s] = txnId[s] /\ own[s] = txnId[s]
  BY <1>1, <1>2, Zenon DEF Phase
<1>4. CASE StatementFails(s)
  <2>1. PICK to \in {"error", "aborting"} : step' = [step EXCEPT ![s] = to]
    BY <1>4, Zenon DEF StatementFails, Proceed
  <2>2. UNCHANGED explicit
    BY <1>4, Zenon DEF StatementFails, txnVars
  <2>3. SessionTypeOK' /\ OthersKeep(s)
    BY <1>1, <1>2, <2>1, <2>2, Zenon DEF SessionTypeOK, OthersKeep
  <2>4. step'[s] \in {"error", "aborting"}
    BY <1>1, <2>1, Zenon DEF SessionTypeOK
  <2>5. Phase(s)'
    BY <1>2, <1>3, <2>4, Zenon DEF Phase
  <2> QED  BY <1>1, <1>2, <2>2, <2>3, <2>5, QuietKeeps, Zenon
<1>5. CASE RunStatement(s) \/ RunBegin(s)
  <2>1. /\ step' = [step EXCEPT ![s] = "done"] /\ kind[s] # "abort"
        /\ explicit \subseteq explicit' /\ explicit' \subseteq explicit \cup ({ctx[s]} \ {NoTxn})
    BY <1>5, Zenon DEF RunStatement, RunBegin, Proceed, txnVars
  <2>2. explicit' \subseteq map /\ explicit' \subseteq Txns
    <3>1. txnId[s] # NoTxn => txnId[s] \in map
      BY Zenon DEF SessionInv, TxnOwnership
    <3>2. map \subseteq Txns
      BY <1>1, Zenon DEF SessionTypeOK
    <3>3. {ctx[s]} \ {NoTxn} \subseteq map
      BY <1>3, <3>1, Zenon
    <3> QED  BY <1>1, <2>1, <3>2, <3>3, Zenon
  <2>3. SessionTypeOK' /\ OthersKeep(s)
    BY <1>1, <1>2, <2>1, <2>2, Zenon DEF SessionTypeOK, OthersKeep
  <2>4. step'[s] = "done"
    BY <1>1, <2>1, Zenon DEF SessionTypeOK
  <2>5. Phase(s)'
    BY <1>2, <1>3, <2>1, <2>4, Zenon DEF Phase
  <2> QED  BY <1>2, <2>1, <2>2, <2>3, <2>5, QuietKeeps, Zenon
<1> QED  BY <1>4, <1>5, Zenon

(* RunCommit and RunAbort: the transaction ends, or the manager throws.    *)
LEMMA CommandKeeps ==
    ASSUME SessionInv, NEW s \in Sessions, RunCommit(s) \/ RunAbort(s)
    PROVE  SessionInv'
<1>1. /\ SessionTypeOK /\ Phase(s) /\ explicit \subseteq map /\ GetTransaction(txnId[s]) = txnId[s]
      /\ txnId[s] # NoTxn => txnId[s] \in Txns
  BY PhaseFacts, Zenon
<1>2. /\ step[s] = "run" /\ ctx[s] # NoTxn /\ kind[s] \in {"commit", "abort"}
      /\ UNCHANGED <<lab4, down, kind, own, reply>>
  BY Zenon DEF RunCommit, RunAbort, Proceed
<1>3. ctx[s] = txnId[s] /\ own[s] = txnId[s] /\ txnId[s] \in Txns
  BY <1>1, <1>2, Zenon DEF Phase
<1>4. CASE /\ step' = [step EXCEPT ![s] = "done"] /\ FinishTransaction(s)
           /\ IF kind[s] = "commit" THEN Commit(txnId[s]) ELSE Abort(txnId[s])
  <2>1. /\ ctx' = [ctx EXCEPT ![s] = NoTxn] /\ txnId' = [txnId EXCEPT ![s] = NoTxn]
        /\ map' \subseteq map /\ explicit' \subseteq explicit
        /\ UNCHANGED <<last, faults>>
        /\ committed' \subseteq committed \cup {txnId[s]}
        /\ aborted' \subseteq aborted \cup {txnId[s]}
    BY <1>4, Zenon DEF FinishTransaction, Commit, Abort
  <2>2. SessionTypeOK' /\ OthersKeep(s)
    BY <1>1, <1>2, <1>3, <1>4, <2>1, Zenon DEF SessionTypeOK, OthersKeep
  <2>3. step'[s] = "done" /\ ctx'[s] = NoTxn /\ txnId'[s] = NoTxn
    BY <1>1, <1>4, <2>1, Zenon DEF SessionTypeOK
  <2>4. Ended(s)'
    BY <1>2, <1>3, <1>4, Zenon DEF Ended, Commit, Abort
  <2>5. Phase(s)'
    BY <2>3, <2>4, Zenon DEF Phase
  <2>6. Commit(txnId[s]) \/ Abort(txnId[s])
    BY <1>4, Zenon
  <2> QED  BY <1>2, <1>3, <2>1, <2>2, <2>5, <2>6, EndKeeps, NoTxnAssumption, Zenon DEF Txns
<1>5. CASE /\ \E to \in {"error", "aborting"} : step' = [step EXCEPT ![s] = to]
           /\ Throws /\ ctx' = [ctx EXCEPT ![s] = txnId[s]]
           /\ UNCHANGED <<txnId, last, map, explicit, committed, aborted>>
  <2>1. PICK to \in {"error", "aborting"} : step' = [step EXCEPT ![s] = to]
    BY <1>5, Zenon
  <2>2. faults' \in 0..MaxFaults
    BY <1>5, PhaseFacts, Zenon
  <2>3. SessionTypeOK' /\ OthersKeep(s)
    BY <1>1, <1>2, <1>3, <1>5, <2>1, <2>2, Zenon DEF SessionTypeOK, OthersKeep
  <2>4. step'[s] \in {"error", "aborting"} /\ ctx'[s] = txnId[s]
    BY <1>1, <1>5, <2>1, Zenon DEF SessionTypeOK
  <2>5. Phase(s)'
    BY <1>2, <1>3, <1>5, <2>4, Zenon DEF Phase
  <2> QED  BY <1>1, <1>2, <1>5, <2>3, <2>5, QuietKeeps, Zenon
<1>6. CASE RunCommit(s)
  BY <1>1, <1>4, <1>5, <1>6, Zenon DEF RunCommit, Proceed, txnVars
<1>7. CASE RunAbort(s)
  BY <1>1, <1>4, <1>5, <1>7, Zenon DEF RunAbort, Proceed, txnVars
<1> QED  BY <1>6, <1>7, Zenon

(* AutoCommit and SendResult.                                              *)
LEMMA FinishKeeps ==
    ASSUME SessionInv, NEW s \in Sessions, AutoCommit(s) \/ SendResult(s)
    PROVE  SessionInv'
<1>1. /\ SessionTypeOK /\ Phase(s) /\ explicit \subseteq map
      /\ txnId[s] # NoTxn => txnId[s] \in Txns
  BY PhaseFacts, Zenon
<1>2. UNCHANGED <<lab4, down, kind, own>>
  BY Zenon DEF AutoCommit, SendResult, Proceed
<1>3. CASE SendResult(s)
  <2>1. PICK r \in {"ok", "error"} :
           reply' = [reply EXCEPT ![s] = r] /\ (r = "error" => kind[s] = "read")
    BY <1>3, Zenon DEF SendResult
  <2>2. /\ step' = [step EXCEPT ![s] = "replied"] /\ step[s] = "send"
        /\ UNCHANGED <<txnId, ctx, last, map, explicit, committed, aborted, faults>>
    BY <1>3, Zenon DEF SendResult, Proceed, txnVars
  <2>3. SessionTypeOK' /\ OthersKeep(s)
    BY <1>1, <1>2, <2>1, <2>2, Zenon DEF SessionTypeOK, OthersKeep
  <2>4. step'[s] = "replied" /\ reply'[s] = r
    BY <1>1, <2>1, <2>2, Zenon DEF SessionTypeOK
  <2>5. Kept(s) /\ Fits(s, "ok") /\ ctx[s] \in {NoTxn, txnId[s]}
    BY <1>1, <2>2, Zenon DEF Phase
  <2>6. Fits(s, reply[s])'
    BY <1>2, <2>1, <2>2, <2>4, <2>5, Zenon DEF Fits, Ended
  <2>7. Phase(s)'
    BY <2>2, <2>4, <2>5, <2>6, Zenon DEF Phase, Kept
  <2> QED  BY <1>1, <1>2, <2>2, <2>3, <2>7, QuietKeeps, Zenon
<1>4. ASSUME AutoCommit(s) PROVE SessionInv'
  <2>1. step[s] = "done" /\ UNCHANGED reply
    BY <1>4, Zenon DEF AutoCommit, Proceed
  <2>2. /\ ctx[s] = txnId[s]
        /\ \/ own[s] = txnId[s] /\ kind[s] # "abort"
           \/ txnId[s] = NoTxn /\ Ended(s)
    BY <1>1, <2>1, Zenon DEF Phase
  <2>3. CASE /\ ctx[s] # NoTxn /\ ctx[s] \notin explicit /\ step' = [step EXCEPT ![s] = "send"]
             /\ Commit(ctx[s]) /\ FinishTransaction(s)
    <3>1. /\ ctx' = [ctx EXCEPT ![s] = NoTxn] /\ txnId' = [txnId EXCEPT ![s] = NoTxn]
          /\ map' \subseteq map /\ explicit' \subseteq explicit
          /\ UNCHANGED <<last, aborted, faults>>
          /\ committed' = committed \cup {txnId[s]}
      BY <2>2, <2>3, Zenon DEF FinishTransaction, Commit
    <3>2. SessionTypeOK' /\ OthersKeep(s)
      BY <1>1, <1>2, <2>1, <2>2, <2>3, <3>1, Zenon DEF SessionTypeOK, OthersKeep
    <3>3. step'[s] = "send" /\ ctx'[s] = NoTxn /\ txnId'[s] = NoTxn
      BY <1>1, <2>3, <3>1, Zenon DEF SessionTypeOK
    <3>4. Fits(s, "ok")'
      BY <1>2, <2>2, <2>3, <3>1, Zenon DEF Fits, Ended
    <3>5. Phase(s)'
      BY <3>3, <3>4, Zenon DEF Phase, Kept
    <3> QED  BY <1>2, <2>2, <2>3, <3>1, <3>2, <3>5, EndKeeps, Zenon
  <2>4. CASE /\ \E to \in {"error", "aborting"} : step' = [step EXCEPT ![s] = to]
             /\ ctx[s] # NoTxn /\ Throws
             /\ UNCHANGED <<txnId, ctx, last, map, explicit, committed, aborted>>
    <3>1. PICK to \in {"error", "aborting"} : step' = [step EXCEPT ![s] = to]
      BY <2>4, Zenon
    <3>2. faults' \in 0..MaxFaults
      BY <2>4, PhaseFacts, Zenon
    <3>3. SessionTypeOK' /\ OthersKeep(s)
      BY <1>1, <1>2, <2>1, <2>4, <3>1, <3>2, Zenon DEF SessionTypeOK, OthersKeep
    <3>4. step'[s] \in {"error", "aborting"}
      BY <1>1, <3>1, Zenon DEF SessionTypeOK
    <3>5. Phase(s)'
      BY <1>2, <2>1, <2>2, <2>4, <3>4, Zenon DEF Phase
    <3> QED  BY <1>1, <1>2, <2>4, <3>3, <3>5, QuietKeeps, Zenon
  <2>5. CASE /\ ctx[s] = NoTxn \/ ctx[s] \in explicit
             /\ step' = [step EXCEPT ![s] = "send"]
             /\ UNCHANGED <<txnId, ctx, last, map, explicit, committed, aborted, faults>>
    <3>1. SessionTypeOK' /\ OthersKeep(s)
      BY <1>1, <1>2, <2>1, <2>5, Zenon DEF SessionTypeOK, OthersKeep
    <3>2. step'[s] = "send"
      BY <1>1, <2>5, Zenon DEF SessionTypeOK
    <3>3. Fits(s, "ok")' /\ Kept(s)'
      BY <1>2, <2>2, <2>5, Zenon DEF Fits, Ended, Kept
    <3>4. Phase(s)'
      BY <2>2, <2>5, <3>2, <3>3, Zenon DEF Phase
    <3> QED  BY <1>1, <1>2, <2>5, <3>1, <3>4, QuietKeeps, Zenon
  <2> QED
    BY <1>4, <2>3, <2>4, <2>5, Zenon DEF AutoCommit, Proceed, txnVars
<1> QED  BY <1>3, <1>4, Zenon

(* An exception out of a handler changes nothing but down.                 *)
LEMMA TerminateKeeps ==
    ASSUME SessionInv, NEW s \in Sessions, NEW from, Terminate(s, from)
    PROVE  SessionInv'
<1>1. SessionTypeOK /\ Phase(s) /\ explicit \subseteq map /\ faults' \in 0..MaxFaults
  BY PhaseFacts, Zenon DEF Terminate
<1>2. /\ down' = TRUE /\ UNCHANGED <<lab4, step, kind, txnId, ctx, own, reply>>
      /\ UNCHANGED <<last, map, explicit, committed, aborted>>
  BY Zenon DEF Terminate, sessVars, txnVars
<1>3. SessionTypeOK' /\ OthersKeep(s)
  BY <1>1, <1>2, Zenon DEF SessionTypeOK, OthersKeep
<1>4. Phase(s)'
  BY <1>1, <1>2, ZenonT(30) DEF Phase, Kept, Fits, Ended
<1> QED  BY <1>1, <1>2, <1>3, <1>4, QuietKeeps, Zenon

(* CatchAbort, CatchError and AbortSessionTxn: the transaction is aborted,    *)
(* or there is none to abort, or abort throws.                             *)
LEMMA CatchKeeps ==
    ASSUME SessionInv, NEW s \in Sessions, CatchAbort(s) \/ CatchError(s) \/ AbortSessionTxn(s)
    PROVE  SessionInv'
<1>1. /\ SessionTypeOK /\ Phase(s) /\ explicit \subseteq map /\ GetTransaction(txnId[s]) = txnId[s]
      /\ txnId[s] # NoTxn => txnId[s] \in Txns
  BY PhaseFacts, Zenon
<1>2. /\ step[s] \in {"aborting", "error"} => ctx[s] = txnId[s] /\ own[s] = txnId[s]
      /\ step[s] = "closing" => ctx[s] = NoTxn
  BY <1>1, Zenon DEF Phase
<1>3. ASSUME NEW r \in {"abort", "error"}, step[s] \in {"aborting", "error"},
             step' = [step EXCEPT ![s] = "replied"], reply' = [reply EXCEPT ![s] = r],
             UNCHANGED <<lab4, down, kind, own>>, txnId[s] # NoTxn,
             Abort(txnId[s]), FinishTransaction(s)
      PROVE  SessionInv'
  <2>1. /\ ctx' = [ctx EXCEPT ![s] = NoTxn] /\ txnId' = [txnId EXCEPT ![s] = NoTxn]
        /\ map' \subseteq map /\ explicit' \subseteq explicit
        /\ UNCHANGED <<last, committed, faults>>
        /\ aborted' = aborted \cup {txnId[s]}
    BY <1>3, Zenon DEF FinishTransaction, Abort
  <2>2. SessionTypeOK' /\ OthersKeep(s)
    BY <1>1, <1>3, <2>1, Zenon DEF SessionTypeOK, OthersKeep
  <2>3. step'[s] = "replied" /\ reply'[s] = r /\ ctx'[s] = NoTxn /\ txnId'[s] = NoTxn
    BY <1>1, <1>3, <2>1, Zenon DEF SessionTypeOK
  <2>4. Fits(s, reply[s])'
    BY <1>2, <1>3, <2>1, <2>3, Zenon DEF Fits
  <2>5. Phase(s)'
    BY <2>3, <2>4, Zenon DEF Phase, Kept
  <2> QED  BY <1>3, <2>1, <2>2, <2>5, EndKeeps, Zenon
<1>4. ASSUME NEW r \in {"abort", "error"}, step[s] \in {"aborting", "error"},
             step' = [step EXCEPT ![s] = "replied"], reply' = [reply EXCEPT ![s] = r],
             txnId[s] = NoTxn \/ (txnId[s] \in explicit /\ r = "error"),
             UNCHANGED <<lab4, down, kind, own, txnId, ctx>>,
             UNCHANGED <<last, map, explicit, committed, aborted, faults>>
      PROVE  SessionInv'
  <2>1. SessionTypeOK' /\ OthersKeep(s)
    BY <1>1, <1>4, Zenon DEF SessionTypeOK, OthersKeep
  <2>2. step'[s] = "replied" /\ reply'[s] = r
    BY <1>1, <1>4, Zenon DEF SessionTypeOK
  <2>3. Fits(s, reply[s])' /\ Kept(s)'
    BY <1>2, <1>4, <2>2, Zenon DEF Fits, Kept
  <2>4. Phase(s)'
    BY <1>2, <1>4, <2>2, <2>3, Zenon DEF Phase
  <2> QED  BY <1>1, <1>4, <2>1, <2>4, QuietKeeps, Zenon
<1>5. CASE CatchAbort(s)
  <2>2. CASE ~Terminate(s, "aborting") /\ ctx[s] # NoTxn
    <3>1. step[s] = "aborting"
      BY <1>5, <2>2, Zenon DEF CatchAbort, Proceed
    <3> QED  BY <1>2, <1>3, <1>5, <2>2, <3>1, Zenon DEF CatchAbort, Proceed
  <2>3. CASE ~Terminate(s, "aborting") /\ ctx[s] = NoTxn
    <3>1. step[s] = "aborting"
      BY <1>5, <2>3, Zenon DEF CatchAbort, Proceed
    <3> QED  BY <1>2, <1>4, <1>5, <2>3, <3>1, Zenon DEF CatchAbort, Proceed, txnVars
  <2>4. CASE Terminate(s, "aborting")
    BY <2>4, TerminateKeeps, Zenon
  <2> QED  BY <2>2, <2>3, <2>4, Zenon
<1>6. CASE CatchError(s)
  <2>1. CASE Terminate(s, "error")
    BY <2>1, TerminateKeeps, Zenon
  <2>2. CASE ~Terminate(s, "error")
    <3>1. /\ step[s] = "error" /\ step' = [step EXCEPT ![s] = "replied"]
          /\ reply' = [reply EXCEPT ![s] = "error"]
          /\ UNCHANGED <<lab4, down, kind, own>>
      BY <1>6, <2>2, Zenon DEF CatchError, Proceed
    <3>2. (IF ctx[s] # NoTxn THEN ctx[s] ELSE GetTransaction(txnId[s])) = txnId[s]
      BY <1>1, <1>2, <3>1, Zenon
    <3>3. CASE txnId[s] = NoTxn \/ txnId[s] \in explicit
      BY <1>4, <1>6, <2>2, <3>1, <3>2, <3>3, Zenon DEF CatchError, txnVars
    <3>4. CASE ~(txnId[s] = NoTxn \/ txnId[s] \in explicit)
      <4>1. ctx[s] # NoTxn /\ ctx[s] \notin explicit
        BY <1>2, <3>1, <3>4, Zenon
      <4>2. Abort(ctx[s]) /\ FinishTransaction(s)
        BY <1>6, <2>2, <4>1, Zenon DEF CatchError
      <4>3. Abort(txnId[s])
        BY <1>2, <3>1, <4>2, Zenon DEF Abort
      <4> QED  BY <1>3, <3>1, <3>4, <4>2, <4>3, Zenon
    <3> QED  BY <3>3, <3>4, Zenon
  <2> QED  BY <2>1, <2>2, Zenon
<1>7. CASE AbortSessionTxn(s)
  <2>1. CASE Terminate(s, "closing")
    BY <2>1, TerminateKeeps, Zenon
  <2>2. CASE ~Terminate(s, "closing")
    <3>1. /\ step[s] = "closing" /\ step' = [step EXCEPT ![s] = "gone"]
          /\ txnId' = [txnId EXCEPT ![s] = NoTxn] /\ UNCHANGED <<lab4, down, kind, ctx, own, reply>>
      BY <1>7, <2>2, Zenon DEF AbortSessionTxn, Proceed
    <3>2. IF txnId[s] = NoTxn THEN UNCHANGED <<last, map, explicit, committed, aborted, faults>>
          ELSE Abort(txnId[s])
      BY <1>1, <1>7, <2>2, Zenon DEF AbortSessionTxn, txnVars
    <3>3. /\ map' \subseteq map /\ explicit' \subseteq explicit
          /\ UNCHANGED <<last, committed, faults>>
          /\ aborted' \subseteq aborted \cup ({txnId[s]} \ {NoTxn})
      BY <3>2, Zenon DEF Abort
    <3>4. SessionTypeOK' /\ OthersKeep(s)
      BY <1>1, <3>1, <3>3, Zenon DEF SessionTypeOK, OthersKeep
    <3>5. step'[s] = "gone" /\ txnId'[s] = NoTxn /\ ctx'[s] = NoTxn
      BY <1>1, <1>2, <3>1, Zenon DEF SessionTypeOK
    <3>6. Phase(s)'
      BY <3>5, Zenon DEF Phase
    <3>7. CASE txnId[s] = NoTxn
      <4>1. txnId' = txnId
        BY <1>1, <3>1, <3>7, Zenon DEF SessionTypeOK
      <4> QED  BY <1>1, <3>1, <3>2, <3>4, <3>6, <3>7, <4>1, QuietKeeps, Zenon
    <3>8. CASE txnId[s] # NoTxn
      BY <3>1, <3>2, <3>4, <3>6, <3>8, EndKeeps, Zenon
    <3> QED  BY <3>7, <3>8, Zenon
  <2> QED  BY <2>1, <2>2, Zenon
<1> QED  BY <1>5, <1>6, <1>7, Zenon

-----------------------------------------------------------------------------
(* The invariant holds at the start and is kept by every step of any       *)
(* session.                                                                *)
THEOREM SessionInvariant == SessionSpec => []SessionInv
<1>1. SessionInit => SessionInv
  <2> SUFFICES ASSUME SessionInit PROVE SessionInv
    BY Zenon
  <2>1. SessionTypeOK
    <3>1. 0 \in 0..MaxTxns /\ 0 \in 0..MaxFaults
      BY SessionBounds
    <3>2. "read" \in Kinds
      BY Zenon DEF Kinds
    <3> QED  BY <3>1, <3>2, Zenon DEF SessionInit, SessionTypeOK
  <2>2. TxnOwnership
    BY Zenon DEF SessionInit, TxnOwnership
  <2>3. \A s \in Sessions : Phase(s)
    BY Zenon DEF SessionInit, Phase, Kept
  <2> QED  BY <2>1, <2>2, <2>3, Zenon DEF SessionInv
<1>2. SessionInv /\ [SessionNext]_sessionVars => SessionInv'
  <2> SUFFICES ASSUME SessionInv, [SessionNext]_sessionVars PROVE SessionInv'
    BY Zenon
  <2>1. CASE UNCHANGED sessionVars
    <3>1. SessionTypeOK' /\ TxnOwnership'
      BY <2>1, Zenon DEF SessionInv, SessionTypeOK, TxnOwnership, sessionVars
    <3>2. ASSUME NEW s \in Sessions PROVE Phase(s)'
      <4>1. Phase(s)
        BY Zenon DEF SessionInv
      <4>2. /\ UNCHANGED <<step, kind, txnId, ctx, own, reply>>
            /\ UNCHANGED <<explicit, committed, aborted>>
        BY <2>1, Zenon DEF sessionVars
      <4>3. (Kept(s) => Kept(s)') /\ (Ended(s) => Ended(s)')
        BY <4>2, Zenon DEF Kept, Ended
      <4>4. ASSUME NEW x PROVE Fits(s, x) => Fits(s, x)'
        BY <4>2, <4>3, Zenon DEF Fits
      <4>5. Fits(s, reply[s]) => Fits(s, reply[s])'
        BY <4>2, <4>4, Zenon
      <4>6. Fits(s, "ok") => Fits(s, "ok")'
        BY <4>4, Zenon
      <4> QED  BY <4>1, <4>2, <4>3, <4>5, <4>6, Zenon DEF Phase
    <3> QED  BY <3>1, <3>2, Zenon DEF SessionInv
  <2>2. CASE SessionNext
    <3>1. PICK s \in Sessions :
             \/ \E k \in Kinds : StartStatement(s, k)
             \/ RejectRequest(s) \/ StatementFails(s) \/ RunStatement(s)
             \/ RunBegin(s) \/ RunCommit(s) \/ RunAbort(s)
             \/ AutoCommit(s) \/ SendResult(s) \/ CatchAbort(s) \/ CatchError(s)
             \/ Replied(s) \/ ReadFails(s) \/ AbortSessionTxn(s)
      BY <2>2, Zenon DEF SessionNext
    <3> QED
      BY <3>1, StartKeeps, BetweenKeeps, RunKeeps, CommandKeeps, FinishKeeps, CatchKeeps, Zenon
  <2> QED  BY <2>1, <2>2, Zenon
<1> QED  BY <1>1, <1>2, PTL DEF SessionSpec

(* Types of the session state, for any number of sessions.                 *)
THEOREM SessionTypeCorrect == SessionSpec => []SessionTypeOK
<1>1. SessionInv => SessionTypeOK
  BY Zenon DEF SessionInv
<1> QED  BY <1>1, SessionInvariant, PTL

(* Every live transaction has one session whose thread will end it, and    *)
(* between two requests only explicit transactions are left.               *)
THEOREM TransactionsAlwaysOwned == SessionSpec => []EveryTransactionOwned
<1>1. SessionInv => EveryTransactionOwned
  <2> SUFFICES ASSUME SessionInv PROVE EveryTransactionOwned
    BY Zenon
  <2>1. \A t \in map : \E s \in Sessions : txnId[s] = t /\ step[s] # "gone"
    <3> TAKE t \in map
    <3>1. PICK s \in Sessions : txnId[s] = t
      BY Zenon DEF SessionInv, TxnOwnership
    <3>2. t # NoTxn
      BY NoTxnAssumption, Zenon DEF SessionInv, SessionTypeOK, Txns
    <3> QED  BY <3>1, <3>2, Zenon DEF SessionInv, Phase
  <2>2. \A s \in Sessions : step[s] = "idle" => txnId[s] = NoTxn \/ txnId[s] \in explicit
    BY Zenon DEF SessionInv, Phase, Kept
  <2> QED  BY <2>1, <2>2, Zenon DEF SessionInv, TxnOwnership, EveryTransactionOwned
<1> QED  BY <1>1, SessionInvariant, PTL

(* No Context keeps a pointer to a transaction that is gone.               *)
THEOREM ContextsNeverDangle == SessionSpec => []ContextNeverDangles
<1>1. SessionInv => ContextNeverDangles
  BY Zenon DEF SessionInv, TxnOwnership, Phase, ContextNeverDangles
<1> QED  BY <1>1, SessionInvariant, PTL

(* The client is told what happened to the transaction of its statement.   *)
THEOREM RepliesAlwaysTellOutcome == SessionSpec => []RepliesTellOutcome
<1>1. SessionInv => RepliesTellOutcome
  <2> SUFFICES ASSUME SessionInv, NEW s \in Sessions, step[s] = "replied", own[s] # NoTxn
      PROVE  CASE reply[s] = "abort" -> own[s] \in aborted
               [] reply[s] = "error" -> \/ own[s] \in aborted \/ own[s] \in explicit
                                        \/ kind[s] = "read"
               [] reply[s] = "ok"    -> \/ own[s] \in explicit
                                        \/ own[s] \in IF kind[s] = "abort" THEN aborted ELSE committed
    BY Zenon DEF RepliesTellOutcome
  <2>1. Fits(s, reply[s]) /\ reply[s] \in {"ok", "error", "abort"}
    BY Zenon DEF SessionInv, Phase, SessionTypeOK
  <2> QED  BY <2>1, Zenon DEF Fits, Ended
<1> QED  BY <1>1, SessionInvariant, PTL
=============================================================================
