------------------------------- MODULE Server -------------------------------
(***************************************************************************)
(* Life cycle of the RUCBase server process (server/server.cpp).           *)
(*                                                                         *)
(* One main thread boots the database, accepts connections and, on SIGINT, *)
(* stops the client threads before it closes the database.  Every accepted *)
(* connection gets a thread of its own.  The threads share the registry    *)
(* client_fds_, guarded by clients_mutex_, and the process-wide table of   *)
(* file descriptors, whose numbers the kernel reuses as soon as they are   *)
(* closed.                                                                 *)
(*                                                                         *)
(* The registry is a set: the code's vector is only ever appended to,      *)
(* iterated with an idempotent shutdown(), and std::erase'd of all equal   *)
(* elements, so neither order nor multiplicity is observable.              *)
(***************************************************************************)
EXTENDS Integers

CONSTANTS Conns,    \* connections that peers may open
          Fds,      \* descriptor numbers the process may use
          NoConn    \* main thread has no accepted connection in its hands

ASSUME ConnsAssumption ==
    /\ NoConn \notin Conns
    /\ "free" \notin Conns /\ "listener" \notin Conns /\ "file" \notin Conns
    /\ "none" \notin Conns

ASSUME FdsAssumption == Fds \subseteq Nat

NoFd == -1

VARIABLES
    pc,             \* main thread: where run()/serve()/stop_clients() stands
    stopRequested,  \* stop_requested
    listeningFd,    \* listening_fd
    arg,            \* descriptor main loaded for its next system call
    cur,            \* connection whose descriptor is main's local client_fd
    databaseOpen,   \* run()'s local database_open
    mutex,          \* holder of clients_mutex_
    clientFds,      \* client_fds_
    fdTable,        \* kernel: what each descriptor number refers to
    thread,         \* per connection: where handle_client() stands
    sockFd,         \* per connection: its descriptor number in this process
    shut,           \* per connection: shutdown(SHUT_RDWR) was applied
    peerClosed,     \* per connection: the peer has gone away
    inbox           \* per connection: received bytes wait to be read

mainVars == <<stopRequested, listeningFd, arg, cur, databaseOpen>>
sockVars == <<sockFd, shut, peerClosed, inbox>>
vars == <<pc, stopRequested, listeningFd, arg, cur, databaseOpen, mutex,
          clientFds, fdTable, thread, sockFd, shut, peerClosed, inbox>>

MainPCs == {"boot", "recover", "listen", "assign", "loop", "load", "accept",
            "configure", "register", "spawn", "reject", "endcheck", "endload",
            "endclose", "endclear", "stop", "join", "flush", "closedb", "done"}

ThreadPCs == {"none", "pending", "accepted", "handshake", "read", "exec",
              "send", "abort", "lock", "close", "erase", "exited"}

FreeFds == {f \in Fds : fdTable[f] = "free"}

(* POSIX: a new descriptor gets the lowest number that is free.            *)
IsNewFd(f) == f \in FreeFds /\ \A g \in FreeFds : f <= g

(* Connections whose thread has been started and has not returned.         *)
Running == {c \in Conns : thread[c] \in {"handshake", "read", "exec", "send",
                                         "abort", "lock", "close", "erase"}}

-----------------------------------------------------------------------------
(* std::signal has installed handle_interrupt; no database is open yet.    *)
Init ==
    /\ pc = "boot"
    /\ stopRequested = FALSE
    /\ listeningFd = NoFd
    /\ arg = NoFd
    /\ cur = NoConn
    /\ databaseOpen = FALSE
    /\ mutex = "none"
    /\ clientFds = {}
    /\ fdTable = [f \in Fds |-> "free"]
    /\ thread = [c \in Conns |-> "none"]
    /\ sockFd = [c \in Conns |-> NoFd]
    /\ shut = [c \in Conns |-> FALSE]
    /\ peerClosed = [c \in Conns |-> FALSE]
    /\ inbox = [c \in Conns |-> FALSE]

-----------------------------------------------------------------------------
(* Environment: peers and the terminal.                                    *)

Connect(c) ==
    /\ thread[c] = "none"
    /\ \E f \in Fds : fdTable[f] = "listener"
    /\ thread' = [thread EXCEPT ![c] = "pending"]
    /\ UNCHANGED <<pc, mainVars, mutex, clientFds, fdTable, sockVars>>

PeerSend(c) ==
    /\ thread[c] \notin {"none", "exited"}
    /\ ~peerClosed[c]
    /\ ~inbox[c]
    /\ inbox' = [inbox EXCEPT ![c] = TRUE]
    /\ UNCHANGED <<pc, mainVars, mutex, clientFds, fdTable, thread, sockFd,
                   shut, peerClosed>>

PeerClose(c) ==
    /\ thread[c] \notin {"none", "exited"}
    /\ ~peerClosed[c]
    /\ peerClosed' = [peerClosed EXCEPT ![c] = TRUE]
    /\ UNCHANGED <<pc, mainVars, mutex, clientFds, fdTable, thread, sockFd,
                   shut, inbox>>

(* Mutant: the handler leaves the listening socket to the main thread.     *)
HandlerKeepsSocket ==
    /\ pc # "done"
    /\ stopRequested' = TRUE
    /\ UNCHANGED <<pc, listeningFd, arg, cur, databaseOpen, mutex, clientFds,
                   fdTable, thread, sockVars>>

(* SIGINT: the kernel delivers it to the main thread, between any two of   *)
(* its steps, so the handler is atomic with respect to that thread.        *)
HandleInterrupt ==
    /\ pc # "done"
    /\ stopRequested' = TRUE
    /\ listeningFd' = NoFd
    /\ fdTable' = IF listeningFd # NoFd
                  THEN [fdTable EXCEPT ![listeningFd] = "free"]
                  ELSE fdTable
    /\ UNCHANGED <<pc, arg, cur, databaseOpen, mutex, clientFds, thread,
                   sockVars>>

-----------------------------------------------------------------------------
(* Main thread: run() and serve().                                         *)

Goto(from, to) == pc = from /\ pc' = to

(* create_db when the directory is missing, then open_db; either may throw,*)
(* and run() then goes straight to stop_clients().                         *)
OpenDatabase ==
    /\ \/ Goto("boot", "recover") /\ databaseOpen' = TRUE
       \/ Goto("boot", "stop") /\ UNCHANGED databaseOpen
    /\ UNCHANGED <<stopRequested, listeningFd, arg, cur, mutex, clientFds,
                   fdTable, thread, sockVars>>

(* analyze(), redo(), undo(): complete, or throw.                          *)
Recover ==
    /\ Goto("recover", "listen") \/ Goto("recover", "stop")
    /\ UNCHANGED <<mainVars, mutex, clientFds, fdTable, thread, sockVars>>

(* create_listening_socket(): the descriptor exists before it is stored in *)
(* listening_fd, where the handler could see it.                           *)
CreateListeningSocket ==
    /\ Goto("listen", "assign")
    /\ \E f \in Fds :
          /\ IsNewFd(f)
          /\ fdTable' = [fdTable EXCEPT ![f] = "listener"]
          /\ arg' = f
    /\ UNCHANGED <<stopRequested, listeningFd, cur, databaseOpen, mutex,
                   clientFds, thread, sockVars>>

(* socket(), bind() or listen() failed; the descriptor is closed again.    *)
ListenFails ==
    /\ Goto("listen", "stop")
    /\ UNCHANGED <<mainVars, mutex, clientFds, fdTable, thread, sockVars>>

AssignListeningFd ==
    /\ Goto("assign", "loop")
    /\ listeningFd' = arg
    /\ UNCHANGED <<stopRequested, arg, cur, databaseOpen, mutex, clientFds,
                   fdTable, thread, sockVars>>

(* while (!stop_requested)                                                 *)
LoopTest ==
    /\ pc = "loop"
    /\ pc' = IF stopRequested THEN "endcheck" ELSE "load"
    /\ UNCHANGED <<mainVars, mutex, clientFds, fdTable, thread, sockVars>>

(* The volatile read of listening_fd that feeds accept().                  *)
LoadListeningFd ==
    /\ Goto("load", "accept")
    /\ arg' = listeningFd
    /\ UNCHANGED <<stopRequested, listeningFd, cur, databaseOpen, mutex,
                   clientFds, fdTable, thread, sockVars>>

IsListener(f) == f \in Fds /\ fdTable[f] = "listener"

(* accept() reuses a number as soon as it is free.                         *)
AcceptConnection(c) ==
    /\ Goto("accept", "configure")
    /\ IsListener(arg)
    /\ thread[c] = "pending"
    /\ \E f \in Fds :
          /\ IsNewFd(f)
          /\ fdTable' = [fdTable EXCEPT ![f] = c]
          /\ sockFd' = [sockFd EXCEPT ![c] = f]
    /\ thread' = [thread EXCEPT ![c] = "accepted"]
    /\ cur' = c
    /\ UNCHANGED <<stopRequested, listeningFd, arg, databaseOpen, mutex,
                   clientFds, shut, peerClosed, inbox>>

(* accept() < 0: leave the loop when a stop was requested, else try again. *)
AcceptReturnsError ==
    /\ pc = "accept"
    /\ pc' = IF stopRequested THEN "endcheck" ELSE "loop"
    /\ UNCHANGED <<mainVars, mutex, clientFds, fdTable, thread, sockVars>>

(* EBADF: the handler closed the socket (SA_RESTART re-issues the call).   *)
AcceptOnClosedSocket == ~IsListener(arg) /\ AcceptReturnsError

(* EMFILE, ECONNABORTED, ...: the socket is fine, this call failed.        *)
AcceptTransientError == IsListener(arg) /\ AcceptReturnsError

ConfigureConnection ==
    /\ Goto("configure", "register")
    /\ UNCHANGED <<mainVars, mutex, clientFds, fdTable, thread, sockVars>>

(* Mutant: the refused connection is not closed.                           *)
ConfigureFailsKeepsFd ==
    /\ Goto("configure", "loop")
    /\ thread' = [thread EXCEPT ![cur] = "exited"]
    /\ cur' = NoConn
    /\ UNCHANGED <<stopRequested, listeningFd, arg, databaseOpen, mutex,
                   clientFds, fdTable, sockVars>>

(* ConfigureConnectedSocket failed: close(client_fd) and continue.         *)
ConfigureFails ==
    /\ Goto("configure", "loop")
    /\ fdTable' = [fdTable EXCEPT ![sockFd[cur]] = "free"]
    /\ thread' = [thread EXCEPT ![cur] = "exited"]
    /\ cur' = NoConn
    /\ UNCHANGED <<stopRequested, listeningFd, arg, databaseOpen, mutex,
                   clientFds, sockVars>>

(* Mutant: client_fds_ is changed without clients_mutex_.                  *)
RegisterUnlocked ==
    /\ Goto("register", "spawn")
    /\ clientFds' = clientFds \cup {sockFd[cur]}
    /\ UNCHANGED <<mainVars, mutex, fdTable, thread, sockVars>>

(* client_fds_.push_back under clients_mutex_, before the thread starts.   *)
RegisterConnection ==
    /\ Goto("register", "spawn")
    /\ mutex = "none"
    /\ clientFds' = clientFds \cup {sockFd[cur]}
    /\ UNCHANGED <<mainVars, mutex, fdTable, thread, sockVars>>

SpawnThread ==
    /\ Goto("spawn", "loop")
    /\ thread' = [thread EXCEPT ![cur] = "handshake"]
    /\ cur' = NoConn
    /\ UNCHANGED <<stopRequested, listeningFd, arg, databaseOpen, mutex,
                   clientFds, fdTable, sockVars>>

(* emplace_back threw: main runs close_client(client_fd) itself and waits  *)
(* in it; its steps are the CloseClient steps of the connection.           *)
SpawnFails ==
    /\ Goto("spawn", "reject")
    /\ thread' = [thread EXCEPT ![cur] = "lock"]
    /\ UNCHANGED <<mainVars, mutex, clientFds, fdTable, sockVars>>

RejectDone ==
    /\ Goto("reject", "loop")
    /\ thread[cur] = "exited"
    /\ cur' = NoConn
    /\ UNCHANGED <<stopRequested, listeningFd, arg, databaseOpen, mutex,
                   clientFds, fdTable, thread, sockVars>>

(* Tail of serve(): if (listening_fd >= 0) { close(listening_fd); ... }    *)
EndCheck ==
    /\ pc = "endcheck"
    /\ pc' = IF listeningFd # NoFd THEN "endload" ELSE "stop"
    /\ UNCHANGED <<mainVars, mutex, clientFds, fdTable, thread, sockVars>>

EndLoad ==
    /\ Goto("endload", "endclose")
    /\ arg' = listeningFd
    /\ UNCHANGED <<stopRequested, listeningFd, cur, databaseOpen, mutex,
                   clientFds, fdTable, thread, sockVars>>

EndClose ==
    /\ Goto("endclose", "endclear")
    /\ fdTable' = IF arg \in Fds THEN [fdTable EXCEPT ![arg] = "free"]
                                 ELSE fdTable
    /\ UNCHANGED <<mainVars, mutex, clientFds, thread, sockVars>>

EndClear ==
    /\ Goto("endclear", "stop")
    /\ listeningFd' = NoFd
    /\ UNCHANGED <<stopRequested, arg, cur, databaseOpen, mutex, clientFds,
                   fdTable, thread, sockVars>>

-----------------------------------------------------------------------------
(* Main thread: stop_clients() and the end of run().                       *)

(* shutdown() every registered descriptor under clients_mutex_.  It acts on*)
(* whatever socket the number refers to at that moment.                    *)
ShutdownClients ==
    /\ Goto("stop", "join")
    /\ mutex = "none"
    /\ shut' = [c \in Conns |-> shut[c] \/ \E f \in clientFds : fdTable[f] = c]
    /\ UNCHANGED <<mainVars, mutex, clientFds, fdTable, thread, sockFd,
                   peerClosed, inbox>>

(* Mutant: stop_clients() returns without join().                          *)
JoinNobody ==
    /\ pc = "join"
    /\ pc' = IF databaseOpen THEN "flush" ELSE "done"
    /\ UNCHANGED <<mainVars, mutex, clientFds, fdTable, thread, sockVars>>

(* join() every thread that was started, outside the mutex.                *)
JoinClients ==
    /\ pc = "join"
    /\ Running = {}
    /\ pc' = IF databaseOpen THEN "flush" ELSE "done"
    /\ UNCHANGED <<mainVars, mutex, clientFds, fdTable, thread, sockVars>>

(* flush_log_to_disk(); an exception is reported and close_db still runs.  *)
FlushLog ==
    /\ Goto("flush", "closedb")
    /\ UNCHANGED <<mainVars, mutex, clientFds, fdTable, thread, sockVars>>

(* close_db() closes the table and index files, or throws.                 *)
CloseDb ==
    /\ Goto("closedb", "done")
    /\ \/ fdTable' = [f \in Fds |-> IF fdTable[f] = "file" THEN "free"
                                                          ELSE fdTable[f]]
       \/ UNCHANGED fdTable
    /\ UNCHANGED <<mainVars, mutex, clientFds, thread, sockVars>>

-----------------------------------------------------------------------------
(* Client thread: handle_client().                                         *)

(* ReadAndCheckHandshake: version mismatch or a failed echo ends the       *)
(* session; after shutdown() the echo always fails.                        *)
Handshake(c) ==
    /\ thread[c] = "handshake"
    /\ inbox[c]
    /\ inbox' = [inbox EXCEPT ![c] = FALSE]
    /\ \/ ~shut[c] /\ thread' = [thread EXCEPT ![c] = "read"]
       \/ thread' = [thread EXCEPT ![c] = "abort"]
    /\ UNCHANGED <<pc, mainVars, mutex, clientFds, fdTable, sockFd, shut,
                   peerClosed>>

(* ReadFrame delivers buffered bytes even after shutdown(); a malformed    *)
(* header ends the session.                                                *)
ReadRequest(c) ==
    /\ thread[c] = "read"
    /\ inbox[c]
    /\ inbox' = [inbox EXCEPT ![c] = FALSE]
    /\ \/ thread' = [thread EXCEPT ![c] = "exec"]
       \/ thread' = [thread EXCEPT ![c] = "abort"]
    /\ UNCHANGED <<pc, mainVars, mutex, clientFds, fdTable, sockFd, shut,
                   peerClosed>>

ReadReturnsNothing(c) ==
    /\ thread[c] \in {"handshake", "read"}
    /\ ~inbox[c]
    /\ thread' = [thread EXCEPT ![c] = "abort"]
    /\ UNCHANGED <<pc, mainVars, mutex, clientFds, fdTable, sockVars>>

(* recv() returns 0 once the peer or this process shut the socket down.    *)
ReadEof(c) == (shut[c] \/ peerClosed[c]) /\ ReadReturnsNothing(c)

(* SO_RCVTIMEO expired on a healthy connection.                            *)
ReadTimeout(c) == ~(shut[c] \/ peerClosed[c]) /\ ReadReturnsNothing(c)

(* execute_sql() up to its response; DDL may leave a table file open.      *)
ExecuteSql(c) ==
    /\ thread[c] = "exec"
    /\ thread' = [thread EXCEPT ![c] = "send"]
    /\ \/ UNCHANGED fdTable
       \/ \E f \in Fds : IsNewFd(f) /\ fdTable' = [fdTable EXCEPT ![f] = "file"]
    /\ UNCHANGED <<pc, mainVars, mutex, clientFds, sockVars>>

(* handle_request() returned true: wait for the next frame.                *)
SendResponse(c) ==
    /\ thread[c] = "send"
    /\ ~shut[c]
    /\ thread' = [thread EXCEPT ![c] = "read"]
    /\ UNCHANGED <<pc, mainVars, mutex, clientFds, fdTable, sockVars>>

SendReturnsFalse(c) ==
    /\ thread[c] = "send"
    /\ thread' = [thread EXCEPT ![c] = "abort"]
    /\ UNCHANGED <<pc, mainVars, mutex, clientFds, fdTable, sockVars>>

(* sendmsg() fails on a socket that is shut down, even if it was blocked.  *)
SendOnDeadSocket(c) == (shut[c] \/ peerClosed[c]) /\ SendReturnsFalse(c)

(* SO_SNDTIMEO, or a row that cannot be encoded, on a healthy connection.  *)
SendGivesUp(c) == ~(shut[c] \/ peerClosed[c]) /\ SendReturnsFalse(c)

(* abort_session_transaction()                                             *)
AbortSession(c) ==
    /\ thread[c] = "abort"
    /\ thread' = [thread EXCEPT ![c] = "lock"]
    /\ UNCHANGED <<pc, mainVars, mutex, clientFds, fdTable, sockVars>>

(* close_client(): lock, close(fd), erase from the registry, unlock.       *)
CloseClientLock(c) ==
    /\ thread[c] = "lock"
    /\ mutex = "none"
    /\ mutex' = c
    /\ thread' = [thread EXCEPT ![c] = "close"]
    /\ UNCHANGED <<pc, mainVars, clientFds, fdTable, sockVars>>

(* Mutant: close() runs again although the number may be reused by now.    *)
CloseTwice(c) ==
    /\ thread[c] = "close" \/ (thread[c] = "erase" /\ fdTable[sockFd[c]] # "free")
    /\ fdTable' = [fdTable EXCEPT ![sockFd[c]] = "free"]
    /\ thread' = [thread EXCEPT ![c] = "erase"]
    /\ UNCHANGED <<pc, mainVars, mutex, clientFds, sockVars>>

CloseClientClose(c) ==
    /\ thread[c] = "close"
    /\ fdTable' = [fdTable EXCEPT ![sockFd[c]] = "free"]
    /\ thread' = [thread EXCEPT ![c] = "erase"]
    /\ UNCHANGED <<pc, mainVars, mutex, clientFds, sockVars>>

(* Mutant: the closed descriptor stays in the registry.                    *)
EraseSkipped(c) ==
    /\ thread[c] = "erase"
    /\ mutex' = "none"
    /\ thread' = [thread EXCEPT ![c] = "exited"]
    /\ UNCHANGED <<pc, mainVars, clientFds, fdTable, sockVars>>

CloseClientErase(c) ==
    /\ thread[c] = "erase"
    /\ clientFds' = clientFds \ {sockFd[c]}
    /\ mutex' = "none"
    /\ thread' = [thread EXCEPT ![c] = "exited"]
    /\ UNCHANGED <<pc, mainVars, fdTable, sockVars>>

-----------------------------------------------------------------------------
MainStep ==
    \/ OpenDatabase \/ Recover \/ CreateListeningSocket \/ ListenFails
    \/ AssignListeningFd \/ LoopTest \/ LoadListeningFd
    \/ \E c \in Conns : AcceptConnection(c)
    \/ AcceptOnClosedSocket
    \/ ConfigureConnection \/ ConfigureFails \/ RegisterConnection
    \/ SpawnThread \/ SpawnFails \/ RejectDone
    \/ EndCheck \/ EndLoad \/ EndClose \/ EndClear
    \/ ShutdownClients \/ JoinClients \/ FlushLog \/ CloseDb

(* What a scheduled client thread does by itself.                          *)
ThreadStep(c) ==
    \/ Handshake(c) \/ ReadRequest(c) \/ ReadEof(c) \/ ExecuteSql(c)
    \/ SendOnDeadSocket(c) \/ AbortSession(c)
    \/ CloseClientLock(c) \/ CloseClientClose(c) \/ CloseClientErase(c)

(* Steps that wait for the outside world: a peer that reads, a deadline.   *)
ExternalStep(c) ==
    \/ Connect(c) \/ PeerSend(c) \/ PeerClose(c)
    \/ ReadTimeout(c) \/ SendResponse(c) \/ SendGivesUp(c)

(* main() has returned.                                                    *)
Terminated == pc = "done" /\ UNCHANGED vars

Next ==
    \/ HandleInterrupt \/ AcceptTransientError \/ MainStep
    \/ \E c \in Conns : ThreadStep(c) \/ ExternalStep(c)
    \/ Terminated

(* Runnable threads are scheduled.  No fairness is assumed of peers, of    *)
(* SIGINT, of transient accept() errors or of the 120 s socket deadlines.  *)
Fairness == WF_vars(MainStep) /\ \A c \in Conns : WF_vars(ThreadStep(c))

Spec == Init /\ [][Next]_vars
FairSpec == Spec /\ Fairness

-----------------------------------------------------------------------------
(* Types of the process state of server.cpp (globals, members, locals).    *)
TypeOK ==
    /\ pc \in MainPCs
    /\ stopRequested \in BOOLEAN
    /\ listeningFd \in Fds \cup {NoFd}
    /\ arg \in Fds \cup {NoFd}
    /\ cur \in Conns \cup {NoConn}
    /\ databaseOpen \in BOOLEAN
    /\ mutex \in Conns \cup {"none"}
    /\ clientFds \subseteq Fds
    /\ fdTable \in [Fds -> Conns \cup {"free", "listener", "file"}]
    /\ thread \in [Conns -> ThreadPCs]
    /\ sockFd \in [Conns -> Fds \cup {NoFd}]
    /\ shut \in [Conns -> BOOLEAN]
    /\ peerClosed \in [Conns -> BOOLEAN]
    /\ inbox \in [Conns -> BOOLEAN]

(* The shutdown() loop of stop_clients() only ever hits sockets of live    *)
(* connections: while no close_client() is inside the mutex, a registered  *)
(* number refers to the socket of the one connection that uses it, even    *)
(* though the kernel hands a closed number to the next accept() or open(). *)
RegistryMatchesSockets ==
    \A f \in clientFds :
        \/ \E c \in Conns : sockFd[c] = f /\ fdTable[f] = c
        \/ mutex \in Conns /\ thread[mutex] = "erase" /\ sockFd[mutex] = f

(* A client thread that may block on its socket owns it and is registered, *)
(* so stop_clients() can wake it ("register first", serve()): no erase of  *)
(* an older connection with the same number can drop the registration.     *)
ServedConnectionRegistered ==
    \A c \in Running : thread[c] # "erase" =>
        sockFd[c] \in clientFds /\ fdTable[sockFd[c]] = c

(* run() flushes the log and closes the database only when no client       *)
(* thread can still be inside the kernel components.                       *)
NoClientDuringClose ==
    pc \in {"flush", "closedb", "done"} => Running = {} /\ clientFds = {}

(* However run() ends, every socket the process opened has been closed:    *)
(* refused, failed and served connections and the listening socket, whoever*)
(* of serve() and the signal handler had to close it.                      *)
NoSocketLeak ==
    pc = "done" => \A f \in Fds : fdTable[f] \in {"free", "file"}

ClosesOnlyItsOwn ==
    \A f \in Fds : fdTable'[f] # fdTable[f] =>
        /\ fdTable[f] = "listener" => stopRequested'
        /\ fdTable[f] = "file" => pc = "closedb"
        /\ fdTable[f] \in Conns =>
              thread[fdTable[f]] = "close" \/ (pc = "configure" /\ cur = fdTable[f])

(* No close() call hits a number that meanwhile belongs to someone else:   *)
(* a connection's descriptor is released by its own close_client() or by   *)
(* the accept loop that refused it, a table file only by close_db(), the   *)
(* listening socket only on a stop request.                                *)
NoForeignClose == [][ClosesOnlyItsOwn]_vars

(* After SIGINT the server comes to its end, whatever idle, silent or      *)
(* non-reading clients do, and without waiting for their socket deadlines. *)
StopTerminates == stopRequested ~> pc = "done"
=============================================================================
