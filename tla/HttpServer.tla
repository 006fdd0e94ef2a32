----------------------------- MODULE HttpServer -----------------------------
(***************************************************************************)
(* The life of httplib::Server: bind, the accept loop of listen_internal,  *)
(* stop() from other threads, and the connections that the workers of the  *)
(* ThreadPool serve with keep-alive and close.  A job of the pool is a     *)
(* connection.                                                             *)
(*                                                                         *)
(* svr_sock_ is an atomic; between two reads of it any thread may run.     *)
(* The operating system gives the number of a closed socket to the next.   *)
(* The assertion of stop() reads svr_sock_ and changes nothing.            *)
(***************************************************************************)
EXTENDS ThreadPool

CONSTANTS
    Fds,                    \* socket numbers
    INVALID_SOCKET,
    Stoppers,               \* threads that call stop(), once each
    keep_alive_max_count_,
    MaxAddresses            \* bound: results of getaddrinfo

\* What a number is open for, besides a connection.
Closed == "closed"
Listening == "listening"
Other == "other"

ASSUME ServerAssumption ==
    /\ INVALID_SOCKET \notin Fds
    /\ {Closed, Listening, Other} \cap Jobs = {}
    /\ keep_alive_max_count_ \in Nat \ {0}
    /\ MaxAddresses \in Nat

VARIABLES
    svr_sock_, is_running_,
    listener, addresses,
    arg,            \* the socket number the listener has loaded
    fds,            \* what each number is open for
    backlog,
    sock,           \* the number each connection was accepted with
    count, ended,   \* process_server_socket_core, per connection
    stopper, stopSock,
    other,          \* the number that code outside of the server holds
    broken          \* history: accept failed for good

server == <<svr_sock_, is_running_, listener, addresses, arg, broken>>
connections == <<backlog, sock, count, ended>>
stops == <<stopper, stopSock>>
vars == <<pool, server, fds, connections, stops, other>>

Init ==
    /\ PoolInit
    /\ svr_sock_ = INVALID_SOCKET /\ is_running_ = FALSE
    /\ listener = "bind" /\ addresses = MaxAddresses /\ arg = INVALID_SOCKET
    /\ fds = [f \in Fds |-> Closed]
    /\ backlog = {} /\ sock = [c \in Jobs |-> INVALID_SOCKET]
    /\ count = [c \in Jobs |-> keep_alive_max_count_]
    /\ ended = [c \in Jobs |-> FALSE]
    /\ stopper = [t \in Stoppers |-> "ready"]
    /\ stopSock = [t \in Stoppers |-> INVALID_SOCKET]
    /\ other = INVALID_SOCKET /\ broken = FALSE

\* close_socket(f): it closes what has that number now.
CloseFd(f) == fds' = [g \in Fds |-> IF g = f THEN Closed ELSE fds[g]]

At(here, there) == listener = here /\ listener' = there
-----------------------------------------------------------------------------
\* create_socket, one turn of the loop over the addresses, for the server: no
\* socket, or one that cannot be bound and is closed, or the server's socket.
CreateSocket ==
    /\ listener = "bind"
    /\ \/ /\ addresses > 0
          /\ addresses' = addresses - 1
          /\ UNCHANGED <<listener, svr_sock_, fds>>
       \/ /\ addresses > 0
          /\ \E f \in Fds :
                /\ fds[f] = Closed
                /\ fds' = [fds EXCEPT ![f] = Listening] /\ svr_sock_' = f
          /\ listener' = "bound" /\ UNCHANGED addresses
       \/ /\ addresses = 0
          /\ listener' = "unbound"
          /\ UNCHANGED <<addresses, svr_sock_, fds>>
    /\ UNCHANGED <<pool, broken, is_running_, arg, connections, stops, other>>

\* bind_internal with port 0, when the port cannot be read: the socket stays.
PortUnknown ==
    /\ At("bound", "unbound")
    /\ UNCHANGED <<pool, broken, svr_sock_, is_running_, addresses, arg, fds, connections,
                   stops, other>>

\* listen_internal begins.
Listen ==
    /\ At("bound", "loop") /\ is_running_' = TRUE
    /\ UNCHANGED <<pool, broken, svr_sock_, addresses, arg, fds, connections, stops, other>>

\* The condition of the loop.
LoopTest ==
    /\ listener = "loop"
    /\ listener' = IF svr_sock_ = INVALID_SOCKET THEN "shutdown" ELSE "select"
    /\ UNCHANGED <<pool, broken, svr_sock_, is_running_, addresses, arg, fds, connections,
                   stops, other>>

\* select_read: a timeout, after which on_idle does nothing; or the number is
\* loaded for accept.
SelectRead ==
    /\ listener = "select"
    /\ \/ listener' = "loop" /\ UNCHANGED arg
       \/ listener' = "accept" /\ arg' = svr_sock_
    /\ UNCHANGED <<pool, broken, svr_sock_, is_running_, addresses, fds, connections, stops,
                   other>>

\* accept, and the job for the connection.
Accept ==
    /\ At("accept", "loop")
    /\ arg \in Fds /\ fds[arg] = Listening
    /\ \E c \in backlog, f \in Fds :
        /\ fds[f] = Closed
        /\ fds' = [fds EXCEPT ![f] = c]
        /\ sock' = [sock EXCEPT ![c] = f]
        /\ backlog' = backlog \ {c}
        /\ enqueue(c)
    /\ UNCHANGED <<broken, svr_sock_, is_running_, addresses, arg, count, ended, stops,
                   other>>

\* EMFILE: no number is left.
AcceptLater ==
    /\ At("accept", "loop")
    /\ arg \in Fds /\ fds[arg] = Listening /\ backlog # {}
    /\ \A f \in Fds : fds[f] # Closed
    /\ UNCHANGED <<pool, broken, svr_sock_, is_running_, addresses, arg, fds, connections,
                   stops, other>>

\* accept fails, on a socket that stop() has closed or for good.  svr_sock_ is
\* compared, and loaded for close_socket.
AcceptError ==
    /\ listener = "accept"
    /\ broken' = (arg \in Fds /\ fds[arg] = Listening)
    /\ listener' = IF svr_sock_ = INVALID_SOCKET THEN "shutdown" ELSE "failed"
    /\ UNCHANGED <<pool, svr_sock_, is_running_, addresses, arg, fds, connections,
                   stops, other>>

LoadFailed ==
    /\ At("failed", "closing") /\ arg' = svr_sock_
    /\ UNCHANGED <<pool, broken, svr_sock_, is_running_, addresses, fds, connections, stops,
                   other>>

\* The error path closes the socket and leaves its number in svr_sock_.
CloseFailed ==
    /\ At("closing", "shutdown") /\ CloseFd(arg)
    /\ UNCHANGED <<pool, broken, svr_sock_, is_running_, addresses, arg, connections, stops,
                   other>>

\* task_queue->shutdown().
QueueShutdown ==
    /\ listener = "shutdown"
    /\ shutdown \/ ShutdownNotify \/ ShutdownJoin
    /\ UNCHANGED <<server, fds, connections, stops, other>>

ListenReturns ==
    /\ At("shutdown", "done") /\ owner = "joined"
    /\ is_running_' = FALSE
    /\ UNCHANGED <<pool, broken, svr_sock_, addresses, arg, fds, connections, stops, other>>
-----------------------------------------------------------------------------
StopAt(t, here, there) ==
    stopper[t] = here /\ stopper' = [stopper EXCEPT ![t] = there]

\* stop() reads is_running_.
Stop(t) ==
    /\ StopAt(t, "ready", IF is_running_ THEN "exchange" ELSE "ignored")
    /\ UNCHANGED <<pool, server, fds, connections, stopSock, other>>

\* Mutant of StopExchange: a load, and the number stays.
StopLoad(t) ==
    /\ StopAt(t, "exchange", "close")
    /\ stopSock' = [stopSock EXCEPT ![t] = svr_sock_]
    /\ UNCHANGED <<pool, server, fds, connections, other>>

StopExchange(t) ==
    /\ StopAt(t, "exchange", "close")
    /\ stopSock' = [stopSock EXCEPT ![t] = svr_sock_]
    /\ svr_sock_' = INVALID_SOCKET
    /\ UNCHANGED <<pool, broken, is_running_, listener, addresses, arg, fds, connections, other>>

\* shutdown_socket and close_socket.
StopClose(t) ==
    /\ StopAt(t, "close", "stopped")
    /\ CloseFd(stopSock[t])
    /\ UNCHANGED <<pool, server, connections, stopSock, other>>

StopStep(t) == Stop(t) \/ StopExchange(t) \/ StopClose(t)
-----------------------------------------------------------------------------
\* A client connects to a socket that listens.
Arrive(c) ==
    /\ c \notin backlog /\ sock[c] = INVALID_SOCKET
    /\ \E f \in Fds : fds[f] = Listening
    /\ backlog' = backlog \cup {c}
    /\ UNCHANGED <<pool, server, fds, sock, count, ended, stops, other>>

\* Other code of the process opens a socket, and closes it.
OpenOther ==
    /\ other = INVALID_SOCKET
    /\ \E f \in Fds : fds[f] = Closed /\ other' = f /\ fds' = [fds EXCEPT ![f] = Other]
    /\ UNCHANGED <<pool, server, connections, stops>>

CloseOther ==
    /\ other \in Fds /\ CloseFd(other) /\ other' = INVALID_SOCKET
    /\ UNCHANGED <<pool, server, connections, stops>>

\* One turn of process_server_socket_core: a request arrives in time, and the
\* callback may end the connection; or keep_alive gives up.
Serve(w) ==
    /\ pc[w] = "run" /\ ~ended[fn[w]]
    /\ LET c == fn[w]
       IN \/ /\ count[c] > 0
             /\ count' = [count EXCEPT ![c] = @ - 1]
             /\ \E over \in BOOLEAN : ended' = [ended EXCEPT ![c] = over]
          \/ ended' = [ended EXCEPT ![c] = TRUE] /\ UNCHANGED count
    /\ UNCHANGED <<pool, server, fds, backlog, sock, stops, other>>

\* Mutant of CloseConnection: it is only shut down.
LeaveConnection(w) ==
    /\ pc[w] = "run" /\ ended[fn[w]]
    /\ WorkerRun(w)
    /\ UNCHANGED <<server, fds, connections, stops, other>>

\* The end of process_and_close_socket, and of the job.
CloseConnection(w) ==
    /\ pc[w] = "run" /\ ended[fn[w]]
    /\ CloseFd(sock[fn[w]])
    /\ WorkerRun(w)
    /\ UNCHANGED <<server, connections, stops, other>>

PoolWorker(w) ==
    /\ WorkerWait(w) \/ WorkerExit(w) \/ WorkerTake(w)
    /\ UNCHANGED <<server, fds, connections, stops, other>>

PoolSpurious(w) ==
    SpuriousWakeUp(w) /\ UNCHANGED <<server, fds, connections, stops, other>>

Listener ==
    \/ CreateSocket \/ PortUnknown \/ Listen \/ LoopTest \/ SelectRead \/ Accept
    \/ AcceptLater \/ AcceptError \/ LoadFailed \/ CloseFailed \/ QueueShutdown
    \/ ListenReturns

ServerWorker(w) == PoolWorker(w) \/ Serve(w) \/ CloseConnection(w)

Next ==
    \/ Listener
    \/ \E t \in Stoppers : StopStep(t)
    \/ \E c \in Jobs : Arrive(c)
    \/ \E w \in Workers : ServerWorker(w) \/ PoolSpurious(w)
    \/ OpenOther \/ CloseOther

\* The threads run; a connection has timeouts and a count.
Fairness ==
    /\ WF_vars(Listener)
    /\ \A t \in Stoppers : WF_vars(StopExchange(t) \/ StopClose(t))
    /\ \A w \in Workers : WF_vars(ServerWorker(w))

Spec == Init /\ [][Next]_vars /\ Fairness
-----------------------------------------------------------------------------
Active(c) == c \in submitted \ finished

\* Nobody's socket is closed by another: neither a connection that is served
\* nor a socket of other code loses its number, whenever stop() is called.
\* (After an accept that failed for good the error path and stop() may close
\* the same number, one after the other.)
SocketsKept ==
    ~broken =>
        /\ \A c \in Jobs : Active(c) => fds[sock[c]] = c
        /\ other # INVALID_SOCKET => fds[other] = Other

\* When listen() has returned and no stop() is under way, nothing of the server
\* is open any more, and all connections were closed by their workers.
ReturnedClean ==
    listener = "done" =>
        /\ finished = submitted
        /\ \A f \in Fds : fds[f] \notin Jobs
        /\ (\A t \in Stoppers : stopper[t] # "close") =>
               \A f \in Fds : fds[f] # Listening

\* stop() of a running server ends listen().
StopEnds == \A t \in Stoppers : stopper[t] = "close" ~> listener = "done"
=============================================================================
