----------------------------- MODULE HttpClient -----------------------------
(***************************************************************************)
(* httplib::ClientImpl shared by threads: send() under request_mutex_, the *)
(* socket under socket_mutex_, the requests that send() makes of itself    *)
(* for a redirect or an authentication, and stop() from other threads.     *)
(*                                                                         *)
(* request_mutex_ is recursive: its holder has a stack of requests.  What  *)
(* is done under socket_mutex_ is one step, but for the connection, which  *)
(* takes several, and more of them for an SSLClient.  The operating system *)
(* gives the number of a closed socket to the next; other code of the      *)
(* process opens sockets too.                                              *)
(***************************************************************************)
EXTENDS FiniteSets, Integers, Sequences

CONSTANTS
    Threads,                    \* threads that call send(), once each
    Stoppers,                   \* threads that call stop(), once each
    Fds, INVALID_SOCKET, None,
    MaxRedirects,               \* CPPHTTPLIB_REDIRECT_MAX_COUNT
    MaxAuthorizations,          \* the 5 of handle_request
    MaxAddresses                \* bound: results of getaddrinfo

ASSUME ClientAssumption ==
    /\ INVALID_SOCKET \notin Fds /\ None \notin Threads
    /\ {MaxRedirects, MaxAuthorizations, MaxAddresses} \subseteq Nat

VARIABLES
    keep_alive_,    \* as the client was set
    thread,         \* "ready", "waiting" for request_mutex_, "sending", "returned"
    holder,         \* who has request_mutex_
    requests,       \* its requests, the innermost last
    socket_,
    in_flight,      \* socket_requests_in_flight_
    should_close,   \* socket_should_be_closed_when_request_is_done_
    bare,           \* it is an SSLClient's, without TLS
    connecting,     \* the innermost request holds socket_mutex_ to connect
    addresses,      \* addresses not tried yet
    tried,          \* a number that the connection has closed once
    fds, shut,      \* what each number is open for; those that are shut down
    other,          \* the number that other code holds
    stopper,
    twice           \* history: a number was closed twice

client == <<keep_alive_, socket_, bare, in_flight, should_close, connecting, addresses, tried,
            twice>>
system == <<fds, shut, other>>
vars == <<thread, holder, requests, client, system, stopper>>

Closed == "closed"
Mine == "mine"
Other == "other"

\* A request: where it is, the socket of its stream, what it may still do, and
\* what it returns.
Request(redirects, authorizations) ==
    [at |-> "send", sock |-> INVALID_SOCKET, redirect_count_ |-> redirects,
     authorization_count_ |-> authorizations, status |-> 200, ret |-> FALSE]

Init ==
    /\ keep_alive_ \in BOOLEAN
    /\ thread = [t \in Threads |-> "ready"] /\ holder = None /\ requests = <<>>
    /\ socket_ = INVALID_SOCKET /\ bare = FALSE /\ in_flight = 0 /\ should_close = FALSE
    /\ connecting = FALSE /\ addresses = MaxAddresses /\ tried = INVALID_SOCKET
    /\ fds = [f \in Fds |-> Closed] /\ shut = {} /\ other = INVALID_SOCKET
    /\ stopper = [s \in Stoppers |-> "ready"] /\ twice = FALSE

Depth == Len(requests)
Top == requests[Depth]
AtTop(place) == requests # <<>> /\ Top.at = place
Goes(place) == requests' = [requests EXCEPT ![Depth].at = place]

CloseFd(f) ==
    /\ fds' = [g \in Fds |-> IF g = f THEN Closed ELSE fds[g]]
    /\ shut' = shut \ {f}

\* shutdown_socket and close_socket of the client's socket, if it has one.
CloseSocket ==
    CloseFd(socket_) /\ socket_' = INVALID_SOCKET /\ bare' = FALSE
-----------------------------------------------------------------------------
Send(t) ==
    /\ thread[t] = "ready"
    /\ thread' = [thread EXCEPT ![t] = "waiting"]
    /\ UNCHANGED <<holder, requests, client, system, stopper>>

LockRequest(t) ==
    /\ thread[t] = "waiting" /\ holder = None
    /\ holder' = t /\ thread' = [thread EXCEPT ![t] = "sending"]
    /\ requests' = <<Request(MaxRedirects, 0)>>
    /\ UNCHANGED <<client, system, stopper>>

\* The socket is there and looks alive: the request is in flight.
\* process_socket makes a stream of it.
InFlight(f) ==
    /\ in_flight' = in_flight + 1
    /\ requests' = [requests EXCEPT ![Depth].at = "exchange", ![Depth].sock = f]

\* The first block of send(), with a socket that can be written to.
ReuseSocket ==
    /\ AtTop("send") /\ socket_ # INVALID_SOCKET
    /\ should_close' = FALSE
    /\ InFlight(socket_)
    /\ UNCHANGED <<keep_alive_, thread, holder, socket_, bare, connecting, addresses, tried,
                   twice, system, stopper>>

\* Mutant of Reconnect: the dead socket is forgotten.
ReconnectOnly ==
    /\ AtTop("send")
    /\ should_close' = FALSE /\ connecting' = TRUE /\ addresses' = MaxAddresses
    /\ socket_' = INVALID_SOCKET /\ bare' = FALSE /\ Goes("connect")
    /\ UNCHANGED <<keep_alive_, thread, holder, in_flight, tried, twice, system, stopper>>

\* The same with no socket, or one that is dead and is closed.
Reconnect ==
    /\ AtTop("send")
    /\ should_close' = FALSE /\ connecting' = TRUE /\ addresses' = MaxAddresses
    /\ CloseSocket /\ Goes("connect")
    /\ UNCHANGED <<keep_alive_, thread, holder, in_flight, tried, twice, other, stopper>>

\* create_socket, one address: connected.  An SSLClient is not done with that.
Connected ==
    /\ AtTop("connect") /\ tried = INVALID_SOCKET /\ addresses > 0
    /\ \E f \in Fds :
        /\ fds[f] = Closed
        /\ fds' = [fds EXCEPT ![f] = Mine] /\ socket_' = f
        /\ \/ InFlight(f) /\ connecting' = FALSE
           \/ Goes("secure") /\ UNCHANGED <<in_flight, connecting>>
    /\ UNCHANGED <<keep_alive_, thread, holder, bare, should_close, addresses, tried, twice,
                   shut, other, stopper>>

\* initialize_ssl, behind a proxy after connect_with_proxy: the TLS session is
\* there.
Secured ==
    /\ AtTop("secure") /\ InFlight(socket_) /\ connecting' = FALSE
    /\ UNCHANGED <<keep_alive_, thread, holder, socket_, bare, should_close, addresses, tried,
                   twice, system, stopper>>

\* One of the two fails.
SecureFails ==
    /\ AtTop("secure") /\ CloseSocket /\ connecting' = FALSE /\ Goes("return")
    /\ UNCHANGED <<keep_alive_, thread, holder, in_flight, should_close, addresses, tried,
                   twice, other, stopper>>

\* The proxy asks for credentials that the client does not have: its response is
\* that of the request, and the connection stays as it is.
ProxyRefuses ==
    /\ AtTop("secure") /\ bare' = TRUE /\ connecting' = FALSE
    /\ requests' = [requests EXCEPT ![Depth].ret = TRUE, ![Depth].status = 407,
                                    ![Depth].at = "return"]
    /\ UNCHANGED <<keep_alive_, thread, holder, socket_, in_flight, should_close, addresses,
                   tried, twice, system, stopper>>

\* The proxy's response has Connection: close: process_request takes
\* socket_mutex_, which its thread holds.  What comes of it is undefined (it waits
\* for ever, or throws what no caller catches): the request stays where it is.
ProxyCloses ==
    /\ AtTop("secure") /\ Goes("relocking")
    /\ UNCHANGED <<thread, holder, client, system, stopper>>

\* Mutant of ConnectFails: the same address again.
ConnectFailsAgain ==
    /\ AtTop("connect") /\ tried = INVALID_SOCKET /\ addresses > 0
    /\ \E f \in Fds : fds[f] = Closed /\ tried' = f
    /\ UNCHANGED <<keep_alive_, thread, holder, requests, socket_, bare, in_flight,
                   should_close, connecting, addresses, twice, system, stopper>>

\* The connection fails, or times out: the callback closes the socket.
ConnectFails ==
    /\ AtTop("connect") /\ tried = INVALID_SOCKET /\ addresses > 0
    /\ \E f \in Fds : fds[f] = Closed /\ tried' = f
    /\ addresses' = addresses - 1
    /\ UNCHANGED <<keep_alive_, thread, holder, requests, socket_, bare, in_flight,
                   should_close, connecting, twice, system, stopper>>

\* create_socket closes the number again.
CloseAgain ==
    /\ AtTop("connect") /\ tried # INVALID_SOCKET
    /\ CloseFd(tried) /\ tried' = INVALID_SOCKET
    /\ twice' = (twice \/ fds[tried] # Closed)
    /\ UNCHANGED <<keep_alive_, thread, holder, requests, socket_, bare, in_flight,
                   should_close, connecting, addresses, other, stopper>>

\* No address is left, or no number.
ConnectGivesUp ==
    /\ AtTop("connect") /\ tried = INVALID_SOCKET
    /\ addresses = 0 \/ \A f \in Fds : fds[f] # Closed
    /\ connecting' = FALSE
    /\ requests' = [requests EXCEPT ![Depth].at = "return"]
    /\ UNCHANGED <<keep_alive_, thread, holder, socket_, bare, in_flight, should_close,
                   addresses, tried, twice, system, stopper>>
-----------------------------------------------------------------------------
\* process_request: nothing comes back of a socket that is shut down, and
\* writing, reading or a callback of the caller may fail on any.  (On one that is
\* bare an SSLClient uses a session that is not there, which ends the process.)
ExchangeFails ==
    /\ AtTop("exchange") /\ ~bare
    /\ Goes("finish")
    /\ UNCHANGED <<thread, holder, client, system, stopper>>

\* A response, on a connection that goes on or that is to be closed.
Exchange ==
    /\ AtTop("exchange") /\ Top.sock \notin shut /\ ~bare
    /\ \E status \in {200, 302, 401}, closes \in BOOLEAN :
        requests' = [requests EXCEPT ![Depth].ret = TRUE, ![Depth].status = status,
                                     ![Depth].at = IF closes THEN "close"
                                                   ELSE "follow"]
    /\ UNCHANGED <<thread, holder, client, system, stopper>>

\* lock_socket_and_shutdown_and_close.
CloseNow ==
    /\ AtTop("close")
    /\ CloseSocket /\ Goes("follow")
    /\ UNCHANGED <<keep_alive_, thread, holder, in_flight, should_close, connecting, addresses,
                   tried, twice, other, stopper>>

\* Mutant of Redirect: the count is copied.
RedirectAgain ==
    /\ AtTop("follow") /\ Top.status = 302 /\ Top.redirect_count_ > 0
    /\ requests' = Append([requests EXCEPT ![Depth].at = "redirected"],
                          Request(Top.redirect_count_, Top.authorization_count_))
    /\ UNCHANGED <<thread, holder, client, system, stopper>>

\* redirect() to the same host: send() again, of a copy with one redirection
\* less.
Redirect ==
    /\ AtTop("follow") /\ Top.status = 302 /\ Top.redirect_count_ > 0
    /\ requests' = Append([requests EXCEPT ![Depth].at = "redirected"],
                          Request(Top.redirect_count_ - 1, Top.authorization_count_))
    /\ UNCHANGED <<thread, holder, client, system, stopper>>

\* redirect() to another host, with a client of its own; or a redirection too
\* many, or to nowhere.
RedirectElsewhere ==
    /\ AtTop("follow") /\ Top.status = 302
    /\ \/ requests' = [requests EXCEPT ![Depth].at = "redirected", ![Depth].ret = FALSE]
       \/ \E status \in {200, 302, 401}, left \in 0..(Top.redirect_count_ - 1) :
            requests' = [requests EXCEPT ![Depth].at = "redirected",
                                         ![Depth].status = status,
                                         ![Depth].redirect_count_ = left]
    /\ UNCHANGED <<thread, holder, client, system, stopper>>

\* A response that is not redirected (or is, with follow_location_ off) is looked
\* at next, and so is what a redirection has left: the request is made again with
\* credentials, if the client has any and the response asks for them in a form it
\* knows.
Authorize ==
    /\ \/ AtTop("follow")
       \/ AtTop("redirected")
    /\ \/ /\ Top.status = 401 /\ Top.authorization_count_ < MaxAuthorizations
          /\ requests' = Append([requests EXCEPT ![Depth].at = "authorized"],
                                Request(Top.redirect_count_,
                                        Top.authorization_count_ + 1))
       \/ requests' = [requests EXCEPT ![Depth].at = "finish"]
    /\ UNCHANGED <<thread, holder, client, system, stopper>>

Authorized ==
    /\ AtTop("authorized") /\ Goes("finish")
    /\ UNCHANGED <<thread, holder, client, system, stopper>>

\* Mutant of Finish: stop() is not heard.
FinishDeaf ==
    /\ AtTop("finish") /\ in_flight' = in_flight - 1
    /\ IF ~keep_alive_ \/ ~Top.ret THEN CloseSocket
       ELSE UNCHANGED <<fds, shut, socket_, bare>>
    /\ Goes("return")
    /\ UNCHANGED <<keep_alive_, thread, holder, should_close, connecting, addresses, tried,
                   twice, other, stopper>>

\* The last block of send().
Finish ==
    /\ AtTop("finish") /\ in_flight' = in_flight - 1
    /\ IF should_close \/ ~keep_alive_ \/ ~Top.ret THEN CloseSocket
       ELSE UNCHANGED <<fds, shut, socket_, bare>>
    /\ Goes("return")
    /\ UNCHANGED <<keep_alive_, thread, holder, should_close, connecting, addresses, tried,
                   twice, other, stopper>>

\* send() returns to the request that it was made for, whose response and
\* request become those of the new one when it has succeeded.
ReturnInner ==
    /\ AtTop("return") /\ Depth > 1
    /\ LET outer == requests[Depth - 1]
           copied == IF outer.at = "redirected"
                     THEN [outer EXCEPT !.redirect_count_ = Top.redirect_count_]
                     ELSE outer
       IN requests' = Append(SubSeq(requests, 1, Depth - 2),
                             IF Top.ret
                             THEN [copied EXCEPT !.ret = TRUE, !.status = Top.status]
                             ELSE [outer EXCEPT !.ret = FALSE])
    /\ UNCHANGED <<thread, holder, client, system, stopper>>

Return ==
    /\ AtTop("return") /\ Depth = 1
    /\ requests' = <<>> /\ holder' = None
    /\ thread' = [thread EXCEPT ![holder] = "returned"]
    /\ UNCHANGED <<client, system, stopper>>
-----------------------------------------------------------------------------
\* Mutant of Stop: it does not ask whether a request is in flight.
StopAnyway(s) ==
    /\ stopper[s] = "ready" /\ ~connecting
    /\ stopper' = [stopper EXCEPT ![s] = "stopped"]
    /\ CloseSocket
    /\ UNCHANGED <<keep_alive_, thread, holder, requests, in_flight, should_close, connecting,
                   addresses, tried, twice, other>>

\* stop(): with a request in flight, only shut down and ask for the close.
Stop(s) ==
    /\ stopper[s] = "ready" /\ ~connecting
    /\ stopper' = [stopper EXCEPT ![s] = "stopped"]
    /\ IF in_flight > 0
       THEN /\ shut' = shut \cup ({socket_} \cap Fds) /\ should_close' = TRUE
            /\ UNCHANGED <<fds, socket_, bare>>
       ELSE CloseSocket /\ UNCHANGED should_close
    /\ UNCHANGED <<keep_alive_, thread, holder, requests, in_flight, connecting, addresses,
                   tried, twice, other>>

OpenOther ==
    /\ other = INVALID_SOCKET
    /\ \E f \in Fds : fds[f] = Closed /\ other' = f /\ fds' = [fds EXCEPT ![f] = Other]
    /\ UNCHANGED <<thread, holder, requests, client, shut, stopper>>

CloseOther ==
    /\ other # INVALID_SOCKET /\ CloseFd(other) /\ other' = INVALID_SOCKET
    /\ UNCHANGED <<thread, holder, requests, client, stopper>>

Sending ==
    \/ ReuseSocket \/ Reconnect \/ Connected \/ Secured \/ SecureFails
    \/ ProxyRefuses \/ ProxyCloses \/ ConnectFails \/ CloseAgain \/ ConnectGivesUp
    \/ ExchangeFails \/ Exchange \/ CloseNow \/ Redirect
    \/ RedirectElsewhere \/ Authorize \/ Authorized \/ Finish \/ ReturnInner
    \/ Return

Next ==
    \/ Sending
    \/ \E t \in Threads : Send(t) \/ LockRequest(t)
    \/ \E s \in Stoppers : Stop(s)
    \/ OpenOther \/ CloseOther

\* The threads run, and every wait of a request has a timeout.
Fairness ==
    /\ WF_vars(Sending)
    /\ \A t \in Threads : WF_vars(LockRequest(t))

Spec == Init /\ [][Next]_vars /\ Fairness
-----------------------------------------------------------------------------
\* While a request reads and writes, the number of its stream is the client's
\* connection; and no socket of other code is closed by the client: what the
\* comments of close_socket and stop() are about.  (But for a connection that
\* fails, whose number is closed twice.)
StreamKept ==
    ~twice =>
        /\ AtTop("exchange") => socket_ = Top.sock /\ fds[Top.sock] = Mine
        /\ other # INVALID_SOCKET => fds[other] = Other

\* The client has no open socket but the one in socket_.
NoneLeaked == ~twice => {f \in Fds : fds[f] = Mine} \subseteq {socket_}

\* Between requests a connection is kept only when the client keeps connections,
\* and never one that stop() has shut down.  (One without TLS is kept after what a
\* proxy has refused, by any client.)
KeptRightly ==
    requests = <<>> =>
        socket_ = INVALID_SOCKET \/ ((keep_alive_ \/ bare) /\ socket_ \notin shut)

\* The requests that a request makes of itself are bounded, however redirections
\* and authorizations alternate, and socket_requests_in_flight_ counts those
\* that have a stream.
NestingBound ==
    /\ Depth <= 1 + MaxRedirects + MaxAuthorizations
    /\ in_flight = Cardinality({i \in 1..Depth :
            requests[i].at \notin {"send", "connect", "secure", "relocking", "return"}})

\* What the process does next is undefined: socket_mutex_ is taken twice, or a TLS
\* session used that is not there.
Undefined == AtTop("relocking") \/ (AtTop("exchange") /\ bare)

\* Every send() returns, whatever the server answers and whoever calls stop(),
\* unless what the process does gets Undefined behind a proxy.
RequestReturns ==
    \A t \in Threads : thread[t] = "waiting" ~> thread[t] = "returned" \/ Undefined
=============================================================================
