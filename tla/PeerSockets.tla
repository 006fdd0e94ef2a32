---------------------------- MODULE PeerSockets ----------------------------
(***************************************************************************)
(* BPeer (btor/bpeer.cpp) and BSock (btor/bsock.cpp) over Winsock, which   *)
(* counts start-ups and clean-ups, closes every socket at the last         *)
(* clean-up, and gives the number of a closed socket to the next one.      *)
(*                                                                         *)
(* The client of the two classes is any program that, like main, has a     *)
(* BSock around its peers, makes and deletes peers, and calls the methods  *)
(* in any order.                                                           *)
(***************************************************************************)
EXTENDS Integers, FiniteSets

CONSTANTS
    Peers,           \* objects of class BPeer
    Sock,            \* the object of class BSock
    Handles,         \* socket numbers of the operating system
    INVALID_SOCKET,
    None             \* owner of a number that is no open socket

Objects == Peers \cup {Sock}

ASSUME ObjectsAssumption ==
    /\ Sock \notin Peers /\ None \notin Objects
    /\ INVALID_SOCKET \notin Handles

VARIABLES
    up,          \* the process runs
    refs,        \* Winsock start-ups less clean-ups
    owner,       \* for each socket number, the object it was opened for
    connected,   \* connected sockets
    ready,       \* those on which the other side sent or closed
    live,        \* objects constructed and not destroyed
    handle,      \* peerSocket and _socket, also after closesocket
    unclosed,    \* objects that opened a socket and did not close it
    receiving,   \* the peer whose FD_ISSET was true, in tryReceive
    gaveBack     \* history: a number was given back and kept, by a method
                 \* that closes a socket, or cleans up, and does not forget it

os == <<refs, owner, connected, ready>>
objects == <<live, handle, unclosed>>
core == <<up, os, objects, receiving>>
socketVars == <<core, gaveBack>>

SocketsInit ==
    /\ up = TRUE /\ refs = 0
    /\ owner = [h \in Handles |-> None] /\ connected = {} /\ ready = {}
    /\ live = {} /\ handle = [o \in Objects |-> INVALID_SOCKET]
    /\ unclosed = {}
    /\ receiving = None /\ gaveBack = FALSE
-----------------------------------------------------------------------------
Idle == up /\ receiving = None

\* socket(): any number that is free, or an error.
SocketFor(o) ==
    \/ \E h \in Handles :
        /\ refs > 0 /\ owner[h] = None
        /\ owner' = [owner EXCEPT ![h] = o]
        /\ handle' = [handle EXCEPT ![o] = h]
        /\ unclosed' = unclosed \cup {o}
    \/ /\ handle' = [handle EXCEPT ![o] = INVALID_SOCKET]
       /\ unclosed' = unclosed \ {o}
       /\ UNCHANGED owner

\* closesocket(handle of o): it closes what has that number now.
CloseSocket(o) ==
    /\ owner' = [h \in Handles |-> IF h = handle[o] THEN None ELSE owner[h]]
    /\ connected' = connected \ {handle[o]}
    /\ ready' = ready \ {handle[o]}
    /\ unclosed' = unclosed \ {o}

\* WSACleanup(): the last one closes every socket.
WSACleanup ==
    /\ refs' = IF refs = 0 THEN 0 ELSE refs - 1
    /\ owner' = IF refs > 1 THEN owner ELSE [h \in Handles |-> None]
    /\ connected' = IF refs > 1 THEN connected ELSE {}
    /\ ready' = IF refs > 1 THEN ready ELSE {}

\* exit(EXIT_FAILURE): the objects are not destroyed, the process is gone.
Exit ==
    /\ up' = FALSE /\ refs' = 0
    /\ owner' = [h \in Handles |-> None] /\ connected' = {} /\ ready' = {}
    /\ live' = {} /\ unclosed' = {} /\ receiving' = None
    /\ UNCHANGED handle
-----------------------------------------------------------------------------
\* BSock::BSock()
NewBSock ==
    /\ Idle /\ Sock \notin live
    /\ \/ /\ refs' = refs + 1 /\ live' = live \cup {Sock}
          /\ handle' = [handle EXCEPT ![Sock] = INVALID_SOCKET]
          /\ UNCHANGED <<up, owner, connected, ready, unclosed, receiving>>
       \/ Exit

\* BSock::~BSock()
DeleteBSock ==
    /\ Idle /\ live = {Sock}
    /\ WSACleanup
    /\ live' = {} /\ unclosed' = {}
    /\ UNCHANGED <<up, handle, receiving>>

\* BSock::OpenSocket(): getaddrinfo, socket or bind fail.
OpenSocketFails ==
    /\ Idle /\ Sock \in live
    /\ WSACleanup
    /\ \/ UNCHANGED handle
       \/ handle' = [handle EXCEPT ![Sock] = INVALID_SOCKET]
       \/ \E h \in Handles :
            /\ refs > 0 /\ owner[h] = None
            /\ handle' = [handle EXCEPT ![Sock] = h]
    /\ unclosed' = unclosed \ {Sock}
    /\ UNCHANGED <<up, live, receiving>>

\* BSock::OpenSocket(): it listens, or listen fails.
OpenSocket ==
    /\ Idle /\ Sock \in live
    /\ \/ /\ SocketFor(Sock) /\ handle'[Sock] # INVALID_SOCKET
          /\ UNCHANGED <<up, refs, connected, ready, live, receiving>>
       \/ Exit

\* BPeer::BPeer(); socket() may fail.
NewBPeer(p) ==
    /\ Idle /\ Sock \in live /\ p \notin live
    /\ SocketFor(p)
    /\ live' = live \cup {p}
    /\ UNCHANGED <<up, refs, connected, ready, receiving>>

\* Mutant of DeleteBPeer: the handle is not closed.
DeleteBPeerOnly(p) ==
    /\ Idle /\ p \in live
    /\ live' = live \ {p} /\ unclosed' = unclosed \ {p}
    /\ UNCHANGED <<up, os, handle, receiving>>

\* BPeer::~BPeer()
DeleteBPeer(p) ==
    /\ Idle /\ p \in live
    /\ CloseSocket(p)
    /\ live' = live \ {p}
    /\ UNCHANGED <<up, refs, handle, receiving>>

\* Mutant of TryConnect: a peer that does not answer is closed.
TryConnectCloses(p) ==
    /\ Idle /\ p \in live
    /\ CloseSocket(p)
    /\ UNCHANGED <<up, refs, live, handle, receiving>>

\* BPeer::tryConnect(): connect works at most once per socket.
TryConnect(p) ==
    /\ Idle /\ p \in live
    /\ \/ /\ handle[p] \in Handles \ connected /\ owner[handle[p]] # None
          /\ connected' = connected \cup {handle[p]}
       \/ UNCHANGED connected
    /\ UNCHANGED <<up, refs, owner, ready, live, handle, unclosed, receiving>>

\* BPeer::sendMessage(), when send fails.
SendMessageFails(p) ==
    /\ Idle /\ p \in live
    /\ CloseSocket(p)
    /\ UNCHANGED <<up, refs, live, handle, receiving>>

\* BPeer::closeConnection(), shutdown first.
CloseConnection(p) ==
    /\ Idle /\ p \in live
    /\ \/ /\ handle[p] \in connected
          /\ CloseSocket(p)
          /\ UNCHANGED <<up, refs, live, handle, receiving>>
       \/ Exit

\* BPeer::tryReceive() as far as FD_ISSET.  If select fails, because this is no
\* open socket, the set is as FD_SET left it.
TryReceive(p) ==
    /\ Idle /\ p \in live
    /\ \/ handle[p] \in ready
       \/ handle[p] \notin Handles
       \/ handle[p] \in Handles /\ owner[handle[p]] = None
    /\ receiving' = p
    /\ UNCHANGED <<up, os, objects>>

\* The rest of it: recv, the echo and their errors.
Receive ==
    /\ receiving # None
    /\ \/ /\ handle[receiving] \in ready
          /\ ready' = ready \ {handle[receiving]}
          /\ receiving' = None
          /\ UNCHANGED <<up, refs, owner, connected, objects>>
       \/ Exit

\* The other side of a connected socket sends, or closes.
Arrive ==
    /\ Idle
    /\ \E h \in connected \ ready : ready' = ready \cup {h}
    /\ UNCHANGED <<up, refs, owner, connected, objects, receiving>>

\* sendMessage, closeConnection and OpenSocket's errors keep the number.
GiveBack ==
    \/ OpenSocketFails
    \/ \E p \in Peers : SendMessageFails(p) \/ CloseConnection(p)

Keep ==
    \/ NewBSock \/ DeleteBSock \/ OpenSocket
    \/ \E p \in Peers :
        NewBPeer(p) \/ DeleteBPeer(p) \/ TryConnect(p) \/ TryReceive(p)
    \/ Receive \/ Arrive

SocketsNext ==
    \/ GiveBack /\ gaveBack' = TRUE
    \/ Keep /\ UNCHANGED gaveBack

SocketsSpec == SocketsInit /\ [][SocketsNext]_socketVars
-----------------------------------------------------------------------------
\* Every variable has its type.
TypeOK ==
    /\ up \in BOOLEAN /\ refs \in Nat
    /\ owner \in [Handles -> Objects \cup {None}]
    /\ connected \subseteq Handles /\ ready \subseteq connected
    /\ live \subseteq Objects
    /\ handle \in [Objects -> Handles \cup {INVALID_SOCKET}]
    /\ unclosed \subseteq Objects
    /\ receiving \in Peers \cup {None} /\ gaveBack \in BOOLEAN

\* No socket of a peer outlives it: whatever the client called, an open socket
\* belongs to a peer that lives and still holds its number (~BPeer).
NoPeerLeak ==
    \A h \in Handles :
        owner[h] \in Peers => owner[h] \in live /\ handle[owner[h]] = h

\* An object that did not close its socket still has it: nobody else closed
\* it, neither with a stale number nor with a clean-up too many.
KeptUntilClosed ==
    \A o \in unclosed : handle[o] \in Handles /\ owner[handle[o]] = o

\* The inductive part of KeptUntilClosed: an object that did not open a socket,
\* or closed it, holds no number any more.
HandlesInv ==
    \A o \in Objects :
        /\ o \in unclosed =>
            o \in live /\ handle[o] \in Handles /\ owner[handle[o]] = o
        /\ o \in live \ unclosed => handle[o] = INVALID_SOCKET

\* bpeer.h:61: "one socket per connection".
OneSocketPerConnection ==
    \A p, q \in live :
        handle[p] = handle[q] /\ handle[p] # INVALID_SOCKET => p = q

\* bsock.cpp:53: WSACleanup is for "when we destroy this object", so that
\* Winsock is up as long as the BSock lives.
WinsockWhileBSock == Sock \in live => refs > 0

\* As long as no method gave a number back and kept it, every object has its
\* own open socket until it closes it, whatever fails and exits in between, and
\* Winsock is up for as long as the BSock lives.
KeptUntilGivenBack ==
    ~gaveBack => KeptUntilClosed /\ OneSocketPerConnection /\ WinsockWhileBSock
=============================================================================
