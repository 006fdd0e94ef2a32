SPECIFICATION SocketsSpec
CONSTANTS
    p1 = p1
    p2 = p2
    Peers <- MCPeers
    Sock = Sock
    Handles = {h1, h2, h3}
    INVALID_SOCKET = INVALID_SOCKET
    None = None
SYMMETRY Symmetry
CHECK_DEADLOCK FALSE
INVARIANTS NoPeerLeak KeptUntilGivenBack
