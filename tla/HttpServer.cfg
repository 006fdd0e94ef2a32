SPECIFICATION Spec
CONSTANTS
    Workers = {w1, w2}
    Jobs = {c1, c2}
    NoJob = NoJob
    Fds = {f1, f2, f3}
    INVALID_SOCKET = INVALID_SOCKET
    Stoppers = {t1}
    keep_alive_max_count_ = 2
    MaxAddresses = 1
CHECK_DEADLOCK FALSE
INVARIANTS SocketsKept ReturnedClean NoLostWakeUp
PROPERTIES ImplementsTaskQueue StopEnds
