SPECIFICATION Spec
CONSTANTS
    Threads = {t1, t2}
    Stoppers = {s1}
    Fds = {f1, f2}
    INVALID_SOCKET = INVALID_SOCKET
    None = None
    MaxRedirects = 1
    MaxAuthorizations = 1
    MaxAddresses = 2
CHECK_DEADLOCK FALSE
INVARIANTS StreamKept NoneLeaked  
 
