\* 3 connections, 2 workers, 2 descriptors beside the listening socket: the
\* third accept either reuses a number freed by _shutdown_client or is EMFILE.
\* No symmetry, because of the liveness properties.
CONSTANTS
    Conn = {c1, c2, c3}
    Worker = {w1, w2}
    FdLimit = 3
    DrainOnStop = TRUE
    NoConn = NoConn
    ListenSock = ListenSock
SPECIFICATION FairSpec
INVARIANTS TypeOK NoStaleDescriptor SingleHolder AcceptedIsKept
PROPERTIES
    ReleasedByHolder ImplementsService
    PendingIsAccepted RequestsAreServed CloseEndsListening
CHECK_DEADLOCK FALSE
