\* One descriptor beside the listening socket, two connections: the request
\* served normally keeps its descriptor.
CONSTANTS
    Conn = {c1, c2}
    Worker = {w1}
    FdLimit = 2
    DrainOnStop = TRUE
    NoConn = NoConn
    ListenSock = ListenSock
SPECIFICATION FairSpec
PROPERTY EMFILEIsTransient
CHECK_DEADLOCK FALSE
