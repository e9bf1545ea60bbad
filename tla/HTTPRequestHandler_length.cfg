\* One request that the comments of the source say is treated otherwise.
CONSTANTS
    Requests <- PlainLine
    FieldSets <- KeepAlive
    Class = "base"
    MaxRequests = 1
SPECIFICATION Spec
INVARIANT UnknownLengthCloses
CHECK_DEADLOCK FALSE
