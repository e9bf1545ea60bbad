\* Every sequence of calls on streams of at most five bytes, read at most
\* two at a time: buffers, limits and peeks larger and smaller than a read.
CONSTANTS
    CR = CR
    LF = LF
    x = x
    Byte = {CR, LF, x}
    Inputs <- Streams
    BufSize = 2
    Counts = {0, 1, 3}
    SizeMod = 16
    Sizes = {0, 1, 3}
    Room = 2
    MaxWrites = 2
SPECIFICATION FairSpec
INVARIANTS TypeOK StreamIntegrity ReturnsTheStream LimitHonoured LineTerminated WireFollowsWrites
PROPERTIES ReadLineReturns WriteReturns
CHECK_DEADLOCK FALSE
