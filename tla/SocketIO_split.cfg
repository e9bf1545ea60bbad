\* One request line and the next, read at most
\* two bytes at a time.
CONSTANTS
    CR = CR
    LF = LF
    x = x
    Byte = {CR, LF, x}
    Inputs <- Streams
    BufSize = 2
    Counts = {0, 1, 3}
    SizeMod = 16
    Sizes = {0, 1, 3}
    Room = 2
    MaxWrites = 0
SPECIFICATION Spec
INVARIANT OneLine
CHECK_DEADLOCK FALSE
