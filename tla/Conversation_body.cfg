\* HTTPRequestHandler, which tells the application the size of the body: the
\* same streams, which may end within it.
CONSTANTS
    CR = CR
    LF = LF
    GET = GET
    Data = Data
    MaxLength = 2
    Inputs <- Streams
    BufSize = 20
    Class = "http"
    MaxRequests = 4
    Applications = {"example", "any"}
SPECIFICATION FairSpec
PROPERTIES HandleEnds CutBodyIsNeverAnswered
CHECK_DEADLOCK FALSE
