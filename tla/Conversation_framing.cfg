\* BaseHTTPRequestHandler: two messages with bodies of up to two bytes, cut
\* up anywhere.
CONSTANTS
    CR = CR
    LF = LF
    GET = GET
    Data = Data
    MaxLength = 2
    Inputs <- Streams
    BufSize = 20
    Class = "base"
    MaxRequests = 4
    Applications = {"example", "any"}
SPECIFICATION Spec
INVARIANTS TypeOK RequestsAreFramed BodyIsOwn
CHECK_DEADLOCK FALSE
