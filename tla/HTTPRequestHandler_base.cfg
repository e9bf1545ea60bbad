\* BaseHTTPRequestHandler: two requests of every kind on one connection.
CONSTANTS
    Requests <- RequestLines
    FieldSets <- FewFields
    Class = "base"
    MaxRequests = 2
SPECIFICATION Spec
INVARIANTS ResponsesWellFormed ErrorEndsConnection ContinueComesFirst KeptOnlyIfAllowed
PROPERTY ImplementsExchange
CHECK_DEADLOCK FALSE
