\* HTTPRequestHandler: every kind of request line, every combination of the
\* fields; a second request would be there to be read.
CONSTANTS
    Requests <- RequestLines
    FieldSets <- Fields
    Class = "http"
    MaxRequests = 2
SPECIFICATION FairSpec
INVARIANTS TypeOK NoHeadLeftBehind VersionReadingsAgree
PROPERTY HandlerEnds
CHECK_DEADLOCK FALSE
