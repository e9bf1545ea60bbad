\* One request that the comments of the source say is treated otherwise.
CONSTANTS
    Requests <- PlainLine
    FieldSets <- FewFields
    Class = "http"
    MaxRequests = 1
SPECIFICATION Spec
INVARIANT InvalidDataIsAnswered
CHECK_DEADLOCK FALSE
