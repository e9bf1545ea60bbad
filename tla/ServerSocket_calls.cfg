\* Every order of up to five calls on every kind of address, two attempts.
CONSTANTS
    Addresses = {"ipv4", "ipv6", "path"}
    RetriesCount = 2
    MaxCalls = 5
SPECIFICATION FairSpec
INVARIANTS TypeOK ClosedOnce
PROPERTIES LeaksAreForever BindEnds
CHECK_DEADLOCK FALSE
