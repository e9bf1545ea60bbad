\* Three runs at the same path, each with any of the configurations.
CONSTANTS
    Run = {r1, r2, r3}
    NoRun = NoRun
    Contexts <- SomeContexts
SYMMETRY Symmetry
SPECIFICATION Spec
INVARIANTS TypeOK ListenerIsReachable ReturnFreesThePath CrashHasACause
CHECK_DEADLOCK FALSE
