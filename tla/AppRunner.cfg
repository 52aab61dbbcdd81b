SPECIFICATION Spec
CONSTANT N = 2
INVARIANTS
    TypeOK
    ExitIsQuiescent
    ExitCodeIsTruth
    ClosedInReverse
    DependenciesOutliveRequests
    NoSpuriousShutdown
PROPERTIES
    ShutdownCompletes
CHECK_DEADLOCK FALSE
