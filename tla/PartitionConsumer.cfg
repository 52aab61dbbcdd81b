SPECIFICATION Spec
CONSTANTS
    Partitions = {p1, p2}
    Handlers = {h1, h2}
    Nil = Nil
INVARIANTS
    ClosedForGood
    SetupMeetsCleanup
PROPERTIES
    CloseReturnsQuietly
    HandlerErrorEndsRun
    CloseHangsOnlyOnSetup
CHECK_DEADLOCK FALSE
