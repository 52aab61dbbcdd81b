SPECIFICATION Spec
CONSTANTS
    Claims = {"t/0", "t/1", "u/0"}
    PartitionOf <- MCPartitionOf
    MaxOffset = 2
    MaxSessions = 2
INVARIANTS
    MarkedWasWritten
    WrittenGetsMarked
CHECK_DEADLOCK FALSE
