SPECIFICATION Spec
CONSTANTS
    MaxRetries = 2
    Messages = 2
    MaxStarts = 3
INVARIANTS
    NothingSkipped
    RetriesSpent
    StopKeepsMessage
    DeliveredInStep
CHECK_DEADLOCK FALSE
