SPECIFICATION Spec
CONSTANTS
    Workers = {w1, w2}
    ErrorThreshold = 2
    SuccessThreshold = 1
    MaxGen = 2
    MaxFaults = 1
INVARIANTS
    NoNilClient
    FailuresAreExplained
    OneLoginPerToken
PROPERTY
    CallsReturn
