SPECIFICATION Spec
CONSTANTS
    Prefixes <- MCPrefixes
    Anonymous = ""
    HasPrefix <- MCHasPrefix
    Names = {"my-topic"}
    FQName <- MCFQName
    Invalid <- MCInvalid
    MaxConfigs = 2
    MaxReplacing = 1
INVARIANT UniquenessGuaranteed
CHECK_DEADLOCK FALSE
