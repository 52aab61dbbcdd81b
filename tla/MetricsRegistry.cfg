SPECIFICATION Spec
CONSTANTS
    Prefixes <- MCPrefixes
    Anonymous = ""
    HasPrefix <- MCHasPrefix
    Names = {"my-topic", "my_topic"}
    FQName <- MCFQName
    Invalid <- MCInvalid
    MaxConfigs = 2
    MaxReplacing = 1
INVARIANTS
    PrefixesDisjoint
    LateUpdatesEnd
    GaugesStayExported
    CrashNeedsCollision
PROPERTY
    MetricsGetExported
CHECK_DEADLOCK FALSE
