SPECIFICATION Spec
CONSTANT Partitions = {p1, p2, p3}
INVARIANT CloseIsFinal
PROPERTY ImplementsModule
CHECK_DEADLOCK FALSE
