SPECIFICATION Spec
CONSTANT N = 1
PROPERTY CloseEndsRun
CHECK_DEADLOCK FALSE
