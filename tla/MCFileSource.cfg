\* Two paths, three files with three lines between them, one kill, one failure to open.
CONSTANTS
    None = None
    p1 = p1
    p2 = p2
    Path <- Paths
    MaxInodes = 3
    MaxLines = 3
    MaxCrashes = 1
    MaxFailures = 1
SPECIFICATION Spec
CHECK_DEADLOCK FALSE
INVARIANTS SkipsNothing
PROPERTY InFileOrder
