\* Two request threads, three versions, two incidents.
CONSTANTS
    w1 = w1
    w2 = w2
    i = i
    j = j
    a = a
    b = b
    Thread = {w1, w2}
    None = None
    Incident = {i, j}
    Quality <- Qualities
    Blank <- Nothings
    MinTrainWindows = 20
    Rows = {0, 19, 20, 21, 100, 101, 2001}
    MaxVersions = 3
    MaxChanges = 6
    TTL = 2
    LiveWindow = 2
    MaxHappens = 2
    MaxTime = 4
SPECIFICATION Spec
SYMMETRY Symmetric
CONSTRAINT OneView
CHECK_DEADLOCK FALSE
INVARIANTS NoStalePicture ButtonsTellTheRules DeadIsNotLive IncidentsStayCaught
