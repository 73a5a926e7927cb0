\* Two addresses with two user-agents each, two buckets.
CONSTANTS
    x = x
    y = y
    u = u
    v = v
    s1 = s1
    s2 = s2
    None = None
    Site = {s1, s2}
    Length <- Lengths
    Parent <- Parents
    MaxSiteSizes = 2
    DirAnswers = 3
    MaxEchoes = 2
    RecentBuckets = 2
    Address = {x, y}
    Agent = {u, v}
    Bucket = {1, 2}
    Segments <- SegmentsOf
    Tests <- TestsOf
    DebugPaths <- Debug
    DebugDirs <- Below
    MaxDepth = 3
    Served = {"page"}
    Answer <- Answers
    MaxEvents = 3
    MaxStarts = 2
SYMMETRY Symmetric
SPECIFICATION Spec
CHECK_DEADLOCK FALSE
INVARIANTS OneExposureEach DownloadsReported SamplesAreWhole
PROPERTY PagesNotReported
