\* Two entities, events up to one late, a cap that a visit of three requests reaches.
CONSTANTS
    e1 = e1
    e2 = e2
    p = p
    q = q
    Nothing = Nothing
    Entity = {e1, e2}
    VisitPath = {p, q}
    Code = {200}
    IdleGap = 1
    MaxSequence = 2
    Lateness = 1
    MaxJump = 2
    MaxFed = 4
SPECIFICATION VisitsSpec
SYMMETRY Symmetric
CHECK_DEADLOCK FALSE
INVARIANTS EveryEventOnce VisitsSplitAtGaps ShorteningIsSaid
