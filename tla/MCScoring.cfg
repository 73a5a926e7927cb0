\* Two entities, four times; two windows in a row fire; the annotations have room
\* for one entity, and two streaks are a full table.
CONSTANTS
    e1 = e1
    e2 = e2
    None = None
    Entity <- Entities
    Time <- Times
    Words = {"verified", "plain"}
    MaxEntities = 1
    Sustained = 2
    StaleAfter = 2
    MaxTracked = 1
    Lateness = 2
    MaxWindows = 4
    MaxBatch = 2
    MaxKills = 1
SYMMETRY Symmetric
SPECIFICATION Spec
CHECK_DEADLOCK FALSE
INVARIANTS GateExact ToldInThisSweep
