\* The cooldown of a use case that is not progressive.
CONSTANTS
    None = None
    a1 = a1
    a2 = a2
    u1 = u1
    u2 = u2
    k1 = k1
    k2 = k2
    k3 = k3
    Addr <- Addresses
    UserAgent <- UserAgents
    Key = {}
    LowImpact = {}
    Allowed = {}
    Progressive = FALSE
    EpisodeGap = 1
    HighWindows = 2
    DayLength = 3
    Horizon = 4
    DailyBudget = 1
    Cooldown = 1
    RealertAfter = 1
    Lateness = 0
    MaxAlerts = 4
SPECIFICATION Spec
SYMMETRY Symmetric
CHECK_DEADLOCK FALSE
INVARIANTS CooldownQuiet FoldsIntoLatest
