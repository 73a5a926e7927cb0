\* Progressive alerting of scans: five windows to a day, two to an episode.
CONSTANTS
    None = None
    a1 = a1
    a2 = a2
    u1 = u1
    u2 = u2
    k1 = k1
    k2 = k2
    k3 = k3
    Addr <- Addresses
    UserAgent <- UserAgents
    Key = {}
    LowImpact = {}
    Allowed = {}
    Progressive = TRUE
    EpisodeGap = 1
    HighWindows = 2
    DayLength = 5
    Horizon = 6
    DailyBudget = 1
    Cooldown = 1
    RealertAfter = 1
    Lateness = 0
    MaxAlerts = 4
SPECIFICATION Spec
SYMMETRY Symmetric
CHECK_DEADLOCK FALSE
INVARIANTS SustainedOnly QueuedOncePerDay OneAlertPerCampaign
