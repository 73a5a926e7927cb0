\* Exposures beside scans, windows up to two late, and alerts raised again
\* while the model still runs.
CONSTANTS
    None = None
    a1 = a1
    a2 = a2
    u1 = u1
    u2 = u2
    k1 = k1
    k2 = k2
    k3 = k3
    Addr <- Addresses
    UserAgent = {u1}
    Key <- Exposures
    LowImpact = {k3}
    Allowed = {}
    Progressive = TRUE
    EpisodeGap = 1
    HighWindows = 2
    DayLength = 2
    Horizon = 2
    DailyBudget = 1
    Cooldown = 1
    RealertAfter = 2
    Lateness = 2
    MaxAlerts = 3
SPECIFICATION Spec
SYMMETRY ExposureSymmetry
CHECK_DEADLOCK FALSE
INVARIANTS TruthfulFlags ExposureCovered ExposureNotRepeated ExposureFoldsHome
