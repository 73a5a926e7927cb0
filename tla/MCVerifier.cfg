\* Two alerts that share an exposure, an analyst who asks twice, one fault.
CONSTANTS
    a1 = a1
    a2 = a2
    k1 = k1
    k2 = k2
    r1 = r1
    NoVerdict = NoVerdict
    Alert <- Alerts
    Key <- Keys
    ExposuresOf <- Exposed
    KindOf <- Kinds
    Checkable = {k1}
    Sites <- SomeSites
    Analyst = {r1}
    Interval = 2
    MaxAsks = 2
    MaxFaults = 1
SPECIFICATION VerifierSpec
INVARIANTS RepeatsUnansweredOnly ConfirmedWasPublic
PROPERTY EveryExposureChecked
