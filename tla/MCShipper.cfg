\* An alert and an id whose alert is gone; four lines, one of which may be one that stops
\* the shipper.
CONSTANTS
    a1 = a1
    a2 = a2
    None = None
    Broken = Broken
    Download = Download
    Refused = Refused
    NoObject = NoObject
    TooLong = TooLong
    Alert <- Alerts
    Ghost <- OneGhost
    Batch = 2
    OrphanTries = 2
    MaxRows <- SomeRows
    MaxLines = 4
    MaxStopping = 1
    MaxFaults = 2
SPECIFICATION Spec
INVARIANTS SiemAgrees CopiesExplained
PROPERTIES Lossless EverythingSettles
