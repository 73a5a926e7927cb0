\* Two clients; a window of three, a grace of one, a sweep every other event.
CONSTANTS
    None = None
    c1 = c1
    c2 = c2
    Client <- Clients
    Timestamp = {2, 3, 8}
    MaxEvents = 3
    MaxBacklog = 1
    EventId <- Feed
    WindowLength = 3
    Grace = 1
    SweepEvery = 2
    MaxOpen = 2
    MaxStops = 1
    MaxCrashes = 1
SPECIFICATION Spec
CHECK_DEADLOCK FALSE
INVARIANTS EventsAccounted ReprocessesNothing InWindowOrder FoldTargetsExist
PROPERTY StopsWhenAsked
