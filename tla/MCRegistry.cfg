\* Two processes, three versions, three promotions, one approval check, one kill; nothing
\* is kept hot, so that pruning removes all that is not protected.
CONSTANTS
    None = None
    p1 = p1
    p2 = p2
    Process <- Processes
    Hot = 0
    MaxVersions = 3
    MaxPromotions = 3
    MaxChecks = 1
    MaxKills = 1
SPECIFICATION Spec
SYMMETRY Interchangeable
CHECK_DEADLOCK FALSE
INVARIANTS ServesVetted ServingHolds RollbackReturns
PROPERTY RecordsKept
