\* Worker fairness; no symmetry, since liveness is checked.
SPECIFICATION FairSpec
CONSTANTS
    Staff = {s1}
    Required = 1
    StartsAt = 2
    EndsAt = 3
    Starts = {2}
    Lead = 1
    CancelLead = 1
    EarlyLead = 1
    ClockGrace = 1
    NoShowGrace = 0
    MissingGrace = 0
    ActionWindow = 1
    Lifetimes = {2}
    CheckInRequired = TRUE
    StaleLockReads = FALSE
    MaxTime = 5
    MaxTx = 2
PROPERTIES OffersResolve CancelledSeatsClose
CHECK_DEADLOCK FALSE
