\* A clock-in committed while confirmNoShow waits for the seat lock.
SPECIFICATION Spec
CONSTANTS
    Staff = {s1, s2}
    Required = 1
    StartsAt = 2
    EndsAt = 3
    Starts = {2}
    Lead = 1
    CancelLead = 1
    EarlyLead = 1
    ClockGrace = 1
    NoShowGrace = 0
    MissingGrace = 0
    ActionWindow = 1
    Lifetimes = {2}
    CheckInRequired = TRUE
    StaleLockReads = TRUE
    MaxTime = 5
    MaxTx = 1
SYMMETRY StaffSymmetry
INVARIANT SeatsWithinCapacity
CHECK_DEADLOCK FALSE
