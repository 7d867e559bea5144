\* Two seats, three staff members: the seat arithmetic and individual start times, without split transactions.
SPECIFICATION Spec
CONSTANTS
    Staff = {s1, s2, s3}
    Required = 2
    StartsAt = 2
    EndsAt = 4
    Starts = {2, 3}
    Lead = 1
    CancelLead = 1
    EarlyLead = 1
    ClockGrace = 1
    NoShowGrace = 0
    MissingGrace = 0
    ActionWindow = 1
    Lifetimes = {2}
    CheckInRequired = TRUE
    StaleLockReads = FALSE
    MaxTime = 4
    MaxTx = 0
SYMMETRY StaffSymmetry
INVARIANTS TypeOK SeatsWithinCapacity FillStatusAgrees BookedSeatCanClockIn
CHECK_DEADLOCK FALSE
