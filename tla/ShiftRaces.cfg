\* Two split transactions in flight at once, with stale locking reads.
SPECIFICATION Spec
CONSTANTS
    Staff = {s1, s2}
    Required = 1
    StartsAt = 2
    EndsAt = 3
    Starts = {2}
    Lead = 1
    CancelLead = 1
    EarlyLead = 1
    ClockGrace = 1
    NoShowGrace = 0
    MissingGrace = 0
    ActionWindow = 1
    Lifetimes = {2}
    CheckInRequired = TRUE
    StaleLockReads = TRUE
    MaxTime = 4
    MaxTx = 2
SYMMETRY StaffSymmetry
INVARIANTS OfferSeatAgree CompletedShiftSettled PaidWorkReviewed
PROPERTIES StepsLegal KeepsAllocation WorkKeepsItsSeat OverbooksOnlyLate
CHECK_DEADLOCK FALSE
