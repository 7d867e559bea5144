\* One event, two processes, and two failures on the way.
SPECIFICATION FairSpec
CONSTANTS
    Events = {e1}
    Procs = {p1, p2}
    MaxAttempts = 2
    MaxFaults = 2
INVARIANTS CompletedWasPublished PublishesBounded PointerFollowsRow
PROPERTIES OutcomesStick EventuallySettled
CHECK_DEADLOCK FALSE
