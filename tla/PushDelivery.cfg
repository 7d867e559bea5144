\* Two workers, two attempts, and three things that go wrong on the way.
SPECIFICATION FairSpec
CONSTANTS
    Workers = {w1, w2}
    MaxAttempts = 2
    MaxFaults = 3
PROPERTIES OutcomesStick EventuallySettled KeepsContract
CHECK_DEADLOCK FALSE
