\* An operator replays a failed email while a late worker may still be running.
SPECIFICATION Spec
CONSTANTS
    Workers = {w1, w2}
    MaxAttempts = 1
    ThrottleStarts = 1
    MaxFaults = 1
    MaxReplays = 1
SYMMETRY Symmetry
INVARIANT PlainFailureIsSafeToReplay
PROPERTIES KeepsContract
CHECK_DEADLOCK FALSE
