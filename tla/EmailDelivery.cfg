\* Every attempt may die, stall once past its lease or be throttled; nobody replays.
SPECIFICATION FairSpec
CONSTANTS
    Workers = {w1, w2}
    MaxAttempts = 2
    ThrottleStarts = 2
    MaxFaults = 1
    MaxReplays = 0
INVARIANTS NoBlindResend SentIsTrue AttemptsAreCumulative
PROPERTIES OutcomesStick EventuallySettled KeepsContract
CHECK_DEADLOCK FALSE
