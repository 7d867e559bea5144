\* A registration beside a sign-out, and two sign-outs at once.
SPECIFICATION Spec
CONSTANTS
    Families = {f1, f2}
    Procs = {p1, p2}
    MaxTokens = 3
    MaxChanges = 0
    MaxAborts = 0
SYMMETRY Symmetry
INVARIANT DevicesEndWithSessions
CHECK_DEADLOCK FALSE
