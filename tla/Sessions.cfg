\* One login whose tokens are refreshed, copied and revoked by two requests at once.
SPECIFICATION FairSpec
CONSTANTS
    Families = {f1}
    Procs = {p1, p2}
    MaxTokens = 3
    MaxChanges = 1
    MaxAborts = 1
INVARIANTS OneLiveToken LiveSessionHasToken OneRotationSlipsThrough
PROPERTIES EndedStaysEnded ReuseEndsSession
CHECK_DEADLOCK FALSE
