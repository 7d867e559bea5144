\* A publish in flight while its draft is cancelled.
SPECIFICATION Spec
CONSTANTS
    Staff = {s1}
    Sessions = {m1}
    Times = {1, 2}
    Counts = {1}
PROPERTY CancelledIsFinal
CHECK_DEADLOCK FALSE
