\* Two publishes or edits in flight at once.
SPECIFICATION Spec
CONSTANTS
    Staff = {s1, s2, s3}
    Sessions = {m1, m2}
    Times = {1, 2, 3}
    Counts = {1, 2}
SYMMETRY Symmetry
INVARIANTS ArchivedIsDraft TimesOrdered SelectionWithinRequired ApprovedFromSelection UnpublishedHasNoOffers
CHECK_DEADLOCK FALSE
