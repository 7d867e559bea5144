--------------------------- MODULE MCShiftPublishing ---------------------------
(* ShiftPublishing on small instances.                                     *)
EXTENDS ShiftPublishing, TLC

(* Staff members are interchangeable, and so are sessions.                 *)
Symmetry == Permutations(Staff) \cup Permutations(Sessions)
=============================================================================
