--------------------------- MODULE MCShiftLifecycle ---------------------------
(* ShiftLifecycle on small instances.                                      *)
EXTENDS ShiftLifecycle, TLC

(* Staff members are interchangeable: no action names one.                 *)
StaffSymmetry == Permutations(Staff)
=============================================================================
