----------------------------- MODULE MCEmailOutbox -----------------------------
(* EmailOutbox on small instances.                                         *)
EXTENDS EmailOutbox, TLC

(* The workers are interchangeable.                                        *)
Symmetry == Permutations(Workers)
================================================================================
