------------------------------- MODULE MCSessions -------------------------------
(* Sessions on small instances.                                            *)
EXTENDS Sessions, TLC

(* Requests are interchangeable, and so are logins.                        *)
Symmetry == Permutations(Procs) \cup Permutations(Families)
=================================================================================
