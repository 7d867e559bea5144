--------------------------- MODULE MCRealtimeDispatch ---------------------------
(* RealtimeDispatch on small instances.                                    *)
EXTENDS RealtimeDispatch, TLC

(* Events are interchangeable, and so are processes.                       *)
Symmetry == Permutations(Events) \cup Permutations(Procs)
=================================================================================
