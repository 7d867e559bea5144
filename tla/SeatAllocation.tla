----------------------------- MODULE SeatAllocation -----------------------------
(***************************************************************************)
(* What Crewflow promises about the seats of one shift, however offers,    *)
(* no-shows, clock-ins and reports are handled: a seat is taken only while *)
(* one is vacant, work is recorded only for somebody who has a seat, and   *)
(* while the shift stands nobody who has worked loses or regains theirs    *)
(* outside that rule.  Blind lifts the last promise: it is the allocator   *)
(* whose release cannot see the work that was just recorded.               *)
(***************************************************************************)
EXTENDS Integers, FiniteSets

CONSTANTS
    Staff,     \* who may take a seat
    Required,  \* how many seats there are
    Blind      \* a release may overlook recorded work

VARIABLES
    taken,     \* staff who occupy a seat
    working,   \* staff with recorded work
    open       \* the shift was not cancelled

vars == <<taken, working, open>>

Init == taken = {} /\ working = {} /\ open = TRUE

(* A vacant seat is taken; by somebody who has worked only when their seat *)
(* was released blindly.                                                   *)
Take(p) ==
    /\ Cardinality(taken) < Required
    /\ p \in working => Blind
    /\ taken' = taken \cup {p}
    /\ UNCHANGED <<working, open>>

(* Work is recorded for somebody who has a seat.                           *)
Work(p) ==
    /\ p \in taken
    /\ working' = working \cup {p}
    /\ UNCHANGED <<taken, open>>

(* A seat is given up.                                                     *)
Release(p) ==
    /\ p \in working => Blind \/ ~open
    /\ taken' = taken \ {p}
    /\ UNCHANGED <<working, open>>

(* The seat of somebody who worked is given back without a vacancy.        *)
Return(p) ==
    /\ p \in working /\ (Blind \/ ~open)
    /\ taken' = taken \cup {p}
    /\ UNCHANGED <<working, open>>

(* The shift is cancelled, for good.                                       *)
Close == open' = FALSE /\ UNCHANGED <<taken, working>>

Next ==
    \/ Close
    \/ \E p \in Staff : Take(p) \/ Work(p) \/ Release(p) \/ Return(p)

Spec == Init /\ [][Next]_vars

-----------------------------------------------------------------------------
(* The staff who have a seat and no recorded work yet fit in the shift,    *)
(* even when releases are blind: overbooking takes somebody who worked.    *)
WaitingFit == Cardinality(taken \ working) <= Required
=================================================================================
