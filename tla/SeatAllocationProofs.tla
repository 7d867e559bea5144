-------------------------- MODULE SeatAllocationProofs --------------------------
(***************************************************************************)
(* What the seat allocator's promise is worth, for any staff and any       *)
(* number of seats.                                                        *)
(***************************************************************************)
EXTENDS SeatAllocation, FiniteSetTheorems, TLAPS

(* The seats that are taken can be counted.                                *)
Countable == IsFiniteSet(taken)

(* Adding an element to a finite set adds at most one to its size, and     *)
(* taking elements away adds nothing.                                      *)
LEMMA SizeOfStep ==
    ASSUME NEW S, IsFiniteSet(S), NEW p
    PROVE  /\ Cardinality(S) \in Nat
           /\ IsFiniteSet(S \cup {p}) /\ Cardinality(S \cup {p}) \in Nat
           /\ Cardinality(S \cup {p}) <= Cardinality(S) + 1
           /\ \A T \in SUBSET S :
                 /\ IsFiniteSet(T) /\ Cardinality(T) \in Nat
                 /\ Cardinality(T) <= Cardinality(S)
  <1>1. Cardinality(S) \in Nat
    BY FS_CardinalityType
  <1>2. /\ IsFiniteSet(S \cup {p}) /\ Cardinality(S \cup {p}) \in Nat
        /\ Cardinality(S \cup {p}) <= Cardinality(S) + 1
    BY <1>1, FS_AddElement, FS_CardinalityType
  <1>3. ASSUME NEW T \in SUBSET S
        PROVE  /\ IsFiniteSet(T) /\ Cardinality(T) \in Nat
               /\ Cardinality(T) <= Cardinality(S)
    BY FS_Subset, FS_CardinalityType
  <1>4. QED
    BY <1>1, <1>2, <1>3

(* Every step leaves finitely many seats taken.                            *)
LEMMA FiniteStep ==
    ASSUME Countable, [Next]_vars
    PROVE  Countable'
  <1> USE DEF Countable
  <1>1. ASSUME NEW p PROVE IsFiniteSet(taken \cup {p}) /\ IsFiniteSet(taken \ {p})
    BY SizeOfStep
  <1>2. QED
    BY <1>1 DEF Next, vars, Take, Work, Release, Return, Close

(* No step lets the staff who have a seat and no work outgrow the shift.   *)
LEMMA WaitingStep ==
    ASSUME Required \in Nat, IsFiniteSet(taken), WaitingFit, [Next]_vars
    PROVE  WaitingFit'
  <1> USE DEF WaitingFit
  <1>1. /\ IsFiniteSet(taken \ working) /\ Cardinality(taken \ working) \in Nat
        /\ Cardinality(taken \ working) <= Cardinality(taken)
        /\ Cardinality(taken) \in Nat
    BY SizeOfStep
  <1>2. ASSUME taken' \ working' \subseteq taken \ working
        PROVE  Cardinality(taken' \ working') <= Required
    <2>1. /\ Cardinality(taken' \ working') \in Nat
          /\ Cardinality(taken' \ working') <= Cardinality(taken \ working)
      BY <1>1, <1>2, SizeOfStep
    <2>2. QED
      BY <1>1, <2>1
  <1>3. ASSUME NEW p \in Staff, Take(p) PROVE WaitingFit'
    <2>1. taken' \ working' \subseteq taken \cup {p}
      BY <1>3 DEF Take
    <2>2. /\ Cardinality(taken' \ working') \in Nat
          /\ Cardinality(taken' \ working') <= Cardinality(taken \cup {p})
      BY <2>1, SizeOfStep
    <2>3. /\ Cardinality(taken \cup {p}) \in Nat
          /\ Cardinality(taken \cup {p}) <= Cardinality(taken) + 1
      BY SizeOfStep
    <2>4. QED
      BY <1>1, <1>3, <2>2, <2>3 DEF Take
  <1>4. ASSUME NEW p \in Staff, Work(p) \/ Release(p) \/ Return(p) PROVE WaitingFit'
    BY <1>2, <1>4 DEF Work, Release, Return
  <1>5. CASE Close \/ UNCHANGED vars
    BY <1>2, <1>5 DEF Close, vars
  <1>6. QED
    BY <1>3, <1>4, <1>5 DEF Next

-----------------------------------------------------------------------------
(* Finitely many seats are taken.                                          *)
THEOREM TakenFinite == Spec => []Countable
  <1>1. Init => Countable
    BY FS_EmptySet DEF Init, Countable
  <1>2. Countable /\ [Next]_vars => Countable'
    BY FiniteStep
  <1>3. QED
    BY <1>1, <1>2, PTL DEF Spec

(* Whoever has a seat and has not worked yet has one of the shift's own:   *)
(* a release that overlooks work (confirmNoShow on a stale join) can       *)
(* overbook a shift only with staff whose work was recorded.               *)
THEOREM WaitingAlwaysFit ==
    ASSUME Required \in Nat
    PROVE  Spec => []WaitingFit
  <1>1. Init => WaitingFit
    <2>1. Init => taken \ working = {}
      BY DEF Init
    <2>2. QED
      BY <2>1, FS_EmptySet DEF WaitingFit
  <1>2. Countable /\ WaitingFit /\ [Next]_vars => WaitingFit'
    BY WaitingStep DEF Countable
  <1>3. QED
    BY <1>1, <1>2, TakenFinite, PTL DEF Spec
=================================================================================
