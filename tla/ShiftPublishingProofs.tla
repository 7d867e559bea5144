------------------------- MODULE ShiftPublishingProofs -------------------------
(***************************************************************************)
(* The invariants of ShiftPublishing for every set of staff, sessions,     *)
(* times and counts.  They are inductive together with two facts: an edit  *)
(* in flight carries ordered times (EditsOrdered), and what a shift cannot *)
(* have yet in an early status is empty (EarlyIsEmpty).                    *)
(***************************************************************************)
EXTENDS ShiftPublishing, FiniteSetTheorems, TLAPS

(* Every edit in flight passed updateDraft's checks on the merged values.  *)
EditsOrdered ==
    \A m \in Sessions :
      tx[m].op = "edit" => TimeOrder(tx[m].row) /\ tx[m].row.required # 0

(* Before it exists a shift has no session; a draft has no selection, and  *)
(* before a decision no approval has sent anything.                        *)
EarlyIsEmpty ==
    /\ status = "none" => \A m \in Sessions : tx[m].op = "idle"
    /\ status \in {"none", "draft"} => requested = {}
    /\ status \in {"none", "draft", "pending_manager_approval"} => batch = {}

IInv == /\ TypeOK /\ ArchivedIsDraft /\ TimesOrdered /\ SelectionWithinRequired
        /\ ApprovedFromSelection /\ UnpublishedHasNoOffers
        /\ EditsOrdered /\ EarlyIsEmpty

-----------------------------------------------------------------------------
(* A selection is finite, and its size is a natural number.                *)
LEMMA SelectionSize ==
    ASSUME NEW S \in SUBSET Staff
    PROVE  IsFiniteSet(S) /\ Cardinality(S) \in Nat
  BY StaffAssumption, FS_Subset, FS_CardinalityType

(* How adding or removing one staff member changes the size of a           *)
(* selection, and that the empty one has size zero.                        *)
LEMMA SelectionSteps ==
    ASSUME NEW S \in SUBSET Staff, NEW p \in Staff
    PROVE  /\ p \notin S => Cardinality(S \cup {p}) = Cardinality(S) + 1
           /\ p \in S => Cardinality(S \ {p}) = Cardinality(S) - 1
           /\ Cardinality({}) = 0
  BY SelectionSize, FS_AddElement, FS_RemoveElement, FS_EmptySet

(* The edges of SHIFT_TRANSITIONS the publishing handlers test.            *)
LEMMA PublishingEdges ==
    ASSUME NEW a
    PROVE  /\ assertTransition(SHIFT_TRANSITIONS, a, "open")
                => a \in {"draft", "pending_manager_approval"}
           /\ assertTransition(SHIFT_TRANSITIONS, a, "cancelled") => a # "none"
  BY DEF assertTransition, SHIFT_TRANSITIONS

(* Inputs and the idle session are well-typed.                             *)
LEMMA Inputs ==
    /\ Input \subseteq Row
    /\ \A r \in Input : r.required # 0
    /\ NoRow \in Row
    /\ Idle \in Tx
  BY InputAssumption DEF Input, Row, NoRow, Idle, Tx

-----------------------------------------------------------------------------
LEMMA InitIInv == Init => IInv
  <1> SUFFICES ASSUME Init PROVE IInv
    OBVIOUS
  <1>1. TypeOK
    BY Inputs DEF Init, TypeOK, PublishingStatus
  <1>2. EditsOrdered /\ EarlyIsEmpty
    BY DEF Init, EditsOrdered, EarlyIsEmpty, Idle
  <1>3. QED
    BY <1>1, <1>2 DEF Init, IInv, ArchivedIsDraft, TimesOrdered,
       SelectionWithinRequired, ApprovedFromSelection, UnpublishedHasNoOffers

(* Creation.                                                               *)
LEMMA CreatingKeeps ==
    ASSUME IInv, Creating
    PROVE  IInv'
  <1> USE Inputs DEF IInv, TypeOK, ArchivedIsDraft, TimesOrdered, SelectionWithinRequired,
        ApprovedFromSelection, UnpublishedHasNoOffers, EditsOrdered, EarlyIsEmpty,
        PublishingStatus, SetStatus, TimeOrder, Row
  <1>0. Cardinality({}) = 0
    BY FS_EmptySet
  <1>1. ASSUME NEW r \in Input, CreateDraft(r) PROVE IInv'
    <2>1. row' \in Row /\ TimeOrder(row') /\ requested' = {} /\ batch' = {}
      BY <1>1 DEF CreateDraft
    <2>2. Cardinality(requested') <= row'.required
      BY <1>0, <2>1
    <2>3. QED
      BY <1>1, <2>1, <2>2 DEF CreateDraft
  <1>2. ASSUME NEW r \in Input, NEW S \in SUBSET Staff, NEW b \in BOOLEAN,
               SubmitRequest(r, S, b)
        PROVE  IInv'
    BY <1>2 DEF SubmitRequest
  <1>3. ASSUME NEW r \in Input, NEW S \in SUBSET Staff, NEW b \in BOOLEAN,
               CreateShiftAndSend(r, S, b)
        PROVE  IInv'
    <2>1. Cardinality(S) \in Nat \ {0}
      BY <1>3, SelectionSize, FS_EmptySet DEF CreateShiftAndSend
    <2>2. /\ row' \in Row /\ row'.required # 0 /\ TimeOrder(row')
          /\ requested' = {} /\ batch' = {}
      BY <1>3, <2>1 DEF CreateShiftAndSend
    <2>3. QED
      BY <1>0, <1>3, <2>2 DEF CreateShiftAndSend
  <1>4. QED
    BY <1>1, <1>2, <1>3 DEF Creating

(* Drafts, publication and cancellation.                                   *)
LEMMA DraftingKeeps ==
    ASSUME IInv, Drafting
    PROVE  IInv'
  <1> USE Inputs, PublishingEdges DEF IInv, TypeOK, ArchivedIsDraft, TimesOrdered,
        SelectionWithinRequired, ApprovedFromSelection, UnpublishedHasNoOffers,
        EditsOrdered, EarlyIsEmpty, PublishingStatus, SetStatus
  <1>1. ASSUME ArchiveShift PROVE IInv'
    BY <1>1 DEF ArchiveShift
  <1>2. ASSUME RestoreShift PROVE IInv'
    BY <1>2 DEF RestoreShift
  <1>3. ASSUME Cancel PROVE IInv'
    BY <1>3 DEF Cancel
  <1>4. ASSUME NEW m \in Sessions, NEW r \in Input,
               NEW named \in SUBSET UPDATE_DRAFT_SHIFT_FIELDS,
               UpdateDraftRead(m, named, r)
        PROVE  IInv'
    <2>1. [op |-> "edit", named |-> named, row |-> r] \in Tx
      BY DEF Tx
    <2>2. EditsOrdered'
      <3> SUFFICES ASSUME NEW k \in Sessions, tx'[k].op = "edit"
                   PROVE  TimeOrder(tx'[k].row) /\ tx'[k].row.required # 0
        BY <1>4 DEF UpdateDraftRead
      <3>1. CASE k = m
        BY <1>4, <3>1 DEF UpdateDraftRead
      <3>2. CASE k # m
        BY <1>4, <3>2 DEF UpdateDraftRead
      <3>3. QED
        BY <3>1, <3>2
    <2>3. QED
      BY <1>4, <2>1, <2>2 DEF UpdateDraftRead
  <1>5. ASSUME NEW m \in Sessions, UpdateDraftCommit(m) PROVE IInv'
    <2>1. tx[m].row \in Row /\ TimeOrder(tx[m].row) /\ tx[m].row.required # 0
      BY <1>5 DEF UpdateDraftCommit, Tx
    <2>2. requested' = {} /\ row' = tx[m].row
      BY <1>5 DEF UpdateDraftCommit
    <2>3. Cardinality(requested') <= row'.required
      BY <2>1, <2>2, FS_EmptySet DEF Row
    <2>4. QED
      BY <1>5, <2>1, <2>3 DEF UpdateDraftCommit, Idle
  <1>6. ASSUME NEW m \in Sessions, PublishRead(m) PROVE IInv'
    <2>1. [Idle EXCEPT !.op = "publish"] \in Tx
      BY DEF Tx, Idle
    <2>2. [Idle EXCEPT !.op = "publish"].op = "publish"
      BY DEF Idle
    <2>3. QED
      BY <1>6, <2>1, <2>2 DEF PublishRead
  <1>7. ASSUME NEW m \in Sessions, PublishCommit(m) PROVE IInv'
    BY <1>7 DEF PublishCommit, Idle
  <1>8. ASSUME NEW m \in Sessions, Abort(m) PROVE IInv'
    BY <1>8 DEF Abort, Idle
  <1>9. QED
    BY <1>1, <1>2, <1>3, <1>4, <1>5, <1>6, <1>7, <1>8 DEF Drafting

(* Requests.                                                               *)
LEMMA RequestingKeeps ==
    ASSUME IInv, Requesting
    PROVE  IInv'
  <1> USE DEF IInv, TypeOK, ArchivedIsDraft, TimesOrdered, SelectionWithinRequired,
        ApprovedFromSelection, UnpublishedHasNoOffers, EditsOrdered, EarlyIsEmpty,
        PublishingStatus, SetStatus, Pending
  <1>1. ASSUME NEW p \in Staff, RemoveRequestedStaff(p) PROVE IInv'
    <2>1. Cardinality(requested') <= row.required
      BY <1>1, SelectionSize, SelectionSteps DEF RemoveRequestedStaff, Row
    <2>2. QED
      BY <1>1, <2>1 DEF RemoveRequestedStaff
  <1>2. ASSUME NEW p \in Staff, AddRequestedStaff(p) PROVE IInv'
    <2>1. Cardinality(requested') <= row.required
      BY <1>2, SelectionSize, SelectionSteps DEF AddRequestedStaff, Row
    <2>2. QED
      BY <1>2, <2>1 DEF AddRequestedStaff
  <1>3. ASSUME NEW seen \in SUBSET Staff, NEW S \in SUBSET Staff,
               SetRequestedStaff(seen, S)
        PROVE  IInv'
    BY <1>3 DEF SetRequestedStaff
  <1>4. ASSUME DeclineRequest PROVE IInv'
    BY <1>4 DEF DeclineRequest
  <1>5. ASSUME NEW S \in SUBSET Staff, ApproveShiftRequest(S) PROVE IInv'
    BY <1>5 DEF ApproveShiftRequest
  <1>6. QED
    BY <1>1, <1>2, <1>3, <1>4, <1>5 DEF Requesting

(* Offers: a window only widens the shift's.                               *)
LEMMA SendingKeeps ==
    ASSUME IInv, Sending
    PROVE  IInv'
  <1> USE DEF IInv, TypeOK, ArchivedIsDraft, TimesOrdered, SelectionWithinRequired,
        ApprovedFromSelection, UnpublishedHasNoOffers, EditsOrdered, EarlyIsEmpty,
        PublishingStatus, SetStatus
  <1>1. PICK S \in SUBSET Staff, from \in Times, to \in Times : Send(S, from, to)
    BY DEF Sending
  <1>2. /\ from \in Nat /\ to \in Nat
        /\ row.starts \in Nat /\ row.ends \in Nat /\ row.starts < row.ends
    BY <1>1, InputAssumption DEF Send, Row, TimeOrder
  <1>3. row' = [starts |-> MinOf(row.starts, from), ends |-> MaxOf(row.ends, to),
                required |-> row.required]
    BY <1>1 DEF Send, Row
  <1>4. row' \in Row /\ row'.required = row.required /\ TimeOrder(row')
    BY <1>2, <1>3 DEF Row, TimeOrder, MinOf, MaxOf
  <1>5. QED
    BY <1>1, <1>4 DEF Send

-----------------------------------------------------------------------------
(* The inductive invariant holds in every reachable state.                 *)
THEOREM Inductive == Spec => []IInv
  <1>1. IInv /\ [Next]_vars => IInv'
    <2> SUFFICES ASSUME IInv, [Next]_vars PROVE IInv'
      OBVIOUS
    <2>1. CASE UNCHANGED vars
      BY <2>1 DEF vars, IInv, TypeOK, ArchivedIsDraft, TimesOrdered,
         SelectionWithinRequired, ApprovedFromSelection, UnpublishedHasNoOffers,
         EditsOrdered, EarlyIsEmpty
    <2>2. QED
      BY <2>1, CreatingKeeps, DraftingKeeps, RequestingKeeps, SendingKeeps DEF Next
  <1>2. QED
    BY InitIInv, <1>1, PTL DEF Spec

(* Types are kept by every handler that drafts, requests or publishes.     *)
THEOREM PublishingTypes == Spec => []TypeOK
  BY Inductive, PTL DEF IInv

(* However publish, cancel, archive and restore interleave, only a draft   *)
(* is archived.                                                            *)
THEOREM OnlyDraftsArchived == Spec => []ArchivedIsDraft
  BY Inductive, PTL DEF IInv

(* However edits of one draft interleave, its end stays after its start.   *)
THEOREM EditsKeepOrder == Spec => []TimesOrdered
  BY Inductive, PTL DEF IInv

(* A request never selects more staff than it requires.                    *)
THEOREM SelectionBounded == Spec => []SelectionWithinRequired
  BY Inductive, PTL DEF IInv

(* An approval sends offers to the stored selection, which then stays.     *)
THEOREM ApprovalUsesSelection == Spec => []ApprovedFromSelection
  BY Inductive, PTL DEF IInv

(* No offer exists for a draft, a pending or a declined request.           *)
THEOREM NoEarlyOffers == Spec => []UnpublishedHasNoOffers
  BY Inductive, PTL DEF IInv
=============================================================================
