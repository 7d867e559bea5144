---------------------------- MODULE ShiftPublishing ----------------------------
(***************************************************************************)
(* One shift of Crewflow before and while it is published: the draft that  *)
(* is edited, archived and published, the request that is submitted,       *)
(* edited, approved or declined, and the first offers.  What happens to an *)
(* offer afterwards is ShiftLifecycle's.                                   *)
(*                                                                         *)
(* As there, a handler that takes the shift row lock, or writes with a     *)
(* compare-and-set on all it has read, is one action.  publish and         *)
(* updateDraft act on what they read before their write; each is a Read    *)
(* and a Commit of a session, between which anything may commit, and Abort *)
(* is a session that is refused or dies.                                   *)
(*                                                                         *)
(* Eligibility, permissions beyond ownership, venue and job role, pay,     *)
(* breaks, notes, audit rows and notifications are left out.               *)
(***************************************************************************)
EXTENDS Integers, FiniteSets, Transitions

CONSTANTS
    Staff,      \* staff profiles that may be requested or offered the shift
    Sessions,   \* requests to publish or edit that may be in flight at once
    Times,      \* the instants a caller may name as a start or an end
    Counts      \* the values a caller may name as requiredCount

ASSUME StaffAssumption == IsFiniteSet(Staff)

ASSUME InputAssumption == Times \subseteq Nat /\ Counts \subseteq Nat \ {0}

VARIABLES
    status,     \* shift.status, "none": no row yet
    archived,   \* shift.archived_at is set
    managed,    \* shift.created_by is someone who may publish and send
    row,        \* shift.starts_at, ends_at and required_count
    requested,  \* shift_request_staff rows
    sent,       \* staff members with a seat and an offer
    batch,      \* the recipients of the offer batch an approval recorded
    tx          \* per session: its unlocked read

vars == <<status, archived, managed, row, requested, sent, batch, tx>>

-----------------------------------------------------------------------------
PublishingStatus == {"none", "draft", "pending_manager_approval", "declined",
                     "open", "offered", "cancelled"}

(* The schedule fields an edit may name; break and notes are left out, so  *)
(* an edit of only those names none of them.                               *)
UPDATE_DRAFT_SHIFT_FIELDS == {"starts", "ends", "required"}

Row   == [starts : Nat, ends : Nat, required : Nat]
Input == [starts : Times, ends : Times, required : Counts]
NoRow == [starts |-> 0, ends |-> 0, required |-> 0]

(* What a session holds: "edit" the values it is about to write and the    *)
(* fields its caller named, "publish" only that it has read the row.       *)
Tx   == [op : {"idle", "publish", "edit"},
         named : SUBSET UPDATE_DRAFT_SHIFT_FIELDS, row : Row]
Idle == [op |-> "idle", named |-> {}, row |-> NoRow]

(* The CHECK shift_time_order.                                             *)
TimeOrder(r) == r.starts < r.ends

MinOf(a, b) == IF a <= b THEN a ELSE b
MaxOf(a, b) == IF a >= b THEN a ELSE b

(* Mutant: no CHECK.                                                       *)
SetStatusUnchecked(to) == status' = to

(* A write of shift.status, which the CHECK shift_archived_draft_only_check*)
(* refuses for an archived shift.                                          *)
SetStatus(to) ==
    /\ archived => to = "draft"
    /\ status' = to

Init ==
    /\ status = "none" /\ archived = FALSE /\ managed = FALSE /\ row = NoRow
    /\ requested = {} /\ sent = {} /\ batch = {}
    /\ tx = [m \in Sessions |-> Idle]

-----------------------------------------------------------------------------
(* Creation                                                                *)

(* createDraftTx                                                           *)
CreateDraft(r) ==
    /\ status = "none" /\ TimeOrder(r)
    /\ SetStatus("draft") /\ managed' = TRUE /\ row' = r
    /\ UNCHANGED <<archived, requested, sent, batch, tx>>

(* submitRequest: between one and requiredCount staff members.  A Venue    *)
(* Manager may not publish; an Internal Manager, who may submit too, may.  *)
SubmitRequest(r, S, byInternal) ==
    /\ status = "none" /\ TimeOrder(r)
    /\ S # {} /\ Cardinality(S) <= r.required
    /\ SetStatus("pending_manager_approval") /\ managed' = byInternal
    /\ row' = r /\ requested' = S
    /\ UNCHANGED <<archived, sent, batch, tx>>

(* createShiftAndSend: a published shift with an offer to each member of S *)
(* that is eligible; an omitted requiredCount becomes their number.        *)
CreateShiftAndSend(r, S, omitted) ==
    /\ status = "none" /\ TimeOrder(r) /\ S # {}
    /\ SetStatus("offered") /\ managed' = TRUE
    /\ row' = [r EXCEPT !.required = IF omitted THEN Cardinality(S) ELSE @]
    /\ sent' = S
    /\ UNCHANGED <<archived, requested, batch, tx>>

-----------------------------------------------------------------------------
(* Drafts                                                                  *)

(* archiveShift and restoreShift, at their compare-and-set                 *)
ArchiveShift ==
    /\ status = "draft" /\ ~archived
    /\ archived' = TRUE
    /\ UNCHANGED <<status, managed, row, requested, sent, batch, tx>>

RestoreShift ==
    /\ archived
    /\ archived' = FALSE
    /\ UNCHANGED <<status, managed, row, requested, sent, batch, tx>>

(* getOwnDraftTx and the validation of the merged times: r has the caller's*)
(* value for each named field and the value read for every other.          *)
UpdateDraftRead(m, named, r) ==
    /\ tx[m] = Idle
    /\ status = "draft" /\ ~archived
    /\ \A f \in UPDATE_DRAFT_SHIFT_FIELDS \ named : r[f] = row[f]
    /\ TimeOrder(r)
    /\ tx' = [tx EXCEPT ![m] = [op |-> "edit", named |-> named, row |-> r]]
    /\ UNCHANGED <<status, archived, managed, row, requested, sent, batch>>

(* Mutant: the write sets the named fields only.                           *)
UpdateDraftCommitNamed(m) ==
    /\ tx[m].op = "edit"
    /\ status = "draft" /\ ~archived
    /\ row' = [f \in UPDATE_DRAFT_SHIFT_FIELDS |->
                 IF f \in tx[m].named THEN tx[m].row[f] ELSE row[f]]
    /\ tx' = [tx EXCEPT ![m] = Idle]
    /\ UNCHANGED <<status, archived, managed, requested, sent, batch>>

(* updateDraftTx: writes every field, if the shift is still an unarchived  *)
(* draft.                                                                  *)
UpdateDraftCommit(m) ==
    /\ tx[m].op = "edit"
    /\ status = "draft" /\ ~archived
    /\ row' = tx[m].row
    /\ tx' = [tx EXCEPT ![m] = Idle]
    /\ UNCHANGED <<status, archived, managed, requested, sent, batch>>

(* publish: the checks on the row it read, and the write by id alone.      *)
PublishRead(m) ==
    /\ tx[m] = Idle
    /\ managed /\ ~archived
    /\ assertTransition(SHIFT_TRANSITIONS, status, "open")
    /\ tx' = [tx EXCEPT ![m] = [Idle EXCEPT !.op = "publish"]]
    /\ UNCHANGED <<status, archived, managed, row, requested, sent, batch>>

PublishCommit(m) ==
    /\ tx[m].op = "publish"
    /\ SetStatus("open")
    /\ tx' = [tx EXCEPT ![m] = Idle]
    /\ UNCHANGED <<archived, managed, row, requested, sent, batch>>

Abort(m) ==
    /\ tx[m] # Idle
    /\ tx' = [tx EXCEPT ![m] = Idle]
    /\ UNCHANGED <<status, archived, managed, row, requested, sent, batch>>

(* cancel, at its compare-and-set on the status it read                    *)
Cancel ==
    /\ managed /\ assertTransition(SHIFT_TRANSITIONS, status, "cancelled")
    /\ SetStatus("cancelled")
    /\ UNCHANGED <<archived, managed, row, requested, sent, batch, tx>>

-----------------------------------------------------------------------------
(* Requests: every handler holds the shift row lock.                       *)

Pending == status = "pending_manager_approval"

(* Mutant: the status is not tested under the lock.                        *)
RemoveRequestedStaffAnyTime(p) ==
    /\ p \in requested
    /\ requested' = requested \ {p}
    /\ UNCHANGED <<status, archived, managed, row, sent, batch, tx>>

(* removeRequestedStaffTx                                                  *)
RemoveRequestedStaff(p) ==
    /\ Pending /\ p \in requested
    /\ requested' = requested \ {p}
    /\ UNCHANGED <<status, archived, managed, row, sent, batch, tx>>

(* Mutant: one too many.                                                   *)
AddRequestedStaffOneMore(p) ==
    /\ Pending /\ p \notin requested
    /\ Cardinality(requested) <= row.required
    /\ requested' = requested \cup {p}
    /\ UNCHANGED <<status, archived, managed, row, sent, batch, tx>>

(* addRequestedStaffTx                                                     *)
AddRequestedStaff(p) ==
    /\ Pending /\ p \notin requested
    /\ Cardinality(requested) < row.required
    /\ requested' = requested \cup {p}
    /\ UNCHANGED <<status, archived, managed, row, sent, batch, tx>>

(* setRequestedStaff: the selection the caller has seen must still be the  *)
(* selection; then everyone not in S is removed and the rest added.        *)
SetRequestedStaff(seen, S) ==
    /\ Pending /\ seen = requested
    /\ Cardinality(S) <= row.required
    /\ requested' = S
    /\ UNCHANGED <<status, archived, managed, row, sent, batch, tx>>

(* Mutant: decides an approved request again.                              *)
DeclineRequestAgain ==
    /\ status \in {"pending_manager_approval", "offered"}
    /\ SetStatus("declined")
    /\ UNCHANGED <<archived, managed, row, requested, sent, batch, tx>>

(* declineRequest                                                          *)
DeclineRequest ==
    /\ Pending /\ assertTransition(SHIFT_TRANSITIONS, status, "declined")
    /\ SetStatus("declined")
    /\ UNCHANGED <<archived, managed, row, requested, sent, batch, tx>>

(* approveShiftRequest: offers to the members S of the stored selection    *)
(* that pass sendOne, then open and offered in one commit; the approver    *)
(* becomes the owner.  The stored windows are within the shift's.          *)
ApproveShiftRequest(S) ==
    /\ Pending /\ assertTransition(SHIFT_TRANSITIONS, status, "open")
    /\ S # {} /\ S \subseteq requested \ sent
    /\ assertTransition(SHIFT_TRANSITIONS, "open", "offered")
    /\ SetStatus("offered") /\ managed' = TRUE
    /\ sent' = sent \cup S /\ batch' = S
    /\ UNCHANGED <<archived, row, requested, tx>>

-----------------------------------------------------------------------------
(* Offers                                                                  *)

(* send, sendBulk on a published shift: an offer to each member of S for   *)
(* its own window, which may widen the shift's (assignmentEnvelope).       *)
Send(S, from, to) ==
    /\ managed /\ status \in {"open", "offered"}
    /\ S # {} /\ S \cap sent = {} /\ from < to
    /\ IF status = "open" THEN SetStatus("offered") ELSE UNCHANGED status
    /\ sent' = sent \cup S
    /\ row' = [row EXCEPT !.starts = MinOf(@, from), !.ends = MaxOf(@, to)]
    /\ UNCHANGED <<archived, managed, requested, batch, tx>>

-----------------------------------------------------------------------------
Creating ==
    \E r \in Input :
      \/ CreateDraft(r)
      \/ \E S \in SUBSET Staff, b \in BOOLEAN :
           SubmitRequest(r, S, b) \/ CreateShiftAndSend(r, S, b)

Drafting ==
    \/ ArchiveShift
    \/ RestoreShift
    \/ Cancel
    \/ \E m \in Sessions :
         \/ \E named \in SUBSET UPDATE_DRAFT_SHIFT_FIELDS, r \in Input :
              UpdateDraftRead(m, named, r)
         \/ UpdateDraftCommit(m)
         \/ PublishRead(m)
         \/ PublishCommit(m)
         \/ Abort(m)

Requesting ==
    \/ \E p \in Staff : RemoveRequestedStaff(p) \/ AddRequestedStaff(p)
    \/ \E seen, S \in SUBSET Staff : SetRequestedStaff(seen, S)
    \/ DeclineRequest
    \/ \E S \in SUBSET Staff : ApproveShiftRequest(S)

Sending == \E S \in SUBSET Staff, from, to \in Times : Send(S, from, to)

Next == Creating \/ Drafting \/ Requesting \/ Sending

Spec == Init /\ [][Next]_vars

-----------------------------------------------------------------------------
(* Every variable has its type, and a shift that exists asks for at least  *)
(* one staff member, also when createShiftAndSend counts its recipients.   *)
TypeOK ==
    /\ status \in PublishingStatus /\ archived \in BOOLEAN /\ managed \in BOOLEAN
    /\ row \in Row /\ (status # "none" => row.required # 0)
    /\ requested \subseteq Staff /\ sent \subseteq Staff /\ batch \subseteq Staff
    /\ tx \in [Sessions -> Tx]

(* Only a draft is archived, however publish, cancel, archiveShift and     *)
(* restoreShift interleave: publish tests archived_at before its write.    *)
ArchivedIsDraft == archived => status = "draft"

(* A shift that exists ends after it starts.  updateDraft checks the order *)
(* on the times it merged with an unlocked read, so two edits of different *)
(* ends of the shift must not combine into one that breaks it.             *)
TimesOrdered == status # "none" => TimeOrder(row)

(* A request never selects more staff than it asks for, whichever of       *)
(* submitRequest, addRequestedStaff and setRequestedStaff selected them.   *)
SelectionWithinRequired == status # "none" => Cardinality(requested) <= row.required

(* Everyone an approval sent an offer to is still on the request's stored  *)
(* selection: nobody removed from it is offered the shift, and nobody is   *)
(* removed once offered.                                                   *)
ApprovedFromSelection == batch \subseteq requested

(* Nobody has an offer for a draft, a pending or a declined request.       *)
UnpublishedHasNoOffers ==
    status \in {"none", "draft", "pending_manager_approval", "declined"} => sent = {}

(* What cancel claims of its compare-and-set: a race with any other change *)
(* of the status is detected, so that no committed cancellation is lost.   *)
(* The code breaks this: publish writes OPEN on the status it read before. *)
CancelledIsFinal == [][status = "cancelled" => status' = "cancelled"]_vars
=============================================================================
