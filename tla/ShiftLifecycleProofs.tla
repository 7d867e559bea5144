------------------------- MODULE ShiftLifecycleProofs -------------------------
(***************************************************************************)
(* The safety of ShiftLifecycle for every number of staff and seats, every *)
(* time constant and every number of transactions in flight.               *)
(***************************************************************************)
EXTENDS ShiftLifecycle, FiniteSetTheorems, TLAPS

(* Only a finalised report approves attendance.                            *)
ApprovedIsFinal ==
    \A p \in Staff : att[p] = "approved" => report = "finalised"

(* Attendance that may be approved has a clock-out time, and no other row  *)
(* has one.                                                                *)
ClosedHasTime ==
    \A p \in Staff : /\ att[p] \in {"clocked_out", "under_review"} => out[p]
                     /\ out[p] => att[p] # "none"

(* Only a booked seat has attendance; with stale locking reads a no-show   *)
(* may have it as well.                                                    *)
AttendanceBooked ==
    \A p \in Staff : att[p] # "none" =>
        \/ Booked(seat[p])
        \/ seat[p] = "no_show" /\ StaleLockReads
        \/ seat[p] = "cancelled" /\ shift = "cancelled" /\ offer[p] = "manager_confirmed"

(* What was reviewed is a no-show, or work that was not in progress: a     *)
(* seat whose attendance is still to come, or still open, is unreviewed.   *)
ReviewedHasWork ==
    \A p \in Staff : reviewed[p] =>
        seat[p] = "no_show" \/ att[p] \notin {"none", "clocked_in"}

(* What a transaction in flight may still rely on when it commits.         *)
TxSound ==
    \A t \in tx :
        /\ t.op = "followup" =>
              /\ shift = "cancelled"
              /\ seat[t.p] # "none"
              /\ t.offer = "pending" => t.seat = "offered"
              /\ t.offer = "staff_accepted" => t.seat = "staff_accepted"
              /\ offer[t.p] = "pending" => t.offer = "pending"
              /\ t.seat = "staff_accepted" => t.offer = "staff_accepted"
              /\ t.seat \in OPEN_SEAT_STATUSES
        /\ t.op = "flagMissing" => att[t.p] # "none"

(* No seat starts before its shift, nobody is a no-show before then, and   *)
(* no shift runs before its clock-in opens.                                *)
SeatsTimely ==
    /\ \A p \in Staff : /\ StartsAt <= starts[p]
                        /\ seat[p] = "no_show" => StartsAt <= now
    /\ shift = "in_progress" => StartsAt - EarlyLead <= now

(* Until the shift starts filled_count covers every occupied seat, so the  *)
(* last booking to be cancelled is the one that takes it to zero.          *)
BookingsCounted ==
    now < StartsAt /\ shift # "cancelled" => Cardinality(Occupied) <= filled

(* A shift without a fill status has no booking.                           *)
UnfilledHasNoBooking ==
    shift \in {"open", "offered"} => \A p \in Staff : seat[p] # "confirmed"

(* The inductive invariant: the statuses of offers, seats, attendance and  *)
(* payroll; the seats; and how many of them are taken.                     *)
StatusInv ==
    /\ OfferSeatAgree
    /\ CompletedShiftSettled
    /\ AttendanceBooked
    /\ PaidWorkReviewed
    /\ ApprovedIsFinal
    /\ ClosedHasTime
    /\ ReviewedHasWork
    /\ TxSound

SeatInv ==
    /\ FillStatusAgrees
    /\ SeatsTimely
    /\ UnfilledHasNoBooking
    /\ filled <= Required

IInv ==
    /\ TypeOK /\ StatusInv /\ SeatInv /\ BookingsCounted

-----------------------------------------------------------------------------
(* The status tables as the provers need them: their domains and edges.    *)

(* The statuses each table knows.                                          *)
LEMMA Statuses ==
    /\ ShiftStatus = {"open", "offered", "partially_filled", "fully_filled",
                      "in_progress", "completed", "cancelled"}
    /\ SeatStatus = {"offered", "staff_accepted", "confirmed", "no_show",
                     "declined", "rejected", "withdrawn", "cancelled",
                     "completed", "none"}
    /\ OfferStatus = {"pending", "staff_accepted", "manager_confirmed",
                      "manager_rejected", "declined", "expired", "withdrawn",
                      "none"}
    /\ AttStatus = {"clocked_in", "clocked_out", "missing_clock_out",
                    "under_review", "approved", "none"}
  BY DEF ShiftStatus, SeatStatus, OfferStatus, AttStatus, SHIFT_TRANSITIONS,
         SHIFT_ASSIGNMENT_TRANSITIONS, OFFER_TRANSITIONS, ATTENDANCE_TRANSITIONS

(* The edges of the shift table.                                           *)
LEMMA ShiftEdges ==
    ASSUME NEW a, NEW b
    PROVE  assertTransition(SHIFT_TRANSITIONS, a, b) <=>
             \/ a = "draft" /\ b \in {"open", "cancelled"}
             \/ a = "pending_manager_approval" /\ b \in {"open", "declined"}
             \/ a = "open" /\ b \in {"offered", "cancelled"}
             \/ a = "offered" /\ b \in {"partially_filled", "fully_filled", "cancelled"}
             \/ a = "partially_filled"
                  /\ b \in {"offered", "fully_filled", "in_progress", "cancelled"}
             \/ a = "fully_filled"
                  /\ b \in {"offered", "partially_filled", "in_progress", "cancelled"}
             \/ a = "in_progress" /\ b \in {"completed", "cancelled"}
  BY DEF assertTransition, SHIFT_TRANSITIONS

(* The edges of the offer table.                                           *)
LEMMA OfferEdges ==
    ASSUME NEW a, NEW b
    PROVE  assertTransition(OFFER_TRANSITIONS, a, b) <=>
             \/ a = "pending" /\ b \in {"staff_accepted", "declined", "expired", "withdrawn"}
             \/ a = "staff_accepted" /\ b \in {"manager_confirmed", "manager_rejected"}
  BY DEF assertTransition, OFFER_TRANSITIONS

(* The edges of the seat table.                                            *)
LEMMA SeatEdges ==
    ASSUME NEW a, NEW b
    PROVE  assertTransition(SHIFT_ASSIGNMENT_TRANSITIONS, a, b) <=>
             \/ a = "offered" /\ b \in {"staff_accepted", "declined", "withdrawn", "cancelled"}
             \/ a = "staff_accepted" /\ b \in {"confirmed", "rejected", "cancelled"}
             \/ a = "confirmed" /\ b \in {"cancelled", "no_show", "completed"}
             \/ a = "no_show" /\ b = "completed"
  BY DEF assertTransition, SHIFT_ASSIGNMENT_TRANSITIONS

(* The edges of the attendance table.                                      *)
LEMMA AttendanceEdges ==
    ASSUME NEW a, NEW b
    PROVE  assertTransition(ATTENDANCE_TRANSITIONS, a, b) <=>
             \/ a = "clocked_in" /\ b \in {"clocked_out", "missing_clock_out"}
             \/ a = "clocked_out" /\ b \in {"under_review", "approved"}
             \/ a = "missing_clock_out" /\ b = "clocked_out"
             \/ a = "under_review" /\ b = "approved"
  BY DEF assertTransition, ATTENDANCE_TRANSITIONS

(* An approved, or a missing, attendance cannot be approved.               *)
LEMMA ApprovableStatuses ==
    ASSUME NEW a
    PROVE  assertTransition(ATTENDANCE_TRANSITIONS, a, "approved") =>
             a \in {"clocked_out", "under_review"}
  BY DEF assertTransition, ATTENDANCE_TRANSITIONS


-----------------------------------------------------------------------------
(* Facts about the helpers.                                                *)

(* Every way to send offers is sendOne on a shift that is still staffed.   *)
LEMMA SendingIsSendOne ==
    ASSUME TypeOK, Sending
    PROVE  \E S \in SUBSET Staff, k \in OfferKind, from \in Nat, ttl \in Nat :
              /\ sendOne(S, k, from, ttl) /\ StartsAt <= from
              /\ shift \notin {"cancelled", "completed"}
  <1>1. /\ StartsAt \in Nat /\ Lifetimes \subseteq Nat
        /\ MaxOf(StartsAt, now) \in Nat /\ StartsAt <= MaxOf(StartsAt, now)
        /\ StartsAt <= StartsAt
        /\ \A from \in Starts : from \in Nat /\ StartsAt <= from
    BY TimeAssumption DEF TypeOK, MaxOf
  <1>2. PICK ttl \in Lifetimes :
            \/ \E S \in SUBSET Staff :
                  \/ \E from \in Starts : Send(S, from, ttl)
                  \/ PipelineReplace(S, ttl)
                  \/ SendReplacement(S, ttl)
            \/ \E p \in Staff : ApproveReplacement(p, ttl)
    BY DEF Sending
  <1>3. ASSUME NEW S \in SUBSET Staff, NEW from \in Starts, Send(S, from, ttl)
        PROVE  sendOne(S, "standard", from, ttl) /\ shift \notin {"cancelled", "completed"}
    BY <1>3 DEF Send
  <1>4. ASSUME NEW S \in SUBSET Staff, PipelineReplace(S, ttl)
        PROVE  sendOne(S, "standard", StartsAt, ttl) /\ shift \notin {"cancelled", "completed"}
    BY <1>4 DEF PipelineReplace
  <1>5. ASSUME NEW S \in SUBSET Staff, SendReplacement(S, ttl)
        PROVE  \E k \in OfferKind : sendOne(S, k, MaxOf(StartsAt, now), ttl)
                                      /\ shift \notin {"cancelled", "completed"}
    BY <1>5 DEF SendReplacement, OfferKind
  <1>6. ASSUME NEW p \in Staff, ApproveReplacement(p, ttl)
        PROVE  /\ sendOne({p}, "standard", StartsAt, ttl)
               /\ shift \notin {"cancelled", "completed"}
    BY <1>6 DEF ApproveReplacement
  <1>7. "standard" \in OfferKind
    BY DEF OfferKind
  <1>8. QED
    BY <1>1, <1>2, <1>3, <1>4, <1>5, <1>6, <1>7

(* Occupied and ConfirmedNoShows are finite, so the counts are numbers.    *)
LEMMA Counts ==
    ASSUME TypeOK
    PROVE  /\ IsFiniteSet(Occupied) /\ Cardinality(Occupied) \in Nat
           /\ Cardinality(ConfirmedNoShows) \in Nat
           /\ EffectiveFilled \in Nat /\ Cardinality(Occupied) <= EffectiveFilled
  <1>1. IsFiniteSet(Occupied) /\ IsFiniteSet(ConfirmedNoShows)
    BY StaffAssumption, FS_Subset DEF Occupied, ConfirmedNoShows
  <1>2. Cardinality(Occupied) \in Nat /\ Cardinality(ConfirmedNoShows) \in Nat
    BY <1>1, FS_CardinalityType
  <1>3. QED
    BY <1>1, <1>2 DEF TypeOK, EffectiveFilled, MaxOf

(* Every step keeps the variables in their types.                          *)
LEMMA TypePreserved ==
    ASSUME TypeOK, [Next]_vars
    PROVE  TypeOK'
  <1> USE Statuses, TimeAssumption DEF TypeOK, TxOps, Tx, offerVars, workVars
  <1>1. ASSUME NEW S \in SUBSET Staff, NEW k \in OfferKind, NEW from \in Nat,
               NEW ttl \in Nat, sendOne(S, k, from, ttl), StartsAt <= from,
               shift \notin {"cancelled", "completed"}
        PROVE  TypeOK'
    BY <1>1 DEF sendOne
  <1>2. ASSUME NEW p \in Staff, StaffAccept(p) PROVE TypeOK'
    BY <1>2 DEF StaffAccept, moveOffer
  <1>3. ASSUME NEW p \in Staff, ExpireOffer(p) PROVE TypeOK'
    BY <1>3 DEF ExpireOffer
  <1>4. ASSUME NEW p \in Staff, Decline(p) PROVE TypeOK'
    BY <1>4 DEF Decline, moveOffer, completeShiftIfSettled
  <1>5. ASSUME NEW p \in Staff, Withdraw(p) PROVE TypeOK'
    BY <1>5 DEF Withdraw, moveOffer, completeShiftIfSettled
  <1>6. ASSUME NEW p \in Staff, ManagerReject(p) PROVE TypeOK'
    BY <1>6 DEF ManagerReject, moveOffer, completeShiftIfSettled
  <1>7. ASSUME NEW p \in Staff, WithdrawUnconfirmed(p) PROVE TypeOK'
    BY <1>7 DEF WithdrawUnconfirmed, moveOffer, completeShiftIfSettled
  <1>8. ASSUME NEW p \in Staff, Confirm(p) PROVE TypeOK'
    BY <1>8, Counts DEF Confirm, moveOffer, claimSeat
  <1>9. ASSUME NEW p \in Staff, CancelOffer(p) PROVE TypeOK'
    BY <1>9 DEF CancelOffer, moveOffer, Cancellable
  <1>10. ASSUME NEW p \in Staff, CancelBooking(p) PROVE TypeOK'
    BY <1>10 DEF CancelBooking, MaxOf
  <1>11. ASSUME NEW p \in Staff, CheckIn(p) PROVE TypeOK'
    BY <1>11 DEF CheckIn
  <1>12. ASSUME NEW p \in Staff, ClockIn(p) PROVE TypeOK'
    BY <1>12 DEF ClockIn, openAttendance
  <1>13. ASSUME NEW p \in Staff, ClockInOnBehalf(p) PROVE TypeOK'
    BY <1>13 DEF ClockInOnBehalf, openAttendance
  <1>14. ASSUME NEW p \in Staff, FlagNoShow(p) PROVE TypeOK'
    BY <1>14 DEF FlagNoShow
  <1>15. ASSUME NEW p \in Staff, CorrectTimes(p) PROVE TypeOK'
    BY <1>15 DEF CorrectTimes
  <1>16. ASSUME NEW p \in Staff, ReviewAttendance(p) PROVE TypeOK'
    BY <1>16 DEF ReviewAttendance, setReviewed
  <1>17. ASSUME NEW p \in Staff, ReopenNoShow(p) PROVE TypeOK'
    BY <1>17 DEF ReopenNoShow, setReviewed
  <1>18. ASSUME CancelShift PROVE TypeOK'
    BY <1>18, ShiftEdges DEF CancelShift
  <1>19. ASSUME NEW op \in TxOps, NEW p \in Staff, begin(op, p),
               op = "followup" => shift = "cancelled" /\ seat[p] \in OPEN_SEAT_STATUSES,
               op = "flagMissing" => att[p] = "clocked_in"
        PROVE  TypeOK'
    BY <1>19 DEF begin
  <1>20. ASSUME NEW t \in tx, FollowupCommit(t) PROVE TypeOK'
    BY <1>20 DEF FollowupCommit, end
  <1>21. ASSUME NEW t \in tx, ClockOutCommit(t) PROVE TypeOK'
    BY <1>21 DEF ClockOutCommit, end, completeShiftIfSettled
  <1>22. ASSUME NEW t \in tx, FlagMissingCommit(t) PROVE TypeOK'
    BY <1>22 DEF FlagMissingCommit, end
  <1>23. ASSUME NEW t \in tx, RecordCommit(t) PROVE TypeOK'
    BY <1>23 DEF RecordCommit, end, completeShiftIfSettled
  <1>24. ASSUME NEW t \in tx, ConfirmNoShowCommit(t) PROVE TypeOK'
    BY <1>24 DEF ConfirmNoShowCommit, end, setReviewed
  <1>25. ASSUME NEW t \in tx, Abort(t) PROVE TypeOK'
    BY <1>25 DEF Abort
  <1>26. ASSUME Finalise PROVE TypeOK'
    BY <1>26 DEF Finalise
  <1>27. ASSUME Tick PROVE TypeOK'
    BY <1>27 DEF Tick
  <1>28. ASSUME UNCHANGED vars PROVE TypeOK'
    BY <1>28 DEF vars
  <1>29. CASE Reading
    BY <1>19, <1>29 DEF Reading, FollowupRead, ClockOutRead, FlagMissingRead,
       RecordRead, ConfirmNoShowRead, TxOps
  <1>30. QED
    BY SendingIsSendOne, <1>1, <1>2, <1>3, <1>4, <1>5, <1>6, <1>7, <1>8,
       <1>9, <1>10, <1>11, <1>12, <1>13, <1>14, <1>15, <1>16, <1>17,
       <1>18, <1>19, <1>20, <1>21, <1>22, <1>23, <1>24, <1>25, <1>26,
       <1>27, <1>28, <1>29
    DEF Next, Answering, Working, Committing

(* Every step keeps offers, seats, attendance and payroll in agreement and *)
(* transactions in flight sound, and is legal.                             *)
LEMMA StatusesPreserved ==
    ASSUME IInv, [Next]_vars
    PROVE  StatusInv' /\ StepLegal
  <1> USE Statuses, ShiftEdges, OfferEdges, SeatEdges, AttendanceEdges
      DEF IInv, StatusInv, TypeOK, OfferSeatAgree, CompletedShiftSettled,
          AttendanceBooked, Booked, PaidWorkReviewed, ReportSeats,
          ApprovedIsFinal, ClosedHasTime, ReviewedHasWork, TxSound, StepLegal,
          OPEN_SEAT_STATUSES, Tx, offerVars, workVars
  <1>1. ASSUME NEW S \in SUBSET Staff, NEW k \in OfferKind, NEW from \in Nat,
               NEW ttl \in Nat, sendOne(S, k, from, ttl), StartsAt <= from,
               shift \notin {"cancelled", "completed"}
        PROVE  StatusInv' /\ StepLegal
    BY <1>1 DEF sendOne
  <1>2. ASSUME NEW p \in Staff, StaffAccept(p) PROVE StatusInv' /\ StepLegal
    BY <1>2 DEF StaffAccept, moveOffer
  <1>3. ASSUME NEW p \in Staff, ExpireOffer(p) PROVE StatusInv' /\ StepLegal
    BY <1>3 DEF ExpireOffer
  <1>4. ASSUME NEW p \in Staff, Decline(p) PROVE StatusInv' /\ StepLegal
    BY <1>4 DEF Decline, moveOffer, completeShiftIfSettled
  <1>5. ASSUME NEW p \in Staff, Withdraw(p) PROVE StatusInv' /\ StepLegal
    BY <1>5 DEF Withdraw, moveOffer, completeShiftIfSettled
  <1>6. ASSUME NEW p \in Staff, ManagerReject(p) PROVE StatusInv' /\ StepLegal
    BY <1>6 DEF ManagerReject, moveOffer, completeShiftIfSettled
  <1>7. ASSUME NEW p \in Staff, WithdrawUnconfirmed(p) PROVE StatusInv' /\ StepLegal
    BY <1>7 DEF WithdrawUnconfirmed, moveOffer, completeShiftIfSettled
  <1>8. ASSUME NEW p \in Staff, Confirm(p) PROVE StatusInv' /\ StepLegal
    BY <1>8 DEF Confirm, moveOffer, claimSeat
  <1>9. ASSUME NEW p \in Staff, CancelOffer(p) PROVE StatusInv' /\ StepLegal
    BY <1>9, TimeAssumption DEF CancelOffer, moveOffer, Cancellable, SeatInv, SeatsTimely
  <1>10. ASSUME NEW p \in Staff, CancelBooking(p) PROVE StatusInv' /\ StepLegal
    BY <1>10 DEF CancelBooking, Cancellable
  <1>11. ASSUME NEW p \in Staff, CheckIn(p) PROVE StatusInv' /\ StepLegal
    BY <1>11 DEF CheckIn
  <1>12. ASSUME NEW p \in Staff, ClockIn(p) PROVE StatusInv' /\ StepLegal
    BY <1>12 DEF ClockIn, openAttendance
  <1>13. ASSUME NEW p \in Staff, ClockInOnBehalf(p) PROVE StatusInv' /\ StepLegal
    BY <1>13 DEF ClockInOnBehalf, openAttendance
  <1>14. ASSUME NEW p \in Staff, FlagNoShow(p) PROVE StatusInv' /\ StepLegal
    BY <1>14 DEF FlagNoShow
  <1>15. ASSUME NEW p \in Staff, CorrectTimes(p) PROVE StatusInv' /\ StepLegal
    BY <1>15 DEF CorrectTimes, Correctable
  <1>16. ASSUME NEW p \in Staff, ReviewAttendance(p) PROVE StatusInv' /\ StepLegal
    BY <1>16 DEF ReviewAttendance, setReviewed
  <1>17. ASSUME NEW p \in Staff, ReopenNoShow(p) PROVE StatusInv' /\ StepLegal
    BY <1>17 DEF ReopenNoShow, setReviewed
  <1>18. ASSUME CancelShift PROVE StatusInv' /\ StepLegal
    BY <1>18, ShiftEdges DEF CancelShift
  <1>19. ASSUME NEW op \in TxOps, NEW p \in Staff, begin(op, p),
               op = "followup" => shift = "cancelled" /\ seat[p] \in OPEN_SEAT_STATUSES,
               op = "flagMissing" => att[p] = "clocked_in"
        PROVE  StatusInv' /\ StepLegal
    BY <1>19 DEF begin
  <1>20. ASSUME NEW t \in tx, FollowupCommit(t) PROVE StatusInv' /\ StepLegal
    BY <1>20 DEF FollowupCommit, end
  <1>21. ASSUME NEW t \in tx, ClockOutCommit(t) PROVE StatusInv' /\ StepLegal
    BY <1>21 DEF ClockOutCommit, end, completeShiftIfSettled
  <1>22. ASSUME NEW t \in tx, FlagMissingCommit(t) PROVE StatusInv' /\ StepLegal
    BY <1>22 DEF FlagMissingCommit, end
  <1>23. ASSUME NEW t \in tx, RecordCommit(t) PROVE StatusInv' /\ StepLegal
    BY <1>23 DEF RecordCommit, end, completeShiftIfSettled
  <1>24. ASSUME NEW t \in tx, ConfirmNoShowCommit(t) PROVE StatusInv' /\ StepLegal
    BY <1>24 DEF ConfirmNoShowCommit, end, setReviewed
  <1>25. ASSUME NEW t \in tx, Abort(t) PROVE StatusInv' /\ StepLegal
    BY <1>25 DEF Abort
  <1>26. ASSUME Finalise PROVE StatusInv' /\ StepLegal
    <2>1. \A p \in Staff : /\ att[p] # "none" <=> att'[p] # "none"
                           /\ att'[p] = "approved" => p \in ReportSeats
      BY <1>26 DEF Finalise, ReportSeats
    <2>2. AttendanceBooked'
      BY <1>26, <2>1 DEF Finalise
    <2>3. \A p \in ReportSeats : reviewed[p] /\ (att[p] # "none" => out[p])
      BY <1>26, ApprovableStatuses DEF Finalise, ReportSeats
    <2>4. PaidWorkReviewed'
      BY <1>26, <2>1, <2>3 DEF Finalise
    <2>5. OfferSeatAgree' /\ CompletedShiftSettled' /\ StepLegal
      BY <1>26 DEF Finalise
    <2>6. ApprovedIsFinal' /\ ClosedHasTime' /\ ReviewedHasWork'
      BY <1>26 DEF Finalise
    <2>7. TxSound'
      BY <1>26, <2>1 DEF Finalise
    <2>8. QED
      BY <2>2, <2>4, <2>5, <2>6, <2>7 DEF StatusInv
  <1>27. ASSUME Tick PROVE StatusInv' /\ StepLegal
    BY <1>27 DEF Tick
  <1>28. ASSUME UNCHANGED vars PROVE StatusInv' /\ StepLegal
    BY <1>28 DEF vars
  <1>29. CASE Reading
    BY <1>19, <1>29 DEF Reading, FollowupRead, ClockOutRead, FlagMissingRead,
       RecordRead, ConfirmNoShowRead, TxOps
  <1>30. QED
    BY SendingIsSendOne, <1>1, <1>2, <1>3, <1>4, <1>5, <1>6, <1>7, <1>8,
       <1>9, <1>10, <1>11, <1>12, <1>13, <1>14, <1>15, <1>16, <1>17,
       <1>18, <1>19, <1>20, <1>21, <1>22, <1>23, <1>24, <1>25, <1>26,
       <1>27, <1>28, <1>29
    DEF Next, Answering, Working, Committing, IInv

(* Every step keeps attendance on its booked seat, as WorkKeepsSeat says.  *)
LEMMA WorkKept ==
    ASSUME IInv, [Next]_vars
    PROVE  \A p \in Staff : WorkKeepsSeat(p)
  <1> DEFINE W == \A p \in Staff : WorkKeepsSeat(p)
  <1> USE Statuses DEF IInv, StatusInv, TypeOK, OfferSeatAgree, AttendanceBooked,
          Booked, WorkKeepsSeat, TxSound, OPEN_SEAT_STATUSES, Tx, offerVars, workVars
  <1>1. ASSUME NEW S \in SUBSET Staff, NEW k \in OfferKind, NEW from \in Nat,
               NEW ttl \in Nat, sendOne(S, k, from, ttl), StartsAt <= from,
               shift \notin {"cancelled", "completed"}
        PROVE  W
    BY <1>1 DEF sendOne
  <1>2. ASSUME NEW p \in Staff, StaffAccept(p) PROVE W
    BY <1>2 DEF StaffAccept, moveOffer
  <1>3. ASSUME NEW p \in Staff, ExpireOffer(p) PROVE W
    BY <1>3 DEF ExpireOffer
  <1>4. ASSUME NEW p \in Staff, Decline(p) PROVE W
    BY <1>4 DEF Decline, moveOffer, completeShiftIfSettled
  <1>5. ASSUME NEW p \in Staff, Withdraw(p) PROVE W
    BY <1>5 DEF Withdraw, moveOffer, completeShiftIfSettled
  <1>6. ASSUME NEW p \in Staff, ManagerReject(p) PROVE W
    BY <1>6 DEF ManagerReject, moveOffer, completeShiftIfSettled
  <1>7. ASSUME NEW p \in Staff, WithdrawUnconfirmed(p) PROVE W
    BY <1>7 DEF WithdrawUnconfirmed, moveOffer, completeShiftIfSettled
  <1>8. ASSUME NEW p \in Staff, Confirm(p) PROVE W
    BY <1>8 DEF Confirm, moveOffer, claimSeat
  <1>9. ASSUME NEW p \in Staff, CancelOffer(p) PROVE W
    BY <1>9 DEF CancelOffer, moveOffer, Cancellable
  <1>10. ASSUME NEW p \in Staff, CancelBooking(p) PROVE W
    BY <1>10 DEF CancelBooking, Cancellable
  <1>11. ASSUME NEW p \in Staff, CheckIn(p) PROVE W
    BY <1>11 DEF CheckIn
  <1>12. ASSUME NEW p \in Staff, ClockIn(p) PROVE W
    BY <1>12 DEF ClockIn, openAttendance
  <1>13. ASSUME NEW p \in Staff, ClockInOnBehalf(p) PROVE W
    BY <1>13 DEF ClockInOnBehalf, openAttendance
  <1>14. ASSUME NEW p \in Staff, FlagNoShow(p) PROVE W
    BY <1>14 DEF FlagNoShow
  <1>15. ASSUME NEW p \in Staff, CorrectTimes(p) PROVE W
    BY <1>15 DEF CorrectTimes, Correctable
  <1>16. ASSUME NEW p \in Staff, ReviewAttendance(p) PROVE W
    BY <1>16 DEF ReviewAttendance, setReviewed
  <1>17. ASSUME NEW p \in Staff, ReopenNoShow(p) PROVE W
    BY <1>17 DEF ReopenNoShow, setReviewed
  <1>18. ASSUME CancelShift PROVE W
    BY <1>18 DEF CancelShift
  <1>19. ASSUME NEW op \in TxOps, NEW p \in Staff, begin(op, p),
               op = "followup" => shift = "cancelled" /\ seat[p] \in OPEN_SEAT_STATUSES,
               op = "flagMissing" => att[p] = "clocked_in"
        PROVE  W
    BY <1>19 DEF begin
  <1>20. ASSUME NEW t \in tx, FollowupCommit(t) PROVE W
    BY <1>20 DEF FollowupCommit, end
  <1>21. ASSUME NEW t \in tx, ClockOutCommit(t) PROVE W
    BY <1>21 DEF ClockOutCommit, end, completeShiftIfSettled
  <1>22. ASSUME NEW t \in tx, FlagMissingCommit(t) PROVE W
    BY <1>22 DEF FlagMissingCommit, end
  <1>23. ASSUME NEW t \in tx, RecordCommit(t) PROVE W
    BY <1>23 DEF RecordCommit, end, completeShiftIfSettled
  <1>24. ASSUME NEW t \in tx, ConfirmNoShowCommit(t) PROVE W
    BY <1>24 DEF ConfirmNoShowCommit, end, setReviewed
  <1>25. ASSUME NEW t \in tx, Abort(t) PROVE W
    BY <1>25 DEF Abort
  <1>26. ASSUME Finalise PROVE W
    BY <1>26 DEF Finalise
  <1>27. ASSUME Tick PROVE W
    BY <1>27 DEF Tick
  <1>28. ASSUME UNCHANGED vars PROVE W
    BY <1>28 DEF vars
  <1>29. CASE Reading
    BY <1>19, <1>29 DEF Reading, FollowupRead, ClockOutRead, FlagMissingRead,
       RecordRead, ConfirmNoShowRead, TxOps
  <1>30. QED
    BY SendingIsSendOne, <1>1, <1>2, <1>3, <1>4, <1>5, <1>6, <1>7, <1>8,
       <1>9, <1>10, <1>11, <1>12, <1>13, <1>14, <1>15, <1>16, <1>17,
       <1>18, <1>19, <1>20, <1>21, <1>22, <1>23, <1>24, <1>25, <1>26,
       <1>27, <1>28, <1>29
    DEF Next, Answering, Working, Committing, IInv

(* Somebody with attendance whose no-show was confirmed has a seat again.  *)
Returned ==
    StaleLockReads /\ \E p \in ConfirmedNoShows : att[p] # "none" /\ p \in Occupied'

(* How a step on a shift that is not cancelled moves the occupied seats    *)
(* and filled_count: one is returned, no more seats, one more that was     *)
(* vacant, or, before the start, a booking less.                           *)
SeatStep ==
    shift' # "cancelled" =>
        /\ shift # "cancelled"
        /\ \/ Returned
           \/ Occupied' \subseteq Occupied
           \/ /\ EffectiveFilled < Required
              /\ \E q \in Staff : Occupied' \subseteq Occupied \cup {q}
        /\ now' < StartsAt =>
              /\ now < StartsAt
              /\ \/ Occupied' \subseteq Occupied /\ filled' = filled
                 \/ \E q \in Staff : /\ Occupied' \subseteq Occupied \cup {q}
                                     /\ filled' = EffectiveFilled + 1
                 \/ \E q \in Occupied : /\ Occupied' = Occupied \ {q}
                                        /\ filled' = MaxOf(0, filled - 1)

(* Before the start, cancelling the booking that takes filled_count to     *)
(* zero leaves no confirmed seat.                                          *)
LEMMA LastBooking ==
    ASSUME IInv, NEW p \in Staff, CancelBooking(p), shift' = "offered"
    PROVE  \A q \in Staff : seat'[q] # "confirmed"
  <1>1. /\ now < StartsAt /\ shift # "cancelled" /\ filled <= 1 /\ p \in Occupied
        /\ seat' = [seat EXCEPT ![p] = "cancelled"]
    BY TimeAssumption DEF CancelBooking, Cancellable, MaxOf, IInv, TypeOK, Occupied
  <1>2. Cardinality(Occupied) <= 1
    BY <1>1, Counts DEF IInv, TypeOK, BookingsCounted
  <1>3. ASSUME NEW q \in Occupied PROVE q = p
    <2>1. /\ IsFiniteSet(Occupied \ {p})
          /\ Cardinality(Occupied \ {p}) = Cardinality(Occupied) - 1
      BY <1>1, Counts, FS_RemoveElement DEF IInv
    <2>2. Cardinality(Occupied \ {p}) = 0
      BY <1>2, <2>1, FS_CardinalityType, Counts DEF IInv
    <2>3. QED
      BY <2>1, <2>2, FS_EmptySet
  <1>4. QED
    BY <1>1, <1>3 DEF Occupied, IInv, TypeOK

(* Every step keeps the fill status, the timing and the bookings of the    *)
(* seats, and moves the occupied ones by SeatStep.                         *)
LEMMA SeatsPreserved ==
    ASSUME IInv, [Next]_vars
    PROVE  SeatInv' /\ SeatStep
  <1> USE Statuses, TimeAssumption, RequiredAssumption DEF IInv, SeatInv, StatusInv,
         TypeOK, SeatStep, Occupied, Returned, ConfirmedNoShows,
         FillStatusAgrees, SeatsTimely, UnfilledHasNoBooking,
         OfferSeatAgree, AttendanceBooked, Booked, TxSound,
         OPEN_SEAT_STATUSES, Tx,
         offerVars, workVars
  <1>1. ASSUME NEW S \in SUBSET Staff, NEW k \in OfferKind, NEW from \in Nat,
               NEW ttl \in Nat, sendOne(S, k, from, ttl), StartsAt <= from,
               shift \notin {"cancelled", "completed"}
        PROVE  SeatInv' /\ SeatStep
    BY <1>1 DEF sendOne
  <1>2. ASSUME NEW p \in Staff, StaffAccept(p) PROVE SeatInv' /\ SeatStep
    BY <1>2 DEF StaffAccept, moveOffer
  <1>3. ASSUME NEW p \in Staff, ExpireOffer(p) PROVE SeatInv' /\ SeatStep
    BY <1>3 DEF ExpireOffer
  <1>4. ASSUME NEW p \in Staff, Decline(p) PROVE SeatInv' /\ SeatStep
    BY <1>4 DEF Decline, moveOffer, completeShiftIfSettled
  <1>5. ASSUME NEW p \in Staff, Withdraw(p) PROVE SeatInv' /\ SeatStep
    BY <1>5 DEF Withdraw, moveOffer, completeShiftIfSettled
  <1>6. ASSUME NEW p \in Staff, ManagerReject(p) PROVE SeatInv' /\ SeatStep
    BY <1>6 DEF ManagerReject, moveOffer, completeShiftIfSettled
  <1>7. ASSUME NEW p \in Staff, WithdrawUnconfirmed(p) PROVE SeatInv' /\ SeatStep
    BY <1>7 DEF WithdrawUnconfirmed, moveOffer, completeShiftIfSettled
  <1>8. ASSUME NEW p \in Staff, Confirm(p) PROVE SeatInv' /\ SeatStep
    BY <1>8, Counts DEF Confirm, moveOffer, claimSeat, FILL_TRACKED_STATUSES
  <1>9. ASSUME NEW p \in Staff, CancelOffer(p) PROVE SeatInv' /\ SeatStep
    BY <1>9 DEF CancelOffer, moveOffer, Cancellable
  <1>10. ASSUME NEW p \in Staff, CancelBooking(p) PROVE SeatInv' /\ SeatStep
    <2>1. SeatStep
      BY <1>10 DEF CancelBooking, Cancellable
    <2>2. FillStatusAgrees' /\ filled' <= Required
      BY <1>10 DEF CancelBooking, MaxOf
    <2>3. SeatsTimely'
      BY <1>10 DEF CancelBooking
    <2>4. UnfilledHasNoBooking'
      BY <1>10, LastBooking DEF CancelBooking
    <2>5. QED
      BY <2>1, <2>2, <2>3, <2>4
  <1>11. ASSUME NEW p \in Staff, CheckIn(p) PROVE SeatInv' /\ SeatStep
    BY <1>11 DEF CheckIn
  <1>12. ASSUME NEW p \in Staff, ClockIn(p) PROVE SeatInv' /\ SeatStep
    BY <1>12 DEF ClockIn, openAttendance, ClockWindowOpen
  <1>13. ASSUME NEW p \in Staff, ClockInOnBehalf(p) PROVE SeatInv' /\ SeatStep
    BY <1>13 DEF ClockInOnBehalf, openAttendance, ClockWindowOpen
  <1>14. ASSUME NEW p \in Staff, FlagNoShow(p) PROVE SeatInv' /\ SeatStep
    BY <1>14 DEF FlagNoShow
  <1>15. ASSUME NEW p \in Staff, CorrectTimes(p) PROVE SeatInv' /\ SeatStep
    BY <1>15 DEF CorrectTimes, Correctable
  <1>16. ASSUME NEW p \in Staff, ReviewAttendance(p) PROVE SeatInv' /\ SeatStep
    BY <1>16 DEF ReviewAttendance, setReviewed
  <1>17. ASSUME NEW p \in Staff, ReopenNoShow(p) PROVE SeatInv' /\ SeatStep
    BY <1>17 DEF ReopenNoShow, setReviewed
  <1>18. ASSUME CancelShift PROVE SeatInv' /\ SeatStep
    BY <1>18, ShiftEdges DEF CancelShift
  <1>19. ASSUME NEW op \in TxOps, NEW p \in Staff, begin(op, p),
               op = "followup" => shift = "cancelled" /\ seat[p] \in OPEN_SEAT_STATUSES,
               op = "flagMissing" => att[p] = "clocked_in"
        PROVE  SeatInv' /\ SeatStep
    BY <1>19 DEF begin
  <1>20. ASSUME NEW t \in tx, FollowupCommit(t) PROVE SeatInv' /\ SeatStep
    BY <1>20 DEF FollowupCommit, end
  <1>21. ASSUME NEW t \in tx, ClockOutCommit(t) PROVE SeatInv' /\ SeatStep
    BY <1>21 DEF ClockOutCommit, end, completeShiftIfSettled
  <1>22. ASSUME NEW t \in tx, FlagMissingCommit(t) PROVE SeatInv' /\ SeatStep
    BY <1>22 DEF FlagMissingCommit, end
  <1>23. ASSUME NEW t \in tx, RecordCommit(t) PROVE SeatInv' /\ SeatStep
    BY <1>23 DEF RecordCommit, end, completeShiftIfSettled
  <1>24. ASSUME NEW t \in tx, ConfirmNoShowCommit(t) PROVE SeatInv' /\ SeatStep
    BY <1>24 DEF ConfirmNoShowCommit, end, setReviewed
  <1>25. ASSUME NEW t \in tx, Abort(t) PROVE SeatInv' /\ SeatStep
    BY <1>25 DEF Abort
  <1>26. ASSUME Finalise PROVE SeatInv' /\ SeatStep
    BY <1>26 DEF Finalise
  <1>27. ASSUME Tick PROVE SeatInv' /\ SeatStep
    BY <1>27 DEF Tick
  <1>28. ASSUME UNCHANGED vars PROVE SeatInv' /\ SeatStep
    BY <1>28 DEF vars
  <1>29. CASE Reading
    BY <1>19, <1>29 DEF Reading, FollowupRead, ClockOutRead, FlagMissingRead,
       RecordRead, ConfirmNoShowRead, TxOps
  <1>30. QED
    BY SendingIsSendOne, <1>1, <1>2, <1>3, <1>4, <1>5, <1>6, <1>7, <1>8,
       <1>9, <1>10, <1>11, <1>12, <1>13, <1>14, <1>15, <1>16, <1>17,
       <1>18, <1>19, <1>20, <1>21, <1>22, <1>23, <1>24, <1>25, <1>26,
       <1>27, <1>28, <1>29
    DEF Next, Answering, Working, Committing, IInv

(* How many elements a set has that grew by at most one.                   *)
LEMMA GrownByOne ==
    ASSUME NEW O, NEW Q, NEW q, IsFiniteSet(O), Q \subseteq O \cup {q}
    PROVE  /\ IsFiniteSet(Q) /\ Cardinality(Q) \in Nat
           /\ Cardinality(Q) <= Cardinality(O) + 1
  <1>1. /\ IsFiniteSet(O \cup {q})
        /\ Cardinality(O \cup {q}) \in {Cardinality(O), Cardinality(O) + 1}
    BY FS_AddElement
  <1>2. IsFiniteSet(Q) /\ Cardinality(Q) <= Cardinality(O \cup {q})
    BY <1>1, FS_Subset
  <1>3. Cardinality(O) \in Nat /\ Cardinality(Q) \in Nat
    BY <1>2, FS_CardinalityType
  <1>4. QED
    BY <1>1, <1>2, <1>3

(* Every step keeps the occupied seats counted, and within required_count  *)
(* but for a seat that is returned.                                        *)
LEMMA CapacityPreserved ==
    ASSUME IInv, [Next]_vars
    PROVE  /\ SeatsWithinCapacity => SeatsWithinCapacity' \/ Returned
           /\ BookingsCounted'
  <1>1. /\ IsFiniteSet(Occupied) /\ Cardinality(Occupied) \in Nat
        /\ EffectiveFilled \in Nat /\ Cardinality(Occupied) <= EffectiveFilled
        /\ Required \in Nat /\ filled \in Nat
    BY Counts, RequiredAssumption DEF IInv, TypeOK
  <1>2. ASSUME Occupied' \subseteq Occupied
        PROVE  /\ Cardinality(Occupied') \in Nat
               /\ Cardinality(Occupied') <= Cardinality(Occupied)
    BY <1>1, <1>2, FS_Subset, FS_CardinalityType
  <1>3. ASSUME NEW q, Occupied' \subseteq Occupied \cup {q}
        PROVE  /\ Cardinality(Occupied') \in Nat
               /\ Cardinality(Occupied') <= Cardinality(Occupied) + 1
    BY <1>1, <1>3, GrownByOne
  <1>4. ASSUME NEW q \in Occupied, Occupied' = Occupied \ {q}
        PROVE  Cardinality(Occupied') = Cardinality(Occupied) - 1
    BY <1>1, <1>4, FS_RemoveElement
  <1>5. ASSUME SeatsWithinCapacity, ~Returned, shift' # "cancelled"
        PROVE  Cardinality(Occupied') <= Required
    <2>1. shift # "cancelled" /\ Cardinality(Occupied) <= Required
      BY <1>5, SeatsPreserved DEF SeatsWithinCapacity, SeatStep
    <2>2. CASE Occupied' \subseteq Occupied
      BY <1>1, <1>2, <2>1, <2>2
    <2>3. ASSUME NEW q \in Staff, Occupied' \subseteq Occupied \cup {q},
                 EffectiveFilled < Required
          PROVE  Cardinality(Occupied') <= Required
      BY <1>1, <1>3, <2>3
    <2>4. QED
      BY <1>5, <2>2, <2>3, SeatsPreserved DEF SeatStep
  <1>6. BookingsCounted'
    <2> SUFFICES ASSUME now' < StartsAt, shift' # "cancelled"
                 PROVE  Cardinality(Occupied') <= filled'
      BY DEF BookingsCounted
    <2>1. Cardinality(Occupied) <= filled
      BY SeatsPreserved DEF IInv, BookingsCounted, SeatStep
    <2>2. CASE Occupied' \subseteq Occupied /\ filled' = filled
      BY <1>1, <1>2, <2>1, <2>2
    <2>3. ASSUME NEW q \in Staff, Occupied' \subseteq Occupied \cup {q},
                 filled' = EffectiveFilled + 1
          PROVE  Cardinality(Occupied') <= filled'
      <3>1. /\ Cardinality(Occupied') \in Nat
            /\ Cardinality(Occupied') <= Cardinality(Occupied) + 1
        BY <1>3, <2>3
      <3>2. QED
        BY <1>1, <2>3, <3>1
    <2>4. ASSUME NEW q \in Occupied, Occupied' = Occupied \ {q}, filled' = MaxOf(0, filled - 1)
          PROVE  Cardinality(Occupied') <= filled'
      <3>1. Cardinality(Occupied') = Cardinality(Occupied) - 1
        BY <1>4, <2>4
      <3>2. filled - 1 <= filled'
        BY <1>1, <2>4 DEF MaxOf
      <3>3. filled' \in Nat
        BY <1>1, <2>4 DEF MaxOf
      <3>4. QED
        BY <1>1, <2>1, <3>1, <3>2, <3>3
    <2>5. QED
      BY <2>2, <2>3, <2>4, SeatsPreserved DEF SeatStep
  <1>7. QED
    BY <1>5, <1>6, SeatsPreserved DEF SeatsWithinCapacity, SeatInv

-----------------------------------------------------------------------------
(* The seats, as the abstract allocator sees them.                         *)

(* The abstract specification with what SeatAllocationProofs proves of it. *)
Allocator == INSTANCE SeatAllocationProofs WITH
    taken <- Occupied, working <- Worked, open <- shift # "cancelled",
    Blind <- StaleLockReads

(* Every instance counts with the same Cardinality.                        *)
LEMMA SameCardinality ==
    ASSUME NEW S
    PROVE  /\ Allocation!Cardinality(S) = Cardinality(S)
           /\ Allocator!Cardinality(S) = Cardinality(S)
  BY DEF Allocation!Cardinality, Allocator!Cardinality, Cardinality

(* A step that the allocator does not see.                                 *)
SeatsStill ==
    /\ Occupied' = Occupied /\ Worked' = Worked
    /\ shift' = "cancelled" <=> shift = "cancelled"

(* Every step leaves the seats still or is a step of the allocator.        *)
LEMMA AllocationStep ==
    ASSUME IInv, [Next]_vars
    PROVE  [Allocation!Next]_(Allocation!vars)
  <1> DEFINE A == [Allocation!Next]_(Allocation!vars)
  <1>vacant. EffectiveFilled < Required => Cardinality(Occupied) < Required
    BY Counts, RequiredAssumption DEF IInv
  <1> USE Statuses DEF IInv, StatusInv, TypeOK, SeatsStill, Occupied, Worked,
          OfferSeatAgree, AttendanceBooked, Booked, ReviewedHasWork,
          TxSound, OPEN_SEAT_STATUSES, Tx, offerVars, workVars
  <1>0. /\ SeatsStill => A
        /\ Allocation!Close => A
        /\ \A p \in Staff : \/ Allocation!Take(p) \/ Allocation!Work(p)
                            \/ Allocation!Release(p) \/ Allocation!Return(p)
                           => A
    BY DEF Allocation!Next, Allocation!vars
  <1>1. ASSUME NEW S \in SUBSET Staff, NEW k \in OfferKind, NEW from \in Nat,
               NEW ttl \in Nat, sendOne(S, k, from, ttl), StartsAt <= from,
               shift \notin {"cancelled", "completed"}
        PROVE  SeatsStill
    BY <1>1 DEF sendOne
  <1>2. ASSUME NEW p \in Staff, StaffAccept(p) PROVE SeatsStill
    BY <1>2 DEF StaffAccept, moveOffer
  <1>3. ASSUME NEW p \in Staff, ExpireOffer(p) PROVE SeatsStill
    BY <1>3 DEF ExpireOffer
  <1>4. ASSUME NEW p \in Staff, Decline(p) PROVE SeatsStill
    BY <1>4 DEF Decline, moveOffer, completeShiftIfSettled
  <1>5. ASSUME NEW p \in Staff, Withdraw(p) PROVE SeatsStill
    BY <1>5 DEF Withdraw, moveOffer, completeShiftIfSettled
  <1>6. ASSUME NEW p \in Staff, ManagerReject(p) PROVE SeatsStill
    BY <1>6 DEF ManagerReject, moveOffer, completeShiftIfSettled
  <1>7. ASSUME NEW p \in Staff, WithdrawUnconfirmed(p) PROVE SeatsStill
    BY <1>7 DEF WithdrawUnconfirmed, moveOffer, completeShiftIfSettled
  <1>8. ASSUME NEW p \in Staff, Confirm(p) PROVE Allocation!Take(p)
    <2>1. Occupied' = Occupied \cup {p} /\ p \notin Worked /\ Worked' = Worked
      BY <1>8 DEF Confirm, moveOffer
    <2>2. EffectiveFilled < Required /\ (shift # "cancelled") = (shift' # "cancelled")
      BY <1>8 DEF Confirm, claimSeat
    <2> HIDE DEF Occupied, Worked
    <2>3. QED
      BY <1>vacant, <2>1, <2>2, SameCardinality DEF Allocation!Take
  <1>9. ASSUME NEW p \in Staff, CancelOffer(p) PROVE SeatsStill
    BY <1>9 DEF CancelOffer, moveOffer, Cancellable
  <1>10. ASSUME NEW p \in Staff, CancelBooking(p) PROVE Allocation!Release(p)
    BY <1>10 DEF CancelBooking, Cancellable, Allocation!Release
  <1>11. ASSUME NEW p \in Staff, CheckIn(p) PROVE SeatsStill
    BY <1>11 DEF CheckIn
  <1>12. ASSUME NEW p \in Staff, ClockIn(p) PROVE Allocation!Work(p)
    BY <1>12 DEF ClockIn, openAttendance, Allocation!Work
  <1>13. ASSUME NEW p \in Staff, ClockInOnBehalf(p) PROVE Allocation!Work(p)
    BY <1>13 DEF ClockInOnBehalf, openAttendance, Allocation!Work
  <1>14. ASSUME NEW p \in Staff, FlagNoShow(p) PROVE SeatsStill
    BY <1>14 DEF FlagNoShow
  <1>15. ASSUME NEW p \in Staff, CorrectTimes(p) PROVE SeatsStill \/ Allocation!Return(p)
    BY <1>15 DEF CorrectTimes, Correctable, Allocation!Return
  <1>16. ASSUME NEW p \in Staff, ReviewAttendance(p) PROVE SeatsStill \/ Allocation!Release(p)
    BY <1>16 DEF ReviewAttendance, setReviewed, Allocation!Release
  <1>17. ASSUME NEW p \in Staff, ReopenNoShow(p) PROVE Allocation!Take(p)
    <2>1. /\ Occupied' = Occupied \cup {p} /\ Worked' = Worked
          /\ p \in Worked => StaleLockReads
      BY <1>17 DEF ReopenNoShow, setReviewed
    <2>2. EffectiveFilled < Required /\ (shift # "cancelled") = (shift' # "cancelled")
      BY <1>17 DEF ReopenNoShow, setReviewed
    <2> HIDE DEF Occupied, Worked
    <2>3. QED
      BY <1>vacant, <2>1, <2>2, SameCardinality DEF Allocation!Take
  <1>18. ASSUME CancelShift PROVE Allocation!Close
    BY <1>18 DEF CancelShift, Allocation!Close
  <1>19. CASE Reading
    <2>1. SeatsStill
      BY <1>19 DEF Reading, FollowupRead, ClockOutRead, FlagMissingRead,
         RecordRead, ConfirmNoShowRead, begin
    <2>2. QED
      BY <1>0, <2>1
  <1>20. ASSUME NEW t \in tx, FollowupCommit(t) PROVE SeatsStill \/ Allocation!Release(t.p)
    BY <1>20 DEF FollowupCommit, end, Allocation!Release
  <1>21. ASSUME NEW t \in tx, ClockOutCommit(t) PROVE SeatsStill \/ Allocation!Return(t.p)
    BY <1>21 DEF ClockOutCommit, end, completeShiftIfSettled, Allocation!Return
  <1>22. ASSUME NEW t \in tx, FlagMissingCommit(t) PROVE SeatsStill
    BY <1>22 DEF FlagMissingCommit, end
  <1>23. ASSUME NEW t \in tx, RecordCommit(t) PROVE Allocation!Work(t.p)
    BY <1>23 DEF RecordCommit, end, completeShiftIfSettled, Allocation!Work
  <1>24. ASSUME NEW t \in tx, ConfirmNoShowCommit(t) PROVE Allocation!Release(t.p)
    BY <1>24 DEF ConfirmNoShowCommit, end, setReviewed, Allocation!Release
  <1>25. ASSUME NEW t \in tx, Abort(t) PROVE SeatsStill
    BY <1>25 DEF Abort
  <1>26. ASSUME Finalise PROVE SeatsStill
    BY <1>26 DEF Finalise
  <1>27. ASSUME Tick PROVE SeatsStill
    BY <1>27 DEF Tick
  <1>28. ASSUME UNCHANGED vars PROVE SeatsStill
    BY <1>28 DEF vars
  <1>29. \A t \in tx : t.p \in Staff
    OBVIOUS
  <1>30. CASE Sending \/ CancelShift \/ Finalise \/ Tick \/ UNCHANGED vars
    BY SendingIsSendOne, <1>0, <1>1, <1>18, <1>26, <1>27, <1>28, <1>30 DEF IInv
  <1>31. CASE Answering
    BY <1>0, <1>2, <1>3, <1>4, <1>5, <1>6, <1>7, <1>8, <1>9, <1>10, <1>31 DEF Answering
  <1>32. CASE Working
    BY <1>0, <1>11, <1>12, <1>13, <1>14, <1>15, <1>16, <1>17, <1>32 DEF Working
  <1>33. CASE Committing
    BY <1>0, <1>20, <1>21, <1>22, <1>23, <1>24, <1>25, <1>29, <1>33 DEF Committing
  <1>34. QED
    BY <1>19, <1>30, <1>31, <1>32, <1>33 DEF Next

-----------------------------------------------------------------------------
(* A published shift without offers satisfies the invariant.               *)
LEMMA InitInv == Init => IInv
  <1> SUFFICES ASSUME Init PROVE IInv
    OBVIOUS
  <1>1. TypeOK
    BY Statuses, TimeAssumption DEF Init, TypeOK, OfferKind
  <1>2. Occupied = {}
    BY DEF Init, Occupied
  <1>3. Cardinality(Occupied) = 0
    BY <1>2, FS_EmptySet
  <1>4. filled <= Required /\ BookingsCounted /\ FillStatusAgrees
    BY <1>3, RequiredAssumption DEF Init, BookingsCounted,
       FillStatusAgrees
  <1>5. /\ OfferSeatAgree /\ CompletedShiftSettled
        /\ AttendanceBooked /\ PaidWorkReviewed /\ ApprovedIsFinal /\ ClosedHasTime /\ ReviewedHasWork
        /\ TxSound /\ UnfilledHasNoBooking
    BY DEF Init, OfferSeatAgree, CompletedShiftSettled, AttendanceBooked,
           PaidWorkReviewed, ApprovedIsFinal, ClosedHasTime,
           ReviewedHasWork, TxSound, UnfilledHasNoBooking
  <1>6. SeatsTimely
    BY TimeAssumption DEF Init, SeatsTimely
  <1>7. QED
    BY <1>1, <1>4, <1>5, <1>6 DEF IInv, StatusInv, SeatInv

(* Every step preserves the invariant.                                     *)
LEMMA Inductive ==
    ASSUME IInv, [Next]_vars
    PROVE  IInv'
  <1>1. TypeOK'
    BY TypePreserved DEF IInv
  <1>2. QED
    BY <1>1, StatusesPreserved, SeatsPreserved, CapacityPreserved DEF IInv

-----------------------------------------------------------------------------
(* The theorems                                                            *)

(* Every variable keeps the values its column can hold, whatever the       *)
(* handlers of offer.service.ts, attendance.service.ts and the Worker do.  *)
THEOREM TypeCorrect == Spec => []TypeOK
  <1>1. Init => TypeOK
    BY InitInv DEF IInv
  <1>2. TypeOK /\ [Next]_vars => TypeOK'
    BY TypePreserved
  <1>3. QED
    BY <1>1, <1>2, PTL DEF Spec

(* The inductive invariant holds in every reachable state.                 *)
THEOREM Invariance == Spec => []IInv
  <1>1. IInv /\ [Next]_vars => IInv'
    BY Inductive
  <1>2. QED
    BY <1>1, InitInv, PTL DEF Spec

(* No confirmation, reopened no-show or recorded attendance overstaffs a   *)
(* shift, for any number of staff, seats and racing transactions, and      *)
(* whatever lockSeat's join overlooks: the step that does gives somebody   *)
(* who worked their seat back after it was confirmed as a no-show.         *)
THEOREM OverbookingIsLate == Spec => OverbooksOnlyLate
  <1>1. IInv /\ [Next]_vars =>
          (SeatsWithinCapacity /\ ~SeatsWithinCapacity' => Returned)
    BY CapacityPreserved
  <1>2. QED
    BY <1>1, Invariance, PTL DEF Spec, OverbooksOnlyLate, Returned

(* Accept, decline, withdrawal, confirmation, expiry and the cancellation  *)
(* follow-up never leave an offer and its seat in contradiction.           *)
THEOREM OffersAgree == Spec => []OfferSeatAgree
  <1>1. IInv => OfferSeatAgree
    BY DEF IInv, StatusInv
  <1>2. QED
    BY <1>1, Invariance, PTL

(* completeShiftIfSettled completes a shift only when nobody holds an open *)
(* seat, no seat opens on it afterwards, and no shift without one is left  *)
(* running but by flagNoShowCandidate or, where clock-in opens before      *)
(* cancelling closes, by the cancellation of an unconfirmed offer.         *)
THEOREM CompletionSettled == Spec => []CompletedShiftSettled
  <1>1. IInv => CompletedShiftSettled
    BY DEF IInv, StatusInv
  <1>2. QED
    BY <1>1, Invariance, PTL

(* The fill status always agrees with filled_count.                        *)
THEOREM FillAgrees == Spec => []FillStatusAgrees
  <1>1. IInv => FillStatusAgrees
    BY DEF IInv, SeatInv
  <1>2. QED
    BY <1>1, Invariance, PTL

(* markShiftInProgress accepts the clock-in of everybody who is booked on  *)
(* a shift that was not cancelled.                                         *)
THEOREM ClockInOpen == Spec => []BookedSeatCanClockIn
  <1>1. IInv => BookedSeatCanClockIn
    BY Statuses, ShiftEdges DEF IInv, SeatInv, StatusInv, TypeOK,
       UnfilledHasNoBooking, CompletedShiftSettled, BookedSeatCanClockIn, OPEN_SEAT_STATUSES
  <1>2. QED
    BY <1>1, Invariance, PTL

(* Attendance is only opened on a booked seat, and nothing but a cancelled *)
(* shift's follow-up or a confirmNoShow with a stale join takes the seat   *)
(* of somebody who has it: flagNoShowCandidate never does.                 *)
THEOREM WorkIsKept == Spec => WorkKeepsItsSeat
  <1>1. IInv /\ [Next]_vars => [\A p \in Staff : WorkKeepsSeat(p)]_vars
    BY WorkKept
  <1>2. QED
    BY <1>1, Invariance, PTL DEF Spec, WorkKeepsItsSeat

(* Work with a payroll record was clocked out and reviewed, and stays so;  *)
(* and finalise leaves no reviewed work of its report unpaid, whoever      *)
(* joins the report afterwards.                                            *)
THEOREM PaidWorkIsReviewed == Spec => []PaidWorkReviewed
  <1>1. IInv => PaidWorkReviewed
    BY DEF IInv, StatusInv
  <1>2. QED
    BY <1>1, Invariance, PTL

(* Every step of a shift, an offer, a seat or an attendance is an edge of  *)
(* its transition table, also the ones that are written without            *)
(* assertTransition, but for the three that StepLegal names: a clock-out   *)
(* of a seat cancelled meanwhile, a correction, a missing-clock-out flag.  *)
THEOREM TablesKept == Spec => StepsLegal
  <1>1. IInv /\ [Next]_vars => [StepLegal]_vars
    BY StatusesPreserved
  <1>2. QED
    BY <1>1, Invariance, PTL DEF Spec, StepsLegal

(* Offers, no-shows, clock-ins and reports implement the abstract seat     *)
(* allocator, for every number of staff, seats and racing transactions; a  *)
(* stale locking read makes it a blind one, and nothing worse.             *)
THEOREM ImplementsAllocator == Spec => KeepsAllocation
  <1>1. Init => Allocation!Init
    BY DEF Init, Occupied, Worked, Allocation!Init
  <1>2. IInv /\ [Next]_vars => [Allocation!Next]_(Allocation!vars)
    BY AllocationStep
  <1>3. QED
    BY <1>1, <1>2, Invariance, PTL DEF Spec, KeepsAllocation, Allocation!Spec

(* Whatever lockSeat's join overlooks, the staff who hold a seat and have  *)
(* not clocked in never exceed required_count: a shift is overbooked only  *)
(* by somebody whose attendance was recorded.                              *)
THEOREM WaitingStaffFit == Spec => []Allocation!WaitingFit
  <1>1. Required \in Nat
    BY RequiredAssumption
  <1>2. Allocator!Spec => []Allocator!WaitingFit
    BY <1>1, Allocator!WaitingAlwaysFit
  <1>3. /\ Allocation!Init => Allocator!Init
        /\ [Allocation!Next]_(Allocation!vars) => [Allocator!Next]_(Allocator!vars)
        /\ Allocator!WaitingFit => Allocation!WaitingFit
    BY SameCardinality
    DEF Allocation!Init, Allocator!Init, Allocation!Next, Allocator!Next,
           Allocation!vars, Allocator!vars, Allocation!WaitingFit, Allocator!WaitingFit,
           Allocation!Take, Allocator!Take, Allocation!Work, Allocator!Work,
           Allocation!Release, Allocator!Release, Allocation!Return, Allocator!Return,
           Allocation!Close, Allocator!Close
  <1>4. QED
    BY <1>2, <1>3, ImplementsAllocator, PTL
    DEF KeepsAllocation, Allocation!Spec, Allocator!Spec
=============================================================================
