---------------------------- MODULE ShiftLifecycle ----------------------------
(***************************************************************************)
(* One published shift of Crewflow, from its first offer to its finalised  *)
(* report: the shift row, one seat (shift_assignment), offer (job_offer)   *)
(* and attendance row per staff member, and every API handler and Worker   *)
(* job that changes them.                                                  *)
(*                                                                         *)
(* Concurrency.  PostgreSQL runs the handlers as READ COMMITTED            *)
(* transactions.  A handler that takes the shift row lock, or whose write  *)
(* is a compare-and-set on the status it needs, is ONE action, at its      *)
(* commit: its guard is what the locked read or the compare-and-set tests, *)
(* not the earlier unlocked read.  A handler that acts on what it read     *)
(* before the lock is TWO actions, a Read that puts a record into tx and a *)
(* Commit that uses it; anything may commit in between, and Abort drops a  *)
(* transaction that fails or whose process dies.                           *)
(*                                                                         *)
(* Time is a counter.  Staff eligibility, permissions, QR codes, location  *)
(* evidence, pay figures, audit rows and notifications are left out.       *)
(***************************************************************************)
EXTENDS Integers, FiniteSets, Transitions

CONSTANTS
    Staff,            \* staff profiles that may be offered this shift
    Required,         \* shift.required_count
    StartsAt,         \* shift.starts_at
    EndsAt,           \* shift.ends_at, also the end of every seat's period
    Starts,           \* the starts a seat's own period may have
    Lead,             \* MANAGER_CONFIRMATION_LEAD_MINUTES
    CancelLead,       \* a booking is cancellable until StartsAt - CancelLead
    EarlyLead,        \* CLOCK_IN_EARLY_MINUTES
    ClockGrace,       \* QR_POST_SHIFT_GRACE_MINUTES
    NoShowGrace,      \* NO_SHOW_GRACE_MINUTES
    MissingGrace,     \* MISSING_CLOCK_OUT_GRACE_MINUTES
    ActionWindow,     \* SHIFT_ACTION_WINDOW_HOURS
    Lifetimes,        \* the values expiresInHours may have
    CheckInRequired,  \* shift_assignment.check_in_required
    StaleLockReads,   \* TRUE: a locking SELECT that waited returns the join
                      \* values of its own, older snapshot (PostgreSQL)
    MaxTime,          \* bound on the clock
    MaxTx             \* bound on the transactions in flight

ASSUME StaffAssumption == IsFiniteSet(Staff)

ASSUME RequiredAssumption == Required \in Nat \ {0}

ASSUME TimeAssumption ==
    /\ {StartsAt, EndsAt, Lead, CancelLead, EarlyLead, ClockGrace, NoShowGrace,
        MissingGrace, ActionWindow, MaxTime, MaxTx} \subseteq Nat
    /\ StartsAt < EndsAt
    /\ Starts \subseteq StartsAt .. EndsAt
    /\ Lifetimes \subseteq Nat

ASSUME FlagAssumption == CheckInRequired \in BOOLEAN /\ StaleLockReads \in BOOLEAN

VARIABLES
    now,        \* the database clock
    shift,      \* shift.status
    filled,     \* shift.filled_count
    report,     \* shift_report.status
    seat,       \* shift_assignment.status per staff member, "none": no row
    offer,      \* job_offer.status, "none": no row
    kind,       \* job_offer.offer_kind
    starts,     \* lower(shift_assignment.period)
    expires,    \* job_offer.expires_at
    checkedIn,  \* shift_assignment.checked_in_at is set
    reviewed,   \* shift_assignment.attendance_reviewed_at is set
    att,        \* attendance.status, "none": no row
    out,        \* attendance.clock_out_at is set
    payroll,    \* staff with a payroll_record for their attendance
    tx          \* transactions between their unlocked read and their commit

offerVars == <<kind, starts, expires>>
workVars  == <<checkedIn, reviewed, att, out, payroll>>
vars == <<now, shift, filled, report, seat, offer, offerVars, workVars, tx>>

-----------------------------------------------------------------------------
(* The statuses of a published shift; ShiftPublishing has the others.      *)
ShiftStatus == DOMAIN SHIFT_TRANSITIONS
                 \ {"draft", "pending_manager_approval", "declined"}
SeatStatus  == DOMAIN SHIFT_ASSIGNMENT_TRANSITIONS \cup {"none"}
OfferStatus == DOMAIN OFFER_TRANSITIONS \cup {"none"}
AttStatus   == DOMAIN ATTENDANCE_TRANSITIONS \cup {"none"}
OfferKind   == {"standard", "replacement", "standby"}

(* What a split handler remembers of its unlocked reads.                   *)
TxOps == {"followup", "clockOut", "flagMissing", "record", "confirmNoShow"}
Tx == [op : TxOps, p : Staff, seat : SeatStatus, offer : OfferStatus]

MaxOf(a, b) == IF a >= b THEN a ELSE b

-----------------------------------------------------------------------------
(* Seats (shift-vacancy.ts)                                                *)

(* occupiedSeatSql: a provisional no-show still holds its seat, a          *)
(* manager-confirmed one does not.                                         *)
Occupied == {p \in Staff : \/ seat[p] \in {"confirmed", "completed"}
                           \/ seat[p] = "no_show" /\ ~reviewed[p]}

ConfirmedNoShows == {p \in Staff : seat[p] = "no_show" /\ reviewed[p]}

(* Mutant: the occupied seats are not counted.                             *)
EffectiveFilledCached == filled - Cardinality(ConfirmedNoShows)

(* vacancyFromCounts                                                       *)
EffectiveFilled ==
    MaxOf(Cardinality(Occupied), filled - Cardinality(ConfirmedNoShows))

OPEN_SEAT_STATUSES == {"offered", "staff_accepted", "confirmed"}

(* The seats a shift report lists.                                         *)
ReportSeats == {p \in Staff : seat[p] \in {"confirmed", "completed", "no_show"}}

(* confirmationDeadlineSql                                                 *)
Deadline(p) == IF kind[p] = "standard" THEN starts[p] - Lead ELSE EndsAt

(* assertShiftActionWindowOpen                                             *)
ActionWindowOpen == now < EndsAt + ActionWindow

(* attendanceWindow, assertClockWindow                                     *)
ClockWindowOpen(p) == /\ starts[p] - EarlyLead <= now
                      /\ now <= EndsAt + ClockGrace

(* Mutant: only confirmed seats keep a shift running.                      *)
completeShiftNoneConfirmed ==
    shift' = IF shift = "in_progress" /\ \A p \in Staff : seat'[p] # "confirmed"
             THEN "completed" ELSE shift

(* completeShiftIfSettled: the roll-up that ends every handler that closes *)
(* an offer or a seat.                                                     *)
completeShiftIfSettled ==
    shift' = IF shift = "in_progress"
                /\ \A p \in Staff : seat'[p] \notin OPEN_SEAT_STATUSES
             THEN "completed" ELSE shift

-----------------------------------------------------------------------------
(* Sending offers (offer.service.ts)                                       *)

(* sendOne for every recipient of a batch that passes its checks: a new    *)
(* seat and a pending offer; the caller then moves an open shift on.       *)
sendOne(S, k, from, ttl) ==
    /\ S # {} /\ \A p \in S : seat[p] = "none"
    /\ ActionWindowOpen
    /\ k = "standard" => now < from - Lead
    /\ seat'    = [p \in Staff |-> IF p \in S THEN "offered" ELSE seat[p]]
    /\ offer'   = [p \in Staff |-> IF p \in S THEN "pending" ELSE offer[p]]
    /\ kind'    = [p \in Staff |-> IF p \in S THEN k ELSE kind[p]]
    /\ starts'  = [p \in Staff |-> IF p \in S THEN from ELSE starts[p]]
    /\ expires' = [p \in Staff |-> IF p \in S THEN now + ttl ELSE expires[p]]
    /\ shift'   = IF shift = "open" THEN "offered" ELSE shift
    /\ UNCHANGED <<now, filled, report, workVars, tx>>

(* send, sendBulk, createShiftAndSend, approveShiftRequest                 *)
Send(S, from, ttl) ==
    /\ shift \in {"open", "offered", "partially_filled"}
    /\ filled < Required
    /\ sendOne(S, "standard", from, ttl)

(* ReplacementRequestService.approve                                       *)
ApproveReplacement(p, ttl) ==
    /\ shift \notin {"cancelled", "completed"}
    /\ filled < Required
    /\ sendOne({p}, "standard", StartsAt, ttl)

(* Reserved seats as the venue pipeline counts them.                       *)
Reserved ==
    {p \in Staff : /\ seat[p] \in OPEN_SEAT_STATUSES \cup {"completed"}
                  /\ offer[p] \in {"pending", "staff_accepted", "manager_confirmed"}}

(* VenueOfferPipelineService.replace                                       *)
PipelineReplace(S, ttl) ==
    /\ shift \notin {"cancelled", "completed"}
    /\ now < StartsAt
    /\ Cardinality(S) <= Required - Cardinality(Reserved)
    /\ sendOne(S, "standard", StartsAt, ttl)

(* sendReplacementBulk, with loadReplacementShift's window                 *)
SendReplacement(S, ttl) ==
    /\ shift \in {"open", "offered", "partially_filled", "fully_filled", "in_progress"}
    /\ now < EndsAt
    /\ sendOne(S, IF EffectiveFilled < Required THEN "replacement" ELSE "standby",
               MaxOf(StartsAt, now), ttl)

-----------------------------------------------------------------------------
(* Answering and closing offers                                            *)

(* Mutant: the two statuses are swapped.                                   *)
moveOfferSwapped(p, o, s) ==
    /\ offer' = [offer EXCEPT ![p] = s]
    /\ seat'  = [seat EXCEPT ![p] = o]

(* One offer and its seat move together.                                   *)
moveOffer(p, o, s) ==
    /\ offer' = [offer EXCEPT ![p] = o]
    /\ seat'  = [seat EXCEPT ![p] = s]

(* staffAccept: one compare-and-set against expiry and deadline, under the *)
(* shift row lock.                                                         *)
StaffAccept(p) ==
    /\ shift # "cancelled"
    /\ ActionWindowOpen
    /\ offer[p] = "pending" /\ now < expires[p] /\ now < Deadline(p)
    /\ moveOffer(p, "staff_accepted", "staff_accepted")
    /\ UNCHANGED <<now, shift, filled, report, offerVars, workVars, tx>>

(* Mutant: no compare-and-set on the status.                               *)
ExpireOfferAnyStatus(p) ==
    /\ offer[p] # "none" /\ expires[p] <= now
    /\ offer' = [offer EXCEPT ![p] = "expired"]
    /\ UNCHANGED <<now, shift, filled, report, seat, offerVars, workVars, tx>>

(* claimExpiredOffer, by the Worker's expiry job or by a late staffAccept: *)
(* only the offer changes, its seat stays "offered".                       *)
ExpireOffer(p) ==
    /\ offer[p] = "pending" /\ expires[p] <= now
    /\ offer' = [offer EXCEPT ![p] = "expired"]
    /\ UNCHANGED <<now, shift, filled, report, seat, offerVars, workVars, tx>>

Decline(p) ==
    /\ offer[p] = "pending"
    /\ moveOffer(p, "declined", "declined")
    /\ completeShiftIfSettled
    /\ UNCHANGED <<now, filled, report, offerVars, workVars, tx>>

Withdraw(p) ==
    /\ offer[p] = "pending"
    /\ moveOffer(p, "withdrawn", "withdrawn")
    /\ completeShiftIfSettled
    /\ UNCHANGED <<now, filled, report, offerVars, workVars, tx>>

ManagerReject(p) ==
    /\ offer[p] = "staff_accepted"
    /\ moveOffer(p, "manager_rejected", "rejected")
    /\ completeShiftIfSettled
    /\ UNCHANGED <<now, filled, report, offerVars, workVars, tx>>

(* Mutant: a deadline that was missed is never looked at again.            *)
WithdrawUnconfirmedAtDeadline(p) ==
    /\ offer[p] = "staff_accepted" /\ seat[p] = "staff_accepted"
    /\ shift # "cancelled"
    /\ Deadline(p) = now
    /\ moveOffer(p, "manager_rejected", "rejected")
    /\ completeShiftIfSettled
    /\ UNCHANGED <<now, filled, report, offerVars, workVars, tx>>

(* withdrawUnconfirmedOffer, by the Worker's deadline job or lazily by a   *)
(* refused confirm.                                                        *)
WithdrawUnconfirmed(p) ==
    /\ offer[p] = "staff_accepted" /\ seat[p] = "staff_accepted"
    /\ shift # "cancelled"
    /\ Deadline(p) <= now
    /\ moveOffer(p, "manager_rejected", "rejected")
    /\ completeShiftIfSettled
    /\ UNCHANGED <<now, filled, report, offerVars, workVars, tx>>

FILL_TRACKED_STATUSES == {"open", "offered", "partially_filled", "fully_filled"}

(* Mutant: a replacement's confirmation leaves the shift's status alone.   *)
claimSeatStandardOnly(p) ==
    LET count == EffectiveFilled + 1
        next  == IF count >= Required THEN "fully_filled" ELSE "partially_filled"
    IN  /\ EffectiveFilled < Required
        /\ filled' = count
        /\ shift'  = IF kind[p] = "standard" THEN next ELSE shift

(* applyOfferConfirmation: the seat claim and the shift's fill status.     *)
claimSeat(p) ==
    LET count   == EffectiveFilled + 1
        next    == IF count >= Required THEN "fully_filled" ELSE "partially_filled"
        tracksFill == kind[p] = "standard" \/ shift \in FILL_TRACKED_STATUSES
    IN  /\ EffectiveFilled < Required
        /\ tracksFill /\ shift # next => assertTransition(SHIFT_TRANSITIONS, shift, next)
        /\ filled' = count
        /\ shift'  = IF tracksFill THEN next ELSE shift

(* managerConfirm, confirmAll.  A replacement's period starts no earlier   *)
(* than its confirmation.                                                  *)
Confirm(p) ==
    /\ shift \notin {"cancelled", "completed"}
    /\ offer[p] = "staff_accepted" /\ now < Deadline(p)
    /\ ActionWindowOpen
    /\ claimSeat(p)
    /\ moveOffer(p, "manager_confirmed", "confirmed")
    /\ starts' = IF kind[p] # "standard" /\ starts[p] < now /\ now < EndsAt
                 THEN [starts EXCEPT ![p] = now] ELSE starts
    /\ UNCHANGED <<now, report, kind, expires, workVars, tx>>

-----------------------------------------------------------------------------
(* Cancelling                                                              *)

(* canCancelVenueOffer, without its status pairs                           *)
Cancellable(p) ==
    /\ shift \notin {"cancelled", "completed"}
    /\ now < StartsAt - CancelLead
    /\ att[p] = "none"

(* cancelBookingWithManager on an unanswered or unconfirmed offer          *)
CancelOffer(p) ==
    /\ Cancellable(p)
    /\ \/ /\ offer[p] = "pending" /\ seat[p] = "offered"
          /\ moveOffer(p, "withdrawn", "withdrawn")
       \/ /\ offer[p] = "staff_accepted" /\ seat[p] = "staff_accepted"
          /\ moveOffer(p, "manager_rejected", "cancelled")
    /\ UNCHANGED <<now, shift, filled, report, offerVars, workVars, tx>>

(* Mutant: the shift is partially filled even without its last booking.    *)
CancelBookingStillPartial(p) ==
    /\ Cancellable(p)
    /\ offer[p] = "manager_confirmed" /\ seat[p] = "confirmed"
    /\ seat'   = [seat EXCEPT ![p] = "cancelled"]
    /\ filled' = MaxOf(0, filled - 1)
    /\ shift'  = "partially_filled"
    /\ UNCHANGED <<now, report, offer, offerVars, workVars, tx>>

(* cancelBookingWithManager on a confirmed booking: the seat is given back *)
CancelBooking(p) ==
    LET count == MaxOf(0, filled - 1)
        next  == IF count > 0 THEN "partially_filled" ELSE "offered"
    IN  /\ Cancellable(p)
        /\ offer[p] = "manager_confirmed" /\ seat[p] = "confirmed"
        /\ next # shift => assertTransition(SHIFT_TRANSITIONS, shift, next)
        /\ seat'   = [seat EXCEPT ![p] = "cancelled"]
        /\ filled' = count
        /\ shift'  = next
        /\ UNCHANGED <<now, report, offer, offerVars, workVars, tx>>

(* SchedulingService.cancel                                                *)
CancelShift ==
    /\ assertTransition(SHIFT_TRANSITIONS, shift, "cancelled")
    /\ shift' = "cancelled"
    /\ UNCHANGED <<now, filled, report, seat, offer, offerVars, workVars, tx>>

-----------------------------------------------------------------------------
(* Transactions in flight                                                  *)

begin(op, p) ==
    /\ Cardinality(tx) < MaxTx
    /\ tx' = tx \cup {[op |-> op, p |-> p, seat |-> seat[p], offer |-> offer[p]]}
    /\ UNCHANGED <<now, shift, filled, report, seat, offer, offerVars, workVars>>

end(t, op) == t \in tx /\ t.op = op /\ tx' = tx \ {t}

(* A transaction rolls back: a lost compare-and-set, an error, a crash.    *)
Abort(t) ==
    /\ t \in tx /\ tx' = tx \ {t}
    /\ UNCHANGED <<now, shift, filled, report, seat, offer, offerVars, workVars>>

(* Mutant: booked seats are forgotten.                                     *)
FollowupReadUnconfirmed(p) ==
    /\ shift = "cancelled" /\ seat[p] \in {"offered", "staff_accepted"}
    /\ begin("followup", p)

(* shift-cancellation-followup.job.ts: the Worker closes the open seats of *)
(* a cancelled shift and their offers.                                     *)
FollowupRead(p) ==
    /\ shift = "cancelled" /\ seat[p] \in OPEN_SEAT_STATUSES
    /\ begin("followup", p)

(* Mutant: the offer is closed without the compare-and-set.                *)
FollowupCommitBlind(t) ==
    /\ end(t, "followup")
    /\ offer' = [offer EXCEPT ![t.p] = IF t.offer = "pending" THEN "withdrawn" ELSE @]
    /\ seat'  = [seat EXCEPT ![t.p] = IF @ = t.seat THEN "cancelled" ELSE @]
    /\ UNCHANGED <<now, shift, filled, report, offerVars, workVars>>

(* Each write is a compare-and-set on the status read; the seat's may lose *)
(* without undoing the offer's.                                            *)
FollowupCommit(t) ==
    /\ end(t, "followup")
    /\ offer' = IF offer[t.p] = t.offer
                THEN [offer EXCEPT ![t.p] =
                        CASE t.offer = "pending"        -> "withdrawn"
                          [] t.offer = "staff_accepted" -> "manager_rejected"
                          [] OTHER                      -> t.offer]
                ELSE offer
    /\ seat' = IF seat[t.p] = t.seat
               THEN [seat EXCEPT ![t.p] = "cancelled"] ELSE seat
    /\ UNCHANGED <<now, shift, filled, report, offerVars, workVars>>

-----------------------------------------------------------------------------
(* Attendance (attendance.service.ts)                                      *)

CheckIn(p) ==
    /\ seat[p] = "confirmed" /\ ~checkedIn[p] /\ att[p] = "none"
    /\ shift \notin {"cancelled", "completed"}
    /\ ClockWindowOpen(p)
    /\ checkedIn' = [checkedIn EXCEPT ![p] = TRUE]
    /\ UNCHANGED <<now, shift, filled, report, seat, offer, offerVars,
                   reviewed, att, out, payroll, tx>>

(* The common part of both clock-ins, with markShiftInProgress.            *)
openAttendance(p) ==
    /\ seat[p] = "confirmed" /\ att[p] = "none"
    /\ shift \notin {"cancelled", "completed"}
    /\ ClockWindowOpen(p)
    /\ shift = "in_progress" \/ assertTransition(SHIFT_TRANSITIONS, shift, "in_progress")
    /\ shift' = "in_progress"
    /\ att'   = [att EXCEPT ![p] = "clocked_in"]
    /\ UNCHANGED <<now, filled, report, seat, offer, offerVars,
                   checkedIn, reviewed, out, payroll, tx>>

ClockIn(p) ==
    /\ CheckInRequired => checkedIn[p]
    /\ openAttendance(p)

ClockInOnBehalf(p) ==
    /\ report # "finalised"
    /\ checkedIn[p]
    /\ openAttendance(p)

(* clockOut, autoClockOutOnGeofenceExit and clockOutOnBehalf find the open *)
(* attendance and the seat without a lock ...                              *)
ClockOutRead(p) ==
    /\ att[p] = "clocked_in"
    /\ begin("clockOut", p)

(* ... and performClockOut claims the attendance by compare-and-set, but   *)
(* completes the seat on the status it read.                               *)
ClockOutCommit(t) ==
    /\ end(t, "clockOut")
    /\ att[t.p] = "clocked_in"
    /\ assertTransition(SHIFT_ASSIGNMENT_TRANSITIONS, t.seat, "completed")
    /\ att'  = [att EXCEPT ![t.p] = "clocked_out"]
    /\ out'  = [out EXCEPT ![t.p] = TRUE]
    /\ seat' = [seat EXCEPT ![t.p] = "completed"]
    /\ completeShiftIfSettled
    /\ UNCHANGED <<now, filled, report, offer, offerVars, checkedIn, reviewed, payroll>>

(* Mutant: attendance is not looked at again under the lock.               *)
FlagNoShowUnrevalidated(p) ==
    /\ seat[p] = "confirmed"
    /\ shift \notin {"cancelled", "completed"}
    /\ starts[p] + NoShowGrace <= now
    /\ seat' = [seat EXCEPT ![p] = "no_show"]
    /\ UNCHANGED <<now, shift, filled, report, offer, offerVars, workVars, tx>>

(* flagNoShowCandidate, revalidated under the seat lock.  The shift is not *)
(* rolled up.                                                              *)
FlagNoShow(p) ==
    /\ seat[p] = "confirmed" /\ ~checkedIn[p] /\ att[p] = "none"
    /\ shift \notin {"cancelled", "completed"}
    /\ starts[p] + NoShowGrace <= now
    /\ seat' = [seat EXCEPT ![p] = "no_show"]
    /\ UNCHANGED <<now, shift, filled, report, offer, offerVars, workVars, tx>>

(* flagMissingClockOutCandidate reads the attendance without a lock and    *)
(* writes the label whatever has happened since.  claimWorkerEvent admits  *)
(* one such transaction per attendance.                                    *)
FlagMissingRead(p) ==
    /\ \A t \in tx : t.op = "flagMissing" => t.p # p
    /\ att[p] = "clocked_in" /\ ~out[p]
    /\ shift # "cancelled"
    /\ EndsAt + MissingGrace <= now
    /\ begin("flagMissing", p)

FlagMissingCommit(t) ==
    /\ end(t, "flagMissing")
    /\ att' = [att EXCEPT ![t.p] = "missing_clock_out"]
    /\ UNCHANGED <<now, shift, filled, report, seat, offer, offerVars,
                   checkedIn, reviewed, out, payroll>>

(* recordAttendance reads the shift before it takes any lock ...           *)
RecordRead(p) ==
    /\ shift # "cancelled"
    /\ p \in ReportSeats
    /\ begin("record", p)

(* ... and creates the row under the report and shift locks without        *)
(* looking at the shift's status again.                                    *)
RecordCommit(t) ==
    /\ end(t, "record")
    /\ report # "finalised"
    /\ att[t.p] = "none"
    /\ seat[t.p] = "confirmed" \/ (seat[t.p] = "no_show" /\ ~reviewed[t.p])
    /\ starts[t.p] - EarlyLead < now
    /\ att'  = [att EXCEPT ![t.p] = "under_review"]
    /\ out'  = [out EXCEPT ![t.p] = TRUE]
    /\ seat' = [seat EXCEPT ![t.p] = "completed"]
    /\ completeShiftIfSettled
    /\ UNCHANGED <<now, filled, report, offer, offerVars, checkedIn, reviewed, payroll>>

(* resolveCorrectionStatus: whether a time change of p is allowed now.  It *)
(* always leaves the row under review, with a clock-out recorded.          *)
Correctable(p) ==
    \/ /\ att[p] = "clocked_out"
       /\ assertTransition(ATTENDANCE_TRANSITIONS, att[p], "under_review")
    \/ att[p] = "under_review"
    \/ att[p] = "missing_clock_out"
    \/ att[p] = "clocked_in" /\ EndsAt + MissingGrace <= now

(* Mutant: times change after the report was finalised.                    *)
CorrectTimesAnytime(p) ==
    /\ Correctable(p)
    /\ att'      = [att EXCEPT ![p] = "under_review"]
    /\ out'      = [out EXCEPT ![p] = TRUE]
    /\ reviewed' = [reviewed EXCEPT ![p] = FALSE]
    /\ UNCHANGED <<now, shift, filled, report, seat, offer, offerVars,
                   checkedIn, payroll, tx>>

(* correct and recordOnExisting, with persistManagerTimes: an earlier      *)
(* review is cleared; neither the seat nor the shift moves.                *)
CorrectTimes(p) ==
    /\ report # "finalised"
    /\ Correctable(p)
    /\ att'      = [att EXCEPT ![p] = "under_review"]
    /\ out'      = [out EXCEPT ![p] = TRUE]
    /\ reviewed' = [reviewed EXCEPT ![p] = FALSE]
    /\ UNCHANGED <<now, shift, filled, report, seat, offer, offerVars,
                   checkedIn, payroll, tx>>

-----------------------------------------------------------------------------
(* The shift report (shift-report.service.ts)                              *)

setReviewed(p, b) ==
    /\ reviewed' = [reviewed EXCEPT ![p] = b]
    /\ UNCHANGED <<now, shift, filled, report, offer, offerVars,
                   checkedIn, att, out, payroll>>

(* reviewAttendance; on a provisional no-show this confirms it.            *)
ReviewAttendance(p) ==
    /\ report # "finalised"
    /\ p \in ReportSeats /\ ~reviewed[p]
    /\ StartsAt <= now
    /\ att[p] # "clocked_in"
    /\ seat[p] = "no_show" \/ out[p]
    /\ setReviewed(p, TRUE)
    /\ UNCHANGED <<seat, tx>>

(* confirmNoShow.  lockSeat is one statement: it joins the attendance on   *)
(* its own snapshot and then waits for the seat row lock, so with          *)
(* StaleLockReads an attendance committed during the wait is not seen.     *)
(* One that is in the snapshot is refused.                                 *)
ConfirmNoShowRead(p) ==
    /\ p \in ReportSeats /\ att[p] = "none"
    /\ begin("confirmNoShow", p)

ConfirmNoShowCommit(t) ==
    /\ end(t, "confirmNoShow")
    /\ report # "finalised"
    /\ StaleLockReads \/ att[t.p] = "none"
    /\ \/ seat[t.p] = "no_show" /\ ~reviewed[t.p]
       \/ seat[t.p] = "confirmed" /\ starts[t.p] + NoShowGrace <= now
    /\ seat' = [seat EXCEPT ![t.p] = "no_show"]
    /\ setReviewed(t.p, TRUE)

(* reopenNoShow, under the shift row lock: only while a seat is vacant.    *)
ReopenNoShow(p) ==
    /\ report # "finalised"
    /\ seat[p] = "no_show" /\ reviewed[p]
    /\ EffectiveFilled < Required
    /\ setReviewed(p, FALSE)
    /\ UNCHANGED <<seat, tx>>

(* isReportReady                                                           *)
ReportReady ==
    /\ ReportSeats # {}
    /\ \A p \in ReportSeats : /\ att[p] # "clocked_in"
                              /\ seat[p] = "no_show" \/ out[p]

(* finalise, with payroll.createPendingForShift in the same transaction    *)
Finalise ==
    /\ report # "finalised"
    /\ StartsAt <= now
    /\ ReportReady
    /\ \A p \in ReportSeats : reviewed[p]
    /\ \A p \in ReportSeats :
          att[p] \in {"none", "approved"}
            \/ assertTransition(ATTENDANCE_TRANSITIONS, att[p], "approved")
    /\ att' = [p \in Staff |-> IF p \in ReportSeats /\ att[p] # "none"
                               THEN "approved" ELSE att[p]]
    /\ report'  = "finalised"
    /\ payroll' = payroll \cup {p \in Staff : att'[p] = "approved"}
    /\ UNCHANGED <<now, shift, filled, seat, offer, offerVars,
                   checkedIn, reviewed, out, tx>>

-----------------------------------------------------------------------------
Tick ==
    /\ now < MaxTime
    /\ now' = now + 1
    /\ UNCHANGED <<shift, filled, report, seat, offer, offerVars, workVars, tx>>

Init ==
    /\ now = 0 /\ shift = "open" /\ filled = 0 /\ report = "pending"
    /\ seat      = [p \in Staff |-> "none"]
    /\ offer     = [p \in Staff |-> "none"]
    /\ kind      = [p \in Staff |-> "standard"]
    /\ starts    = [p \in Staff |-> StartsAt]
    /\ expires   = [p \in Staff |-> 0]
    /\ checkedIn = [p \in Staff |-> FALSE]
    /\ reviewed  = [p \in Staff |-> FALSE]
    /\ att       = [p \in Staff |-> "none"]
    /\ out       = [p \in Staff |-> FALSE]
    /\ payroll   = {} /\ tx = {}

Sending ==
    \E ttl \in Lifetimes :
        \/ \E S \in SUBSET Staff :
              \/ \E from \in Starts : Send(S, from, ttl)
              \/ PipelineReplace(S, ttl)
              \/ SendReplacement(S, ttl)
        \/ \E p \in Staff : ApproveReplacement(p, ttl)

Answering ==
    \E p \in Staff :
        \/ StaffAccept(p) \/ ExpireOffer(p) \/ Decline(p) \/ Withdraw(p)
        \/ ManagerReject(p) \/ WithdrawUnconfirmed(p) \/ Confirm(p)
        \/ CancelOffer(p) \/ CancelBooking(p)

Working ==
    \E p \in Staff :
        \/ CheckIn(p) \/ ClockIn(p) \/ ClockInOnBehalf(p) \/ FlagNoShow(p)
        \/ CorrectTimes(p) \/ ReviewAttendance(p) \/ ReopenNoShow(p)

Reading ==
    \E p \in Staff :
        \/ FollowupRead(p) \/ ClockOutRead(p) \/ FlagMissingRead(p)
        \/ RecordRead(p) \/ ConfirmNoShowRead(p)

Committing ==
    \E t \in tx :
        \/ FollowupCommit(t) \/ ClockOutCommit(t) \/ FlagMissingCommit(t)
        \/ RecordCommit(t) \/ ConfirmNoShowCommit(t) \/ Abort(t)

Next == \/ Sending \/ Answering \/ CancelShift \/ Working \/ Reading
        \/ Committing \/ Finalise \/ Tick

Spec == Init /\ [][Next]_vars

(* The Worker's jobs repeat every minute, claim what is due and retry what *)
(* failed: an expiry or a withdrawal that stays due is done, a transaction *)
(* ends, and a follow-up that is attempted again and again succeeds in the *)
(* end.  Nothing is assumed of managers and staff.                         *)
Followup(p) == \E t \in tx : t.p = p /\ FollowupCommit(t)

Fairness ==
    /\ WF_vars(Tick)
    /\ WF_vars(Committing)
    /\ \A p \in Staff :
          /\ WF_vars(ExpireOffer(p)) /\ WF_vars(WithdrawUnconfirmed(p))
          /\ SF_vars(FollowupRead(p)) /\ SF_vars(Followup(p))

FairSpec == Spec /\ Fairness

-----------------------------------------------------------------------------
(* Properties                                                              *)

(* Every variable has the values its column can hold.                      *)
TypeOK ==
    /\ now \in 0 .. MaxTime /\ shift \in ShiftStatus /\ filled \in Nat
    /\ report \in {"pending", "finalised"}
    /\ seat \in [Staff -> SeatStatus] /\ offer \in [Staff -> OfferStatus]
    /\ kind \in [Staff -> OfferKind] /\ starts \in [Staff -> Nat]
    /\ expires \in [Staff -> Nat]
    /\ checkedIn \in [Staff -> BOOLEAN] /\ reviewed \in [Staff -> BOOLEAN]
    /\ att \in [Staff -> AttStatus] /\ out \in [Staff -> BOOLEAN]
    /\ payroll \subseteq Staff /\ tx \subseteq Tx

(* The approval-time claim never overstaffs a shift that is not cancelled, *)
(* whatever mix of standard, replacement and standby offers, no-shows,     *)
(* reopened no-shows and recorded attendance led there; and                *)
(* shift_capacity_bound holds.                                             *)
SeatsWithinCapacity ==
    /\ shift # "cancelled" => Cardinality(Occupied) <= Required
    /\ filled <= Required

(* An offer and its seat never contradict each other: accept, decline,     *)
(* withdrawal, confirmation and cancellation each move the pair together,  *)
(* also when the Worker and a manager race for it.                         *)
OfferSeatAgree ==
    \A p \in Staff :
        /\ offer[p] = "none" <=> seat[p] = "none"
        /\ offer[p] = "pending" => seat[p] = "offered"
        /\ offer[p] = "staff_accepted" <=> seat[p] = "staff_accepted"
        /\ offer[p] = "manager_confirmed" =>
              seat[p] \in {"confirmed", "completed", "no_show", "cancelled"}
        /\ seat[p] \in {"confirmed", "completed", "no_show"} =>
              offer[p] = "manager_confirmed"

(* completeShiftIfSettled only completes a shift nobody still holds an     *)
(* open seat on, and nothing opens a seat on it afterwards.  And a shift   *)
(* without an open seat is not left running, but for the two handlers that *)
(* close one without the roll-up: a no-show, and, where clock-in opens     *)
(* before cancelling closes, the cancellation of an unconfirmed offer.     *)
CompletedShiftSettled ==
    LET settled == \A p \in Staff : seat[p] \notin OPEN_SEAT_STATUSES
    IN  /\ shift = "completed" => settled
        /\ shift = "in_progress" /\ settled =>
              \E p \in Staff :
                  \/ seat[p] = "no_show"
                  \/ EarlyLead > CancelLead /\ seat[p] \in {"withdrawn", "cancelled"}

(* The fill status the managers see agrees with filled_count, through      *)
(* every confirmation and booking cancellation.                            *)
FillStatusAgrees ==
    /\ shift \in {"open", "offered"} => filled = 0
    /\ shift = "partially_filled" => 0 < filled /\ filled < Required
    /\ shift = "fully_filled" => filled = Required

(* A booked staff member is never locked out by the shift's status: unless *)
(* the shift was cancelled, markShiftInProgress accepts their clock-in.    *)
BookedSeatCanClockIn ==
    (\E p \in Staff : seat[p] = "confirmed" /\ att[p] = "none")
      => \/ shift \in {"in_progress", "cancelled"}
         \/ assertTransition(SHIFT_TRANSITIONS, shift, "in_progress")

(* Recorded attendance keeps its booked seat.  It is only ever opened on a *)
(* booked seat, by either clock-in or by recordAttendance, and the seat    *)
(* only stops being booked by the follow-up of a cancelled shift, or by a  *)
(* confirmNoShow in flight whose locking read was stale.  No other writer, *)
(* the Worker's no-show flag least of all, gets between a clock-in and its *)
(* seat.                                                                   *)
Booked(s) == s \in {"confirmed", "completed"}

WorkKeepsSeat(p) ==
    /\ att[p] = "none" /\ att'[p] # "none" =>
          Booked(seat'[p]) /\ offer'[p] = "manager_confirmed"
    /\ att[p] # "none" /\ Booked(seat[p]) /\ ~Booked(seat'[p]) =>
          \/ seat'[p] = "cancelled" /\ shift = "cancelled"
          \/ /\ StaleLockReads
             /\ seat'[p] = "no_show" /\ reviewed'[p]
             /\ \E t \in tx \ tx' : t.op = "confirmNoShow" /\ t.p = p

WorkKeepsItsSeat == [][\A p \in Staff : WorkKeepsSeat(p)]_vars

(* A shift only becomes overbooked by somebody who worked: a stale locking *)
(* read had confirmed their no-show although they had clocked in, the seat *)
(* went to a replacement, and their clock-out or the correction of their   *)
(* times gives it back without looking for a vacancy.  No confirmation,    *)
(* reopened no-show or recorded attendance overbooks a shift.              *)
OverbooksOnlyLate ==
    [][SeatsWithinCapacity /\ ~SeatsWithinCapacity' =>
         StaleLockReads /\ \E p \in ConfirmedNoShows : att[p] # "none" /\ p \in Occupied']_vars

(* Work that has a payroll record was clocked out and reviewed, no         *)
(* correction or clock-out undoes that after the report was finalised, and *)
(* the approval is only ever relabelled by a late missing-clock-out flag.  *)
(* The finalised report pays all the reviewed work it lists: what joins it *)
(* later, a replacement's seat, is unreviewed.                             *)
PaidWorkReviewed ==
    /\ \A p \in payroll : /\ report = "finalised" /\ reviewed[p] /\ out[p]
                          /\ att[p] \in {"approved", "missing_clock_out"}
    /\ report = "finalised" =>
          \A p \in ReportSeats : reviewed[p] /\ att[p] # "none" => p \in payroll

(* A shift, an offer, a seat or an attendance only takes a step its table  *)
(* has.  Three writes bypass the tables: a clock-out completes a seat that *)
(* was cancelled since it was read, but only the seat of somebody who is   *)
(* still clocked in to a cancelled shift; a manager's correction puts any  *)
(* row of an open report under review, to be reviewed again; and a         *)
(* missing-clock-out flag overwrites the status it did not lock.           *)
StepLegal ==
    /\ shift' # shift => assertTransition(SHIFT_TRANSITIONS, shift, shift')
    /\ \A p \in Staff :
          /\ offer'[p] # offer[p] /\ offer[p] # "none"
                => assertTransition(OFFER_TRANSITIONS, offer[p], offer'[p])
          /\ seat'[p] # seat[p] /\ seat[p] # "none" =>
                \/ assertTransition(SHIFT_ASSIGNMENT_TRANSITIONS, seat[p], seat'[p])
                \/ /\ seat[p] = "cancelled" /\ seat'[p] = "completed"
                   /\ shift = "cancelled"
                   /\ att[p] = "clocked_in" /\ att'[p] = "clocked_out"
          /\ att'[p] # att[p] /\ att[p] # "none" =>
                \/ assertTransition(ATTENDANCE_TRANSITIONS, att[p], att'[p])
                \/ /\ att'[p] = "under_review"
                   /\ report # "finalised" /\ ~reviewed'[p] /\ out'[p]
                \/ /\ att'[p] = "missing_clock_out"
                   /\ \E t \in tx \ tx' : t.op = "flagMissing" /\ t.p = p

(* No race makes a shift, an offer, a seat or an attendance take a step    *)
(* its table does not have, but for those three, or leave a terminal       *)
(* status.                                                                 *)
StepsLegal == [][StepLegal]_vars

(* No offer waits for ever: an unanswered one expires and an unconfirmed   *)
(* acceptance is withdrawn at its deadline; on a cancelled shift, where    *)
(* that withdrawal stands back, the follow-up closes it.                   *)
OffersResolve ==
    \A p \in Staff :
        offer[p] \in {"pending", "staff_accepted"}
          ~> offer[p] \notin {"pending", "staff_accepted"}

(* Cancelling a shift in the end releases everybody who holds an open seat *)
(* on it, although the follow-up reads the seat without a lock.            *)
CancelledSeatsClose ==
    \A p \in Staff :
        shift = "cancelled" /\ seat[p] \in OPEN_SEAT_STATUSES
          ~> seat[p] \notin OPEN_SEAT_STATUSES

-----------------------------------------------------------------------------
(* The promise of an abstract seat allocator, of which offers, no-shows,   *)
(* clock-ins and reports are the implementation.                           *)
Worked == {p \in Staff : att[p] # "none"}

Allocation == INSTANCE SeatAllocation WITH
    taken <- Occupied, working <- Worked, open <- shift # "cancelled",
    Blind <- StaleLockReads

(* Every handler keeps the allocator's promise: confirmations and reopened *)
(* no-shows only take vacant seats, attendance is only opened on a seat    *)
(* that is taken, and a seat with attendance is only released, or          *)
(* restored, on a cancelled shift or by a locking read that was stale.     *)
KeepsAllocation == Allocation!Spec
=============================================================================
