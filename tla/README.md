# Crewflow in TLA+: shifts, message delivery and sessions

Crewflow (packages `rab-*`) staffs hospitality shifts. A manager publishes a
shift, offers its seats to staff, confirms those who accept, follows the work
on the day (check-in, clock-in, clock-out, no-shows, replacements) and
finalises a report that creates the payroll records. An API server
(`packages/rab-server`, NestJS and TypeORM on PostgreSQL) and a Worker
(`packages/rab-worker`, BullMQ jobs that repeat every minute) write the same
tables at the same time. What they write about is told to people by email,
push and realtime events, each through an outbox table that a dispatcher and
workers empty; and every request is made in a session whose refresh tokens
rotate. This directory models these three parts, checks them with TLC and
proves their safety with TLAPS.

Short names for source paths used below:

| name | path |
|---|---|
| offer | `packages/rab-server/src/modules/offer/services/` |
| attendance | `packages/rab-server/src/modules/attendance/services/` |
| scheduling | `packages/rab-server/src/modules/scheduling/` |
| jobs | `packages/rab-worker/src/queues/` |
| state | `packages/rab-shared/src/state/` |
| core | `packages/rab-server/src/engine/core-modules/` |
| sql | `packages/rab-server/src/database/typeorm/core/` |

## 1. Inventory

| component | state | operations | what makes it correct |
|---|---|---|---|
| status tables (state) | four transition tables | `assertTransition` | every status change is an edge of its table |
| offers (offer) | `job_offer`, `shift_assignment` | send, bulk send, replacement and standby send, pipeline replace, accept, decline, withdraw, reject, confirm, cancel | offer and seat never contradict each other; a deadline or an expiry is applied once, also when it races an answer |
| seats and vacancy (offer) | `shift.filled_count`, seat statuses, `attendance_reviewed_at` | the claim in `applyOfferConfirmation`, `loadShiftVacancy` | no shift is overstaffed; the fill status agrees with the count |
| shift cancellation (scheduling, jobs) | `shift.status` | `cancel`, the follow-up job | every open seat is released in the end |
| shift completion (scheduling) | `shift.status` | `completeShiftIfSettled` | completed means nobody holds an open seat |
| attendance (attendance, jobs) | `attendance`, `checked_in_at` | check-in, clock-in and clock-out (own, on behalf, geofence), record, correct, missing-clock-out flag | recorded attendance is not lost or overridden; a booked person can clock in |
| no-show monitor (jobs) | seat status | `flagNoShowCandidate` | races clock-in without overriding it |
| shift report (attendance) | `shift_report`, reviews | review, confirm and reopen no-show, finalise | nothing unreviewed is paid |
| payroll | `payroll_record`, `payroll_run` | create at finalisation, approve, reject, run | one record per approved attendance; paid work stays approved |
| replacement requests (offer, jobs) | `replacement_request` | request, approve, decline, expire | one open request per seat; closed with its shift |
| drafting and publishing (scheduling) | `shift` before publication | draft, submit, approve, decline, publish, archive | archived, edited and declined shifts stay what they are when sessions overlap; a cancelled shift is not published (it can be, section 6) |
| email outbox (core, jobs) | `email_outbox`, BullMQ jobs | enqueue, dispatch, recover, claim, send, record, retry, cancel, replay | no email lost or stuck; none sent again while an earlier call may have delivered; outcomes stick |
| push outbox (core, jobs) | `push_delivery`, `push_device`, BullMQ jobs | create, dispatch, recover, claim, send, record | the same, with a provider that never deduplicates |
| realtime outbox (core, jobs) | `realtime_event`, leases | record, claim, publish, renew, complete, retry, cancel | completed means published; publishes bounded; every event settled |
| dispatch pointers (sql, jobs) | `worker_dispatch_pointer`, leases | triggers, claim, release, sweep, wake-up | a pointer for every open row and none for a settled one |
| other due work and timer triggers | due-work rows | claim, complete, retry | work that is due is done, and not by two owners at once |
| sessions (core) | `user_session`, `refresh_token`, `push_device` | sign in, rotate, reuse detection, log out, revoke, change password, suspend | one token per login works; an ended session stays ended, although requests extend it |
| tenant context, permissions, infrastructure, read models, assistant, user interfaces | | | no effect on the state of a shift |

Interaction. Handlers and jobs never call each other: they meet in the rows of
one database. What is hard here is therefore what two transactions do to each
other under READ COMMITTED: a status read before a lock and used after it, a
compare-and-set that loses, a roll-up that one of several writers forgets, a
Worker that is late, and long sequences (cancel, replace, reopen, correct) in
which a counter drifts from what it counts. In delivery the other party is no
transaction at all: a job that is lost, repeated or late, a provider whose
answer never arrives, a worker that outlives its lease. In sessions it is a
row inserted while another statement already chose the rows it will update.
`PROJECT.json` lists these hazards at their lines.

## 2. Modules

| module | models |
|---|---|
| `Transitions` | the four tables of `state/` and `assertTransition` |
| `ShiftPublishing` | one shift before and while it is published: drafts, requests, publication, first offers; its properties |
| `ShiftLifecycle` | one published shift, every handler and job that changes it; the properties; implements `SeatAllocation` |
| `SeatAllocation` | what a shift promises about its seats: an abstract specification |
| `Delivery` | what an outbox promises about one message: the abstract specification |
| `EmailOutbox` | one email from enqueue to its outcome; implements `Delivery` |
| `PushDelivery` | one push and its device; implements `Delivery` |
| `RealtimeDispatch` | realtime events, their dispatch pointers and the runs that publish them |
| `Sessions` | the sessions, refresh tokens and push registration of one user |
| `MC...` | symmetry for TLC, one per component |
| `...Proofs` | the inductive invariant and the theorems, one per component or abstract specification |

### ShiftLifecycle

`shift`, `filled`, `report` are columns of the shift and its report. `seat`,
`offer`, `kind`, `starts`, `expires`, `checkedIn`, `reviewed`, `att` and `out`
are functions on the staff: the columns of the one seat, offer and attendance
row a staff member can have on a shift (a unique constraint; "none" is no
row). `payroll` is the set of staff with a payroll record. `now` is the
database clock. `tx` holds the transactions that have read and not yet
written.

Actions and transactions.

A handler that takes the row lock of the shift before it decides, or whose
write is an UPDATE guarded by the status it needs, is **one action**, at its
commit: the guard is what the locked read or the UPDATE tests. A handler that
decides on a row it read without a lock is **two actions**: a `...Read` that
puts a record of what it read into `tx`, and a `...Commit` that uses it.
Anything may commit in between. `Abort` is a transaction that rolls back: a
lost compare-and-set, an error, a deadlock PostgreSQL broke, a process that
died.

| actions | code |
|---|---|
| `Send`, `PipelineReplace`, `SendReplacement`, `ApproveReplacement`, all through `sendOne` | `offer.service.ts`, `venue-offer-pipeline.service.ts`, `replacement-request.service.ts` |
| `StaffAccept`, `Decline`, `Withdraw`, `ManagerReject` | `offer.service.ts` |
| `ExpireOffer`, `WithdrawUnconfirmed` | `claim-expired-offer.ts`, `withdraw-unconfirmed-offer.ts`, called by the Worker and, lazily, by late answers |
| `Confirm` with `claimSeat` | `apply-offer-confirmation.ts` |
| `CancelOffer`, `CancelBooking` | `cancelBookingWithManager` in `offer.service.ts` |
| `CancelShift`, `FollowupRead`, `FollowupCommit` | `scheduling.service.ts`, `shift-cancellation-followup.job.ts` |
| `CheckIn`, `ClockIn`, `ClockInOnBehalf`, `ClockOutRead`, `ClockOutCommit`, `RecordRead`, `RecordCommit`, `CorrectTimes` | `attendance.service.ts` |
| `FlagNoShow` | `shift-monitor.job.ts` |
| `FlagMissingRead`, `FlagMissingCommit` | `attendance-monitor.job.ts` |
| `ReviewAttendance`, `ConfirmNoShowRead`, `ConfirmNoShowCommit`, `ReopenNoShow`, `Finalise` | `shift-report.service.ts` |
| `completeShiftIfSettled`, part of every action whose handler calls it | `complete-shift-if-settled.ts` |

`StaleLockReads` says what a `SELECT ... LEFT JOIN attendance ... FOR UPDATE
OF sa` returns after it waited for the seat's lock. TRUE is PostgreSQL's rule:
the locked row is read again, the joined rows are those of the statement's
snapshot. FALSE is what `lockSeat`'s comment expects ("decided on committed
state"). Only `confirmNoShow` depends on it.

### SeatAllocation

The seats of one shift seen from outside: who has one (`taken`), who has
recorded work (`working`) and whether the shift stands (`open`). A seat is
taken only while one is vacant, work is recorded only for somebody who has a
seat, and while the shift stands somebody who worked neither loses nor regains
a seat. `Blind` lifts the last promise: it is the allocator whose release
cannot see the work that was just recorded. `ShiftLifecycle` implements it
with `taken` the occupied seats of `occupiedSeatSql`, `working` the staff with
an attendance row, `open` a shift that is not cancelled, and `Blind` the stale
locking reads (`KeepsAllocation`).

### ShiftPublishing

State: `status`, `archived` and `row` (times and required count) of the shift;
`managed`, whether its `created_by` may publish it and send offers;
`requested`, the rows of `shift_request_staff`; `sent`, who has a seat and an
offer; `batch`, the offer batch an approval recorded; `tx`, one slot per
session.

| actions | code |
|---|---|
| `CreateDraft`, `SubmitRequest`, `CreateShiftAndSend` | `createDraftTx`, `submitRequest`, `createShiftAndSend` |
| `UpdateDraftRead`, `UpdateDraftCommit` | `getOwnDraftTx`, `updateDraftTx` |
| `PublishRead`, `PublishCommit` | `publish` |
| `ArchiveShift`, `RestoreShift`, `Cancel` | compare-and-set handlers of `scheduling.service.ts` |
| `RemoveRequestedStaff`, `AddRequestedStaff`, `SetRequestedStaff`, `DeclineRequest`, `ApproveShiftRequest` | the request handlers, all under the shift row lock |
| `Send` | `send`, `sendBulk` |

The database's own CHECKs are part of the model where they decide: an
archived shift cannot leave `draft` (`SetStatus`), and a new shift ends after
it starts (`TimeOrder`). `UpdateDraftCommit` does not use the second, so that
`TimesOrdered` says the handler never runs into it.

The two modules share `Transitions` and meet at publication: the states of
`ShiftPublishing` with status `open` or `offered`, nothing answered and no
publish in flight are those `ShiftLifecycle` starts from and reaches with its
sends. A publish still in flight is outside `ShiftLifecycle`; section 6 says
what it can do to a cancelled draft.

`ShiftLifecycle` abstracts two details besides. `sendOne` gives a seat a start
of its own but no end of its own, and does not widen the shift's times to
cover a seat that starts or ends outside them (`offer.service.ts:622`):
`Starts` lies within the shift. `FlagNoShow` tests the shift's status when it
commits, where the job reads it a moment before without a lock
(`shift-monitor.job.ts:499`): a shift cancelled in that moment can get a
no-show on a seat that its follow-up would have cancelled (a completed shift
has no confirmed seat to flag).

Left out because no property here tells it apart: who may call a handler,
eligibility and availability of staff, QR codes and location evidence, pay
figures, breaks, audit rows, notifications. Statuses no path writes are left
out of the tables (`Transitions` names them).

### Delivery

One message seen from outside: `state`, the provider calls that may have
delivered (`live`, from the announcement of a call until it is seen to fail),
and `strict`: the channel cannot deduplicate and no operator accepted a
duplicate. A strict message is called only while no call is live, is "failed"
only when none is, and leaves "uncertain" only by a replay that gives up
strictness. "Seen to fail" is the code's own judgement of a thrown error; a
timeout of a provider that did deliver counts as a failure there, which is the
at-least-once delivery the code documents. `Trustworthy` says what a producer
may conclude from the contract alone.

### EmailOutbox and PushDelivery

State: the columns of the row (`status`, `count`, `gen`, `started`, `token`,
`code`; `stale` is "its timestamp is past the limit of its status"), BullMQ
(`outgoing`: committed but not yet added; `queue`; `retained`: job ids it has
seen, a second add of which it drops), one attempt per worker slot (`att`),
and the history `live`. `Strict` of an email depends on the driver; no push
driver deduplicates.

| actions | code |
|---|---|
| `Enqueue`, `CreateForNotification` | `email-outbox.service.ts`, `push-delivery.service.ts` |
| `Add`, `LosePublish`, `Withdraw` | the publish after the commit, its failure, and the withdrawal of `queued_at` |
| `Dispatch`: `FirstPublish`, `Recover...`, `FailExhausted`, `FailUncertain` | `email-dispatch.job.ts`, `push-dispatch.job.ts` |
| `Skip`, `Claim`, `CheckAttachment`, `PrepareFails`, `Send`, `PersistSent`, `HandleSendFailure` and their failing writes | `email-send.processor.ts` |
| `Skip`, `Claim`, `Send`, `DeactivateInvalidToken`, `PersistFailure`, `PersistAccepted` | `push-send.processor.ts` |
| `CancelOpen`, `ReplayFailedEmail` | `account-invite.service.ts` and its like, `outbox-retention-sql.ts` |
| `SetDevice` | `push-device.service.ts` |
| `Age`, `LoseJob`, `Crash` | time, Redis and process deaths |

A worker may die at any phase, any number of times; only the faults that cost
no attempt (a lost publish or job, a limit that runs out on a row somebody
still works on) are bounded.

### RealtimeDispatch

State: the rows (`status`, `due`, `count`, `tok`), their pointers (`ptr`:
timed by the row, by a lease, or due; `ptok`), and per Worker process the run
it is in (`pc`, `ids`, `batch`, `cur`, `sweepDue`).

| actions | code |
|---|---|
| `Insert` with `Retime` | `realtime-event.service.ts`, the trigger of `worker-dispatch-pointer-sql.ts` (part of every write of a row) |
| `SweepDue`, `Tick`, `Wake` | `dispatch-coordinator.ts` |
| `ClaimPointers`, `EndRun`, `NextBatch`, `RunFails` | `runGlobalDispatch` in `dispatch-claims.ts` |
| `Sweep`, `ClaimScope`, `Renew`, `Cancel`, `Publish`, `Complete`, `MarkRetry` | `publish-outbox.job.ts`, `realtime-event.ts` |
| `Lapse`, `PointerLapse` | time |

Init has rows without a pointer, as a database migrated to the triggers has.
Left out: deletion of rows by retention, the bound on batches per run (a run
that hits it starts again at once) and the budget of follow-up sweeps (a
follow-up is a `Tick` with the sweep due). The email and push dispatchers are
driven by the same pointers; there `Dispatch` stands for a run that reaches
the row, and this module shows that runs do.

### Sessions

State: `sess`, `fam`, `tok` (the rows), `suspended`, `device`, and per request
the statement it is at, what it still has to lock (`want`) and what it holds
(`held`, `ends`, `drop`). A session is live, idle (past `idle_expires_at`),
over (past `absolute_expires_at`) or revoked. Statements are steps, since the races here are
between statements: an UPDATE of several rows fixes its rows when it starts,
locks them one by one, and does not see a row inserted meanwhile.

The guard of an authenticated request is a REPEATABLE READ transaction. It
reads session, tokens and suspension on one snapshot (`Authorises`,
`Admitted`) and, when the session was last seen more than five minutes ago,
moves `idle_expires_at` on from its own start (`Bump`). The deadline may have
passed since that start, so that a bump can bring an idle session back. A
write of the session row since the snapshot makes the bump fail with 40001,
and the guard starts again or the request fails; `stale` holds the guards that
will meet this. A suspension refuses the request only after the bump, and
never a logout; users without an organisation, whom no suspension reaches, are
left out.

| actions | code |
|---|---|
| `RefreshLock`, `RefreshCheck`, `RefreshCommit`, `ReuseDetected` | `rotate` in `refresh-token.service.ts`, `refresh` in `auth.service.ts` |
| `LoginVerify`, `LoginIssue`, `Logout` | `auth.service.ts` |
| `RevokeFamily`, `RevokeOthers`, `RevokeUser` | `profile.service.ts` |
| `ChangePassword`, `Suspend`, `Reactivate` | `auth.service.ts`, `organisation-suspension.service.ts` |
| `LockToken`, `RevokeSessions`, `RevokeDevices`, `RevokeCommit` | the statements of every revocation, `refresh-token.service.ts`, `push-device-deactivation.ts` |
| `Guard`, `GuardBump`, `GuardPass`, `GuardConflict`, `Visit` | `jwt-auth.guard.ts`, `auth-security-snapshot.service.ts`, `session-validity.service.ts`, `organisation-suspended.guard.ts` |
| `Expire`, `PassDeadline` | time against `idle_expires_at` and `absolute_expires_at` |
| `Register` | `push-device.service.ts` |
| `Abort`, `Victim` | a process that dies; a deadlock PostgreSQL breaks |

Left out: access tokens, second factors, sign-in limits, families older than
`user_session`, and a logout that presents the refresh token of another login
of the same user.

## 3. Runs

| run | instance | shows |
|---|---|---|
| `two_seats` | 3 staff, 2 seats, 2 start times, no split transaction | types; the arithmetic of `filled_count`, occupied seats and confirmed no-shows on a partly filled shift; nobody booked is locked out |
| `races` | 2 staff, 1 seat, 2 split transactions, stale locking reads | offers and seats agree, a completed shift is settled and a settled one not left running, paid work is reviewed and reviewed work paid, every status takes legal steps, seats are allocated as `SeatAllocation` allows, recorded work loses its seat or overbooks the shift in one way only |
| `liveness` | 1 staff, 2 split transactions, fairness | no offer waits for ever; a cancelled shift releases its seats |
| `publishing` | 3 staff, 2 sessions, 3 instants, counts 1 and 2 | drafts and requests: archive, edit, selection, approval and first offers under races of publishes and edits |
| `email_delivery` | 2 workers, 2 attempts, throttling, 1 fault, fairness | an email is never resent blindly, is settled in the end, and keeps the contract |
| `email_replay` | 2 workers, 1 attempt, 1 fault, 1 replay | a replay beside late workers sends no unaccepted duplicate |
| `push` | 2 workers, 2 attempts, 3 faults, fairness | the same for pushes, whose published rows stay PENDING |
| `realtime` | 1 event, 2 processes, 2 attempts, 2 faults, fairness | publishes are bounded, pointers follow rows, every event is settled |
| `sessions` | 1 login, 2 requests at once, 3 tokens, 1 change, 1 abort, fairness | rotation, revocation and the guard's bump against each other |
| `claim_capacity`, `claim_devices`, `claim_publish` | the smallest instance that shows it | a documented claim the code does not keep, see section 6 |

Properties, and the mistake each would reveal:

* `SeatsWithinCapacity`: more people than `required_count` hold a seat, after
  any mix of standard, replacement and standby offers, no-shows and reopened
  no-shows. Not claimed for a cancelled shift, where a late clock-out may
  bring a released seat back.
* `OfferSeatAgree`: offer and seat contradict each other after a race.
* `CompletedShiftSettled`: a shift completes over an open seat, gets one
  afterwards, or is left running without one. The last has two exceptions,
  both in the code: a no-show never rolls the shift up; and
  `cancelBookingWithManager` does not either, which matters only where
  clock-in opens earlier than cancelling closes (`CLOCK_IN_EARLY_MINUTES` is
  configurable, the 15 minutes of `canCancelVenueOffer` are not; at the
  defaults they are equal and the exception is empty).
* `FillStatusAgrees`, `BookedSeatCanClockIn`: the shift's status no longer
  says what its seats do, or locks a booked person out.
* `WorkKeepsItsSeat`: attendance is opened on a seat that is not booked, or a
  writer takes the seat of somebody whose attendance is recorded. On a shift
  that stands the code has one such writer, a `confirmNoShow` whose locking
  read was stale; the Worker's flag, which races the same clock-in, is none.
* `OverbooksOnlyLate`: the same question as `SeatsWithinCapacity` under
  PostgreSQL's locking reads, where that one fails (`claim_capacity`): the step
  that overbooks a shift is the return of somebody who worked and whose no-show
  was confirmed, never a confirmation, a reopened no-show or a recorded
  attendance.
* `PaidWorkReviewed`: a correction undoes the review of work already paid, a
  late flag loses more than the label, or reviewed work of a finalised report
  has no payroll record.
* `StepsLegal`: a race writes a status its table does not allow, for shifts,
  offers, seats and attendance. Three writes bypass the tables and are named:
  a clock-out on a seat cancelled meanwhile, a correction of an open report,
  and the missing-clock-out flag.
* `KeepsAllocation`: a confirmation or a reopened no-show takes a seat that
  is not vacant, work is recorded without a seat, or a worked seat is given
  away other than through the stale read.
* `OffersResolve`, `CancelledSeatsClose`: an offer or seat nobody ever closes.
* `ArchivedIsDraft`: a publish that tested `archived_at` before an archive
  publishes an archived shift; the CHECK is what prevents it.
* `TimesOrdered`: two edits, each valid on what it read, combine into a shift
  that ends before it starts. They cannot because an edit writes both times;
  for the same reason one edit can undo another.
* `SelectionWithinRequired`, `ApprovedFromSelection`,
  `UnpublishedHasNoOffers`: edits of a request, its approval and its refusal
  by several managers select too many, send to someone removed, or send for a
  declined request.
* `NoBlindResend`, `KeepsContract`: a recovery calls a provider that cannot
  deduplicate while an earlier call may have delivered, or gives such a row up
  as plainly failed; for a push, a claim that leaves no mark is enough.
* `PlainFailureIsSafeToReplay`: an operator who does not allow duplicates
  causes one.
* `SentIsTrue`, `OutcomesStick`: a late worker overwrites an outcome, or
  claims one it did not have.
* `AttemptsAreCumulative`: a superseded worker, or the refund of a throttled
  attempt, rolls the attempt counter back, and the cap is never reached.
* `EventuallySettled`: a row nobody will ever look at again: a job id BullMQ
  refuses, a stamp that is never withdrawn, a pointer leased to a dead run, a
  row without a pointer.
* `CompletedWasPublished`, `PublishesBounded`, `PointerFollowsRow`: an event is
  marked done by a run that lost it, is published without end by runs that
  die, or keeps (or lacks) its pointer after a race of trigger and release.
* `OneLiveToken`, `LiveSessionHasToken`, `OneRotationSlipsThrough`: rotation
  and revocation leave two working tokens, a listed session without any, or
  an unbounded chain of tokens in a revoked login.
* `EndedStaysEnded`: a guard extends a session that was revoked or reached its
  absolute deadline, or brings an idle one back on a snapshot that another
  write has overtaken. An idle session can come back, through a guard that
  began in time; the property says that this chance is not renewed: once it is
  idle and no such guard is left, no request revives it. With a READ COMMITTED
  guard it fails.
* `ReuseEndsSession`: a replayed token is refused but its session lives on.

Bounds. `MaxTime` lets the clock pass every threshold the code tests (offer
expiry, confirmation deadline, cancellation lead, start, no-show grace, end,
missing-clock-out grace, end of the clock window or the action window); in
`races` it stops at the last of them that changes a status. Time constants are
small because only their order matters to a guard. `MaxTx` is 2 where races
are the question: a stale write needs one transaction in flight beside the
atomic handlers, two let a pair of stale writers meet. It is 0 in `two_seats`,
which asks about sequences of whole handlers. Two people and one seat are the smallest
competition; three and two the smallest shift that can be partly filled and
have a no-show replaced. Staff are interchangeable, so safety runs use
symmetry. The liveness properties speak of one staff member at a time and no
Worker action on one depends on another, so one is enough there. Deadlock is
not checked: a shift is over when it is finalised, declined or cancelled and
its time has passed. `publishing` needs three instants so that two edits of
different ends can cross, two sessions so that they can be in flight together,
and three staff members so that a request of two can be overfilled.

In the delivery runs two workers are a late one and the one that superseded
it; two attempts are one that fails and one at the cap; one fault lets a row
be recovered under a worker that is still alive. `email_replay` has one
attempt, so that the replay comes early, and adds the generation it draws. In
`realtime` two processes compete for the row, and two faults are a run that
dies and a lease that lapses under a live one. In `sessions` three tokens are
a login, a rotation and a second one after it. Deadlock is not checked: a row
that is settled, or a user who sends nothing, may stop. Larger instances were
checked once: email with 2 attempts, 1 fault and a replay, with symmetry
(3.2 million states), realtime with 2 events (323,000) and with 3 processes, 3 attempts and 3 faults
(517,000). The proofs of section 4 have no bounds.

Fairness of `ShiftLifecycle`. Weak fairness of the clock; of a transaction's
end (commit or rollback); of `ExpireOffer` and `WithdrawUnconfirmed`, since
the Worker scans for what is due every minute and what is due stays due.
Strong fairness of the cancellation follow-up: a job that fails is retried,
and the scan finds the seat again while it is open; strong because another
transaction may take the model's slots in between. Nothing is assumed of
managers and staff.

Fairness of the outboxes. Weak fairness of `Add`, of the limit of a row that
nobody attends to, of the dispatcher's tick, of a worker taking a job and of
an attempt going on. Deaths are not restricted: a worker may die in every
attempt, and the row is settled because a claim counts before it runs. A
stamp need not be withdrawn: the limit covers it. In `RealtimeDispatch`, weak
fairness of time and of a run's progress, strong fairness of `Tick`: a tick
that comes during a run is queued by `DispatchQueueRunner` and starts the
next one, so wake-ups cannot starve it.

Fairness of `Sessions`. Strong fairness of a request's next statement:
PostgreSQL grants a row lock in the order of arrival. A request may still be
the victim of a deadlock again and again, which `ReuseEndsSession` excepts.

## 4. Proofs

`ShiftLifecycleProofs` proves, for every set of staff, every number of seats,
every time constant and any number of transactions in flight:

| theorem | property |
|---|---|
| `TypeCorrect` | `TypeOK` |
| `OffersAgree` | `OfferSeatAgree` |
| `CompletionSettled` | `CompletedShiftSettled` |
| `FillAgrees` | `FillStatusAgrees` |
| `ClockInOpen` | `BookedSeatCanClockIn` |
| `WorkIsKept` | `WorkKeepsItsSeat` |
| `OverbookingIsLate` | `OverbooksOnlyLate` |
| `PaidWorkIsReviewed` | `PaidWorkReviewed` |
| `TablesKept` | `StepsLegal` |
| `ImplementsAllocator` | `KeepsAllocation` |
| `WaitingStaffFit` | `WaitingFit` of `SeatAllocation` |

The assumptions are those of `ShiftLifecycle`: a finite staff, at least one
seat, natural-number times, a shift that ends after it starts, individual
starts within it. No theorem assumes anything of `StaleLockReads`: all hold
under PostgreSQL's locking reads, where `SeatsWithinCapacity` fails, as
`claim_capacity` shows. `OverbookingIsLate` and `WaitingStaffFit` say how far
the failure goes: only the return of somebody who worked overbooks a shift,
and the people who hold a seat and have not worked never exceed
`required_count`. The exception of the first has `StaleLockReads` as a
conjunct: there is none left once `lockSeat` reads the attendance after it has
the lock.

One inductive invariant, `IInv`, carries all of them. The properties alone are
not inductive; the strengthenings are:

* `TxSound`: what a transaction in flight may still rely on. A follow-up's
  shift stays cancelled, and the offer it will close cannot have gone back to
  pending; a missing-clock-out flag has a row to write to. Without it a commit
  could write anything.
* `AttendanceBooked`: attendance belongs to a booked seat, to a no-show a
  stale read confirmed, or to a seat the follow-up cancelled with its shift; it
  keeps a clock-out from completing a seat nobody booked.
* `ApprovedIsFinal`, `ClosedHasTime`: finalisation pays only rows it approves,
  and those have a clock-out time, even on a no-show seat.
* `SeatsTimely` and `BookingsCounted`: no no-show before the start, hence
  until then `filled_count` covers every occupied seat. This is what makes
  `CancelBooking` right when it moves the shift back to `offered` at zero
  (lemma `LastBooking`).
* `UnfilledHasNoBooking`: with it `BookedSeatCanClockIn` follows.
* `ReviewedHasWork`: what was reviewed is a no-show or work that had ended.
  So nobody who joins a finalised report is taken for reviewed, and whatever
  is reviewed when the report is finalised is paid.

Capacity is proved through `SeatStep`: a step leaves the occupied seats as
they are or fewer, adds one while `EffectiveFilled` is below `Required`, or is
the return of a worked no-show (`Returned`);
`Counts` and `GrownByOne` turn that into cardinalities. The lemmas `SeatEdges`
and `AttendanceEdges` say which statuses each action writes over which, from
what its guard tests or its transaction may rely on; `TablesKept` and
`AllocationStep` rest on them. `AllocationStep` shows that every step of the
shift is a step of `SeatAllocation` or changes none of its variables.

`SeatAllocationProofs` proves of the abstract allocator, blind or not, that
`WaitingFit` holds always (`WaitingAlwaysFit`); `WaitingStaffFit` is this,
carried over by the refinement.

`ShiftPublishingProofs` proves `TypeOK` and the five invariants of
`publishing` (`PublishingTypes`, `OnlyDraftsArchived`, `EditsKeepOrder`,
`SelectionBounded`, `ApprovalUsesSelection`, `NoEarlyOffers`) for every finite
staff, any number of sessions and any inputs, from an invariant that adds
`EditsOrdered` (every edit in flight carries ordered times and a positive
count, or its commit could break what the row has) and `EarlyIsEmpty` (no
session before the shift exists, no selection on a draft, no batch before a
decision, or an edit of the count and a removal would not be safe).

The other modules of proofs hold for any number of workers, attempts,
throttled starts, faults, replays, events, requests, tokens and logins
(`Sessions` needs finitely many requests, `RealtimeDispatch` finitely many
processes and at least one attempt):

| module | theorems | properties |
|---|---|---|
| `DeliveryProofs` | `ContractIsTrustworthy` | `Trustworthy` |
| `EmailOutboxProofs` | `EmailTypes`, `NeverResentBlindly`, `SentIsAccepted`, `CapIsCumulative`, `PlainReplayIsSafe`, `EmailOutcomesStick`, `EmailKeepsContract`, `EmailIsTrustworthy` | `TypeOK`, `NoBlindResend`, `SentIsTrue`, `AttemptsAreCumulative`, `PlainFailureIsSafeToReplay`, `OutcomesStick`, `KeepsContract`, `Trustworthy` |
| `PushDeliveryProofs` | `PushTypes`, `AttemptsAreMarked`, `PushAttemptsBounded`, `PushOutcomesStick`, `PushKeepsContract`, `PushIsTrustworthy` | `TypeOK`, `AttemptedIsMarked` (of the proof), at most `MaxAttempts` attempts, `OutcomesStick`, `KeepsContract`, `Trustworthy` |
| `RealtimeDispatchProofs` | `RealtimeTypes`, `CompletedIsPublished`, `PublishesAreBounded`, `PointersFollowRows`, `RealtimeOutcomesStick` | `TypeOK`, `CompletedWasPublished`, `PublishesBounded`, `PointerFollowsRow`, `OutcomesStick` |
| `SessionsProofs` | `SessionsTypes`, `OneTokenPerLogin`, `SessionsKeepTheirToken`, `OneSlipsThrough`, `EndedSessionsStayEnded` | `TypeOK`, `OneLiveToken`, `LiveSessionHasToken`, `OneRotationSlipsThrough`, `EndedStaysEnded` |

Why their invariants are what they are:

* Email and push. `Fresh` (tokens are drawn once) makes the fence on the token
  mean something. `Announced` says when an attempt's call is live. `Cautious`
  is the heart: while a call of a strict row is live, the row is PROCESSING
  under that call's token and marked, or uncertain, or over; it gives
  `NoBlindResend`, and the steps of `Delivery`. `OwnerCounts` (the owner of
  the row was the last to count) makes the absolute write of the counter
  right; `SenderEnded` keeps the failure of another attempt from taking the
  call of a SENT row away, as `AcceptedStands` does for pushes.
  `AttemptsCounted` of pushes equates the row's count with the attempts made,
  which bounds them.
* `AttemptedIsMarked`, of pushes: what recovery finds attempted bears the
  mark, so it is given up and not published again.
* The refinements `EmailKeepsContract` and `PushKeepsContract` map the row's
  status to the contract's state; every action is shown to be a step of
  `Delivery` or to leave its variables alone. `Trustworthy` is proved once,
  of `Delivery`, and holds of both rows because they implement it.
* Realtime. `PublishesPaid`: the publishes made, plus the runs that still hold
  the row and may publish, never exceed the credit the attempt counter gives;
  a takeover counts exactly because it adds a holder. `AttemptsLeft`,
  `RunsTidy`, `PoisonKeptIn` and `ClaimedExists` support it and the pointers.
* Sessions. `Rotations` (a rotation holds the live token it was shown),
  `Revocations` (the sessions of the tokens a revocation has locked are ending
  with it) and `Locks` give the first two properties; `Late` says that the
  rotation that slipped through was the last under way, since the next one
  would find the session revoked. `RowsLeft` is about the model's bound.
* `EndedSessionsStayEnded` follows the guards under way: a new one begins only
  on a session it finds in time, a bump or a revocation makes every other one
  stale, and a stale one reads again before it may write. `SignIns` keeps a
  login from beginning in a family that has ended.

Only proved: `TypeOK` of every module but `ShiftLifecycle`,
`AttemptsAreMarked`, `PushAttemptsBounded`, `WaitingStaffFit` and the
`Trustworthy` theorems.

Only model-checked: `OffersResolve`, `CancelledSeatsClose`,
`EventuallySettled` of the three outboxes and `ReuseEndsSession` (the prover
does not reason about fairness).

## 5. Not modelled, and the plan

Not modelled and why is in `PROJECT.json`, component by component. The models
cover the parts in which transactions, jobs and processes meet; most of the
repository's lines are user interfaces, forms, read models, permission tables,
migrations and configuration, which keep no state of their own or change one
row in one statement, and a model of which would say only what they say.
Planned, in this order:

1. `PayrollRun`: approval, rejection and pay runs on the records `Finalise`
   creates, composed with the report.
2. `ReplacementRequest`: the request's own machine, its expiry job and its
   closure by the cancellation follow-up.
3. `DueWork`: the timed due-work rows of the shift jobs and their triggers, on
   the pattern of `RealtimeDispatch`; it justifies the fairness
   `ShiftLifecycle` assumes.
4. Two accounts on one device: a registration that moves from one to the other
   while a push is on its way.

Worth proving next: that the realtime outbox keeps a form of `Delivery` for a
channel that may repeat itself, and that `ShiftPublishing`, once a shift is
published and no publish is in flight, meets the initial states of
`ShiftLifecycle`.

Hazards without a property, beside those of section 6: an expired offer leaves
its seat `offered`, so that a running shift with one never completes, an open
question of the owner in `THREAT-MODEL.md:6171`; a clock-out and a duplicate
clock-in lock rows in opposite orders and PostgreSQL aborts one
(`attendance.service.ts:652`; row locks are not part of `ShiftLifecycle`, the
rollback is); `deactivateInvalidToken` deactivates a device by its id, even
when it registered a new token meanwhile (`push-device.service.ts:120`, in the
model, but nothing promises otherwise); two accounts that register the same
phone at once both stay active (`push-device.service.ts:43`).

## 6. Where code and documents disagree

Three have a run that expects a violation; `PROJECT.json` quotes the lines.

| run | what the code does |
|---|---|
| `claim_capacity` | a clock-in committed while `confirmNoShow` waits for the seat is not seen, and the seat is given away; this also breaks `confirmNoShow`'s own promise that recorded attendance is never overridden by a no-show (`shift-report.service.ts:388`), which `WorkKeepsItsSeat` excepts |
| `claim_devices` | a push registration that was authorised before a revocation is written after it and stays active on an account without a session; two concurrent revocations of the last two sessions leave it active too |
| `claim_publish` | `publish` writes OPEN by id on a status it read without a lock, so a cancellation committed in between succeeds and is undone, where `cancel` says that a race with any other status change ends in a 409 |

Met while modelling, reproduced by the models, without a run of their own; the
first four are named exceptions of `StepsLegal`, `CompletedShiftSettled` and
`PaidWorkReviewed`, which say that nothing worse happens there:

* a clock-out that read its seat before the follow-up cancelled it makes the
  cancelled seat completed (`attendance.service.ts:711`);
* a no-show that closes the last open seat of a running shift does not
  complete the shift (`shift-monitor.job.ts:463`);
* a replacement confirmed after finalisation joins a report that can no longer
  be reviewed (`apply-offer-confirmation.ts:77`);
* a late missing-clock-out flag overwrites an approved attendance
  (`attendance-monitor.job.ts:177`);
* an edit writes the fields its caller omitted back as it read them, over a
  newer edit (`scheduling.service.ts:813`);
* reopening a no-show after a replacement was confirmed leaves `filled_count`
  below the occupied seats (`shift-report.service.ts:441`, against
  `apply-offer-confirmation.ts:153`);
* attendance can be recorded on a shift cancelled in the meantime
  (`attendance.service.ts:1443`);
* an acceptance no manager answered is withdrawn where the repository's
  `README.md:119` says it is confirmed;
* `publish` opens a pending request whose submitter is a manager, where
  `scheduling.service.ts:151` says only an approval does;
* `rotate` reads the session unlocked, so a revocation can commit before the
  rotation does, where its comment says it "can't race past this read"; the
  token it mints is useless, since the session is revoked and the next
  rotation fails (`OneRotationSlipsThrough`), but it stays unrevoked, where
  `revokeFamily` says that token and session "can never observably disagree";
* `login` verifies the password in one transaction and issues the session in a
  later one, so a session issued on the old password can begin after a change
  of it, where `revokeAllForUser` says that "the old password shouldn't keep a
  session alive anywhere";
* `cancelRealtimeEvent` is "valid from any non-terminal status" but also turns
  a failed event into a cancelled one (the exception in `OutcomesStick`).

## 7. Running

    tlc -config ShiftTwoSeats.cfg MCShiftLifecycle
    tlc -config Publishing.cfg MCShiftPublishing
    tlc -config EmailDelivery.cfg MCEmailOutbox
    tlc -config PushDelivery.cfg MCPushDelivery
    tlc -config Realtime.cfg MCRealtimeDispatch
    tlc -config Sessions.cfg MCSessions
    tlapm EmailOutboxProofs.tla

and likewise for the other configurations and modules of proofs.
