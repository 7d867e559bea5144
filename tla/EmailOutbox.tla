------------------------------- MODULE EmailOutbox -------------------------------
(***************************************************************************)
(* One row of core.email_outbox: the dispatcher that publishes it to       *)
(* BullMQ and recovers it, the workers that claim it, call the provider    *)
(* and record the outcome, and the operator who replays a failure.         *)
(*                                                                         *)
(* A database transaction is one action; the publish that follows one, the *)
(* provider call and the write of its outcome are steps of their own, so   *)
(* a worker may die, stall past its lease or lose a write between any two. *)
(* processing_token, drawn afresh for every attempt, is the attempt's      *)
(* number.                                                                 *)
(*                                                                         *)
(* queued_at, processing_at and updated_at are compared with now() only to *)
(* see whether they are older than the limit of the row's status; stale    *)
(* says that they are.  Addresses, bodies, audit rows and the rows whose   *)
(* secret body is erased when they fail (never replayed) are left out.     *)
(***************************************************************************)
EXTENDS Naturals, FiniteSets

CONSTANTS
    Workers,         \* slots of the email workers, each runs one attempt
    MaxAttempts,     \* max_infrastructure_attempts
    ThrottleStarts,  \* THROTTLE_MAX_STARTS
    MaxFaults,       \* bound: publishes lost, jobs lost, and parties that outlive their limit
    MaxReplays       \* bound: replays by an operator

ASSUME EmailAssumption ==
    /\ MaxAttempts \in Nat \ {0}
    /\ ThrottleStarts \in Nat
    /\ MaxFaults \in Nat
    /\ MaxReplays \in Nat

VARIABLES
    safe,        \* the driver's ambiguousDeliverySafeToRetry
    attachment,  \* attachment_file_id is set
    status,      \* status, "none": not enqueued
    stale,       \* the timestamp of the status is past its limit
    count,       \* infrastructure_attempt_count
    gen,         \* dispatch_generation
    started,     \* provider_call_started_at is set
    token,       \* processing_token
    code,        \* what last_error_code says of a FAILED row
    outgoing,    \* generations a committed transaction is about to publish
    queue,       \* BullMQ: jobs waiting or delayed
    retained,    \* BullMQ: generations of all jobs it has seen, a re-add is dropped
    att,         \* per worker: its attempt
    tokens,      \* tokens drawn so far
    live,        \* history: tokens of the calls begun and not known to have failed
    claims,      \* history: claims since the row was enqueued or replayed that count
    allowed,     \* history: an operator replayed an uncertain delivery
    faults, replays

row  == <<status, stale, count, gen, started, token, code>>
conf == <<safe, attachment>>
hist == <<claims, allowed, replays>>
vars == <<conf, row, outgoing, queue, retained, att, tokens, live, hist, faults>>

-----------------------------------------------------------------------------
Open     == {"PENDING", "QUEUED", "PROCESSING", "RETRY"}
Terminal == {"SENT", "FAILED", "CANCELLED"}

(* A job knows its generation and how often it was started, counted up to  *)
(* ThrottleStarts.                                                         *)
Job == [gen : Nat, starts : 0..ThrottleStarts]

(* idle: no attempt; check: an attachment is still to be revalidated;      *)
(* call: about to call the provider; otherwise the outcome of the call.    *)
Outcome == {"accepted", "retryable", "throttled", "permanent"}
Phase   == {"idle", "check", "call"} \cup Outcome

NoJob == [gen |-> 0, starts |-> 0]
Idle  == [phase |-> "idle", job |-> NoJob, count |-> 0, token |-> 0]

TypeOK ==
    /\ safe \in BOOLEAN /\ attachment \in BOOLEAN
    /\ status \in Open \cup Terminal \cup {"none"}
    /\ stale \in BOOLEAN /\ started \in BOOLEAN /\ allowed \in BOOLEAN
    /\ count \in 0..MaxAttempts
    /\ gen \in Nat
    /\ token \in Nat
    /\ code \in {"none", "error", "uncertain"}
    /\ outgoing \subseteq Nat
    /\ queue \subseteq Job
    /\ retained \subseteq Nat
    /\ att \in [Workers -> [phase : Phase, job : Job, count : 0..MaxAttempts, token : Nat]]
    /\ tokens \in Nat /\ live \subseteq Nat /\ claims \in Nat
    /\ faults \in 0..MaxFaults /\ replays \in 0..MaxReplays

Init ==
    /\ safe \in BOOLEAN /\ attachment \in BOOLEAN
    /\ status = "none" /\ stale = FALSE /\ count = 0 /\ gen = 0
    /\ started = FALSE /\ token = 0 /\ code = "none"
    /\ outgoing = {} /\ queue = {} /\ retained = {}
    /\ att = [w \in Workers |-> Idle]
    /\ tokens = 0 /\ live = {} /\ claims = 0 /\ allowed = FALSE /\ faults = 0 /\ replays = 0

-----------------------------------------------------------------------------
(* Producers and the queue                                                 *)

(* enqueue commits a PENDING row; its producer publishes after the commit. *)
Enqueue ==
    /\ status = "none"
    /\ status' = "PENDING"
    /\ outgoing' = {0}
    /\ UNCHANGED <<conf, stale, count, gen, started, token, code, queue, retained, att,
                   tokens, live, hist, faults>>

(* add: a job id BullMQ has seen is dropped.                               *)
Add(g) ==
    /\ outgoing' = outgoing \ {g}
    /\ queue' = IF g \in retained THEN queue ELSE queue \cup {[gen |-> g, starts |-> 0]}
    /\ retained' = retained \cup {g}
    /\ UNCHANGED <<conf, row, att, tokens, live, hist, faults>>

Fault == faults < MaxFaults /\ faults' = faults + 1

(* The publish fails, or its process dies after the commit.                *)
LosePublish(g) ==
    /\ Fault
    /\ outgoing' = outgoing \ {g}
    /\ UNCHANGED <<conf, row, queue, retained, att, tokens, live, hist>>

(* The queue loses a job, or its attempts run out before a claim.          *)
LoseJob(j) ==
    /\ Fault
    /\ queue' = queue \ {j}
    /\ UNCHANGED <<conf, row, outgoing, retained, att, tokens, live, hist>>

(* Somebody alive will still act on the row as it is.                      *)
Attended ==
    \/ status \in {"QUEUED", "RETRY"} /\ (queue # {} \/ outgoing # {})
    \/ status = "PROCESSING" /\ \E w \in Workers : att[w].phase # "idle" /\ att[w].token = token

(* The limit of the row's status runs out; that this happens to a row that *)
(* is being looked after (a backlog, a stalled worker) is bounded.         *)
Age ==
    /\ status \in {"QUEUED", "PROCESSING", "RETRY"} /\ ~stale
    /\ stale' = TRUE
    /\ IF Attended THEN Fault ELSE UNCHANGED faults
    /\ UNCHANGED <<conf, status, count, gen, started, token, code, outgoing, queue, retained,
                   att, tokens, live, hist>>

-----------------------------------------------------------------------------
(* dispatchEmailScope: one claimed row, split as the claim transaction     *)
(* splits its batch.                                                       *)

Claimable == status = "PENDING" \/ (status \in {"QUEUED", "PROCESSING", "RETRY"} /\ stale)
Exhausted == count >= MaxAttempts

(* Mutant: a failed row never says that its delivery is uncertain.         *)
NeverAmbiguous == FALSE

(* The row's last attempt reached the provider, its outcome is not known.  *)
LastAttemptAmbiguous == status = "PROCESSING" /\ started

(* Mutant: a recovery does not look at the mark.                           *)
RecoverAlways == TRUE

(* A second call can do no harm: none was begun, or the driver is told the *)
(* same idempotency key.                                                   *)
SafeToRecover == ~started \/ safe

FailExhausted ==
    /\ Claimable /\ Exhausted /\ ~LastAttemptAmbiguous
    /\ status' = "FAILED" /\ code' = "error" /\ stale' = FALSE
    /\ UNCHANGED <<conf, count, gen, started, token, outgoing, queue, retained, att,
                   tokens, live, hist, faults>>

FailUncertain ==
    /\ Claimable
    /\ IF Exhausted THEN LastAttemptAmbiguous
                    ELSE status # "PENDING" /\ ~SafeToRecover
    /\ status' = "FAILED" /\ code' = "uncertain" /\ stale' = FALSE
    /\ UNCHANGED <<conf, count, gen, started, token, outgoing, queue, retained, att,
                   tokens, live, hist, faults>>

(* The first publish, under the generation the row has.                    *)
FirstPublish ==
    /\ Claimable /\ ~Exhausted /\ status = "PENDING"
    /\ status' = "QUEUED" /\ stale' = FALSE
    /\ outgoing' = outgoing \cup {gen}
    /\ UNCHANGED <<conf, count, gen, started, token, code, queue, retained, att,
                   tokens, live, hist, faults>>

(* Mutant: the recovery reuses the job id.                                 *)
SameGeneration == gen

(* A recovery publishes under a generation no job has used.                *)
NextGeneration == gen + 1

Recover ==
    /\ Claimable /\ ~Exhausted /\ status # "PENDING"
    /\ SafeToRecover
    /\ status' = "QUEUED" /\ stale' = FALSE
    /\ gen' = NextGeneration
    /\ outgoing' = outgoing \cup {NextGeneration}
    /\ UNCHANGED <<conf, count, started, token, code, queue, retained, att,
                   tokens, live, hist, faults>>

Dispatch == FailExhausted \/ FailUncertain \/ FirstPublish \/ Recover

-----------------------------------------------------------------------------
(* processEmailSendJob                                                     *)

(* Mutant: an outcome is written without the token.                        *)
OwnsByStatus(w) == status = "PROCESSING"

(* Mutant: an outcome is written whatever the status is by now.            *)
OwnsByToken(w) == token = att[w].token

(* The attempt of worker w still owns the row; every write it makes after  *)
(* its claim is made under this condition.                                 *)
Owns(w) == status = "PROCESSING" /\ token = att[w].token

(* The job ends, or goes back to the queue for another of its attempts.    *)
EndJob(w)   == att' = [att EXCEPT ![w] = Idle] /\ UNCHANGED queue
RetryJob(w) == att' = [att EXCEPT ![w] = Idle] /\ queue' = queue \cup {att[w].job}

Starts(j) == IF j.starts < ThrottleStarts THEN j.starts + 1 ELSE j.starts

(* The guard of the claim's UPDATE.                                        *)
MayClaim == status \in {"PENDING", "QUEUED", "RETRY"} /\ count < MaxAttempts

(* The job finds nothing to do: the row is settled, claimed by another, or *)
(* at its cap.                                                             *)
Skip(w, j) ==
    /\ att[w].phase = "idle"
    /\ ~MayClaim
    /\ queue' = queue \ {j}
    /\ UNCHANGED <<conf, row, outgoing, retained, att, tokens, live, hist, faults>>

(* The claim counts the attempt and draws its token.  In the same          *)
(* transaction the row is cancelled when the business no longer wants it   *)
(* (valid is what revalidate finds), or marked as about to be sent; a row  *)
(* with an attachment is checked once more before the mark.                *)
Claim(w, j, valid) ==
    /\ att[w].phase = "idle"
    /\ MayClaim
    /\ queue' = queue \ {j}
    /\ tokens' = tokens + 1 /\ token' = tokens + 1
    /\ count' = count + 1 /\ claims' = claims + 1 /\ stale' = FALSE
    /\ IF valid
       THEN /\ status' = "PROCESSING"
            /\ started' = (started \/ ~attachment)
            /\ live' = IF attachment THEN live ELSE live \cup {tokens + 1}
            /\ att' = [att EXCEPT ![w] =
                 [phase |-> IF attachment THEN "check" ELSE "call",
                  job   |-> [gen |-> j.gen, starts |-> Starts(j)],
                  count |-> count + 1, token |-> tokens + 1]]
       ELSE /\ status' = "CANCELLED"
            /\ UNCHANGED <<started, live, att>>
    /\ UNCHANGED <<conf, gen, code, outgoing, retained, allowed, faults, replays>>

(* revalidateAttachment, then the mark or the cancellation; an attempt     *)
(* that no longer owns the row sends nothing.  It may fail to read the     *)
(* workspace, which ends like a failed call.                               *)
CheckAttachment(w, verdict) ==
    /\ att[w].phase = "check"
    /\ \/ /\ verdict \in {"retryable", "permanent"}
          /\ att' = [att EXCEPT ![w].phase = verdict]
          /\ UNCHANGED <<status, started, live, queue>>
       \/ /\ verdict = "refused"
          /\ status' = IF Owns(w) THEN "CANCELLED" ELSE status
          /\ EndJob(w)
          /\ UNCHANGED <<started, live>>
       \/ /\ verdict = "ok" /\ Owns(w)
          /\ started' = TRUE
          /\ live' = live \cup {token}
          /\ att' = [att EXCEPT ![w].phase = "call"]
          /\ UNCHANGED <<status, queue>>
       \/ /\ verdict = "ok" /\ ~Owns(w)
          /\ EndJob(w)
          /\ UNCHANGED <<status, started, live>>
    /\ UNCHANGED <<conf, stale, count, gen, token, code, outgoing, retained, tokens,
                   hist, faults>>

(* The body and the stored file are read; what fails here calls nobody.    *)
PrepareFails(w, outcome) ==
    /\ att[w].phase = "call"
    /\ outcome \in {"retryable", "permanent"}
    /\ att' = [att EXCEPT ![w].phase = outcome]
    /\ live' = live \ {att[w].token}
    /\ UNCHANGED <<conf, row, outgoing, queue, retained, tokens, hist, faults>>

(* emailService.send: the provider answers outcome (classifyEmailSendError *)
(* of what it throws).                                                     *)
Send(w, outcome) ==
    /\ att[w].phase = "call"
    /\ att' = [att EXCEPT ![w].phase = outcome]
    /\ live' = IF outcome = "accepted" THEN live ELSE live \ {att[w].token}
    /\ UNCHANGED <<conf, row, outgoing, queue, retained, tokens, hist, faults>>

(* persistSent; without the token nothing is left to write.                *)
PersistSent(w) ==
    /\ att[w].phase = "accepted"
    /\ IF Owns(w) THEN status' = "SENT" /\ count' = att[w].count
                  ELSE UNCHANGED <<status, count>>
    /\ EndJob(w)
    /\ UNCHANGED <<conf, stale, gen, started, token, code, outgoing, retained, tokens,
                   live, hist, faults>>

(* Three failed writes of SENT: the job is not retried and the row keeps   *)
(* its token and its mark.                                                 *)
PersistSentFails(w) ==
    /\ att[w].phase = "accepted"
    /\ EndJob(w)
    /\ UNCHANGED <<conf, row, outgoing, retained, tokens, live, hist, faults>>

(* handleSendFailure.  A throttled attempt gives its count back while its  *)
(* job has been started seldom enough; the job is delayed, so is a retried *)
(* one that has attempts left (again), the others end.                     *)
Final(w) == att[w].phase = "permanent" \/ att[w].count >= MaxAttempts

Throttled(w) == ~Final(w) /\ att[w].phase = "throttled" /\ att[w].job.starts < ThrottleStarts

StatusAfterFailure(w) == IF Final(w) THEN "FAILED" ELSE "RETRY"

HandleSendFailure(w, again) ==
    /\ att[w].phase \in {"retryable", "throttled", "permanent"}
    /\ IF Owns(w)
       THEN /\ status' = StatusAfterFailure(w)
            /\ code' = "error"
            /\ count' = IF Throttled(w) THEN att[w].count - 1 ELSE att[w].count
            /\ claims' = IF Throttled(w) THEN claims - 1 ELSE claims
            /\ stale' = FALSE
            /\ IF ~Final(w) /\ (Throttled(w) \/ again) THEN RetryJob(w) ELSE EndJob(w)
       ELSE /\ EndJob(w)
            /\ UNCHANGED <<status, code, count, claims, stale>>
    /\ UNCHANGED <<conf, gen, started, token, outgoing, retained, tokens, live, allowed, faults,
                   replays>>

(* The write of the failure fails: its error ends this attempt of the job. *)
FailureWriteFails(w) ==
    /\ att[w].phase \in {"retryable", "throttled", "permanent"}
    /\ RetryJob(w)
    /\ UNCHANGED <<conf, row, outgoing, retained, tokens, live, hist, faults>>

(* The worker process dies; BullMQ restarts its stalled job, or fails it.  *)
Crash(w) ==
    /\ att[w].phase # "idle"
    /\ EndJob(w) \/ RetryJob(w)
    /\ UNCHANGED <<conf, row, outgoing, retained, tokens, live, hist, faults>>

-----------------------------------------------------------------------------
(* The business and the operator                                           *)

(* An invitation or a reset is superseded, or the user is deleted.         *)
CancelOpen ==
    /\ status \in Open
    /\ status' = "CANCELLED"
    /\ UNCHANGED <<conf, stale, count, gen, started, token, code, outgoing, queue, retained,
                   att, tokens, live, hist, faults>>

(* Mutant: an uncertain delivery is replayed like any other failure.       *)
MayReplayAny(allowUncertain) == status = "FAILED"

(* The guard of core.replay_failed_email.                                  *)
MayReplay(allowUncertain) == status = "FAILED" /\ (code = "uncertain" => allowUncertain)

(* The replay, and the publish after its commit.                           *)
ReplayFailedEmail(allowUncertain) ==
    /\ replays < MaxReplays
    /\ MayReplay(allowUncertain)
    /\ status' = "RETRY" /\ stale' = FALSE
    /\ gen' = gen + 1 /\ outgoing' = outgoing \cup {gen + 1}
    /\ count' = 0 /\ started' = FALSE /\ token' = 0 /\ code' = "none"
    /\ claims' = 0
    /\ allowed' = (allowed \/ (allowUncertain /\ code = "uncertain"))
    /\ replays' = replays + 1
    /\ UNCHANGED <<conf, queue, retained, att, tokens, live, faults>>

-----------------------------------------------------------------------------
Step(w) ==
    \/ \E v \in {"ok", "refused", "retryable", "permanent"} : CheckAttachment(w, v)
    \/ \E o \in {"retryable", "permanent"} : PrepareFails(w, o)
    \/ \E o \in Outcome : Send(w, o)
    \/ PersistSent(w) \/ PersistSentFails(w)
    \/ \E again \in BOOLEAN : HandleSendFailure(w, again)
    \/ FailureWriteFails(w)

Take(w) == \E j \in queue : Skip(w, j) \/ \E valid \in BOOLEAN : Claim(w, j, valid)

Next ==
    \/ Enqueue
    \/ \E g \in outgoing : Add(g) \/ LosePublish(g)
    \/ \E j \in queue : LoseJob(j)
    \/ Age
    \/ Dispatch
    \/ \E w \in Workers : Take(w) \/ Step(w) \/ Crash(w)
    \/ CancelOpen
    \/ \E a \in BOOLEAN : ReplayFailedEmail(a)

(* The dispatcher's tick, a publish, a free worker and an attempt go on,   *)
(* and time passes.  Nobody is forced to enqueue, cancel or replay, and no *)
(* attempt is protected from dying.                                        *)
Fairness ==
    /\ WF_vars(\E g \in outgoing : Add(g))
    /\ WF_vars(~Attended /\ Age)
    /\ WF_vars(Dispatch)
    /\ \A w \in Workers : WF_vars(Take(w)) /\ WF_vars(Step(w))

Spec     == Init /\ [][Next]_vars
FairSpec == Spec /\ Fairness

-----------------------------------------------------------------------------
(* Properties                                                              *)

(* The channel cannot deduplicate and no operator accepted a duplicate.    *)
Strict == ~safe /\ ~allowed

(* Whatever dies, stalls or is recovered, a driver that cannot deduplicate *)
(* is never called again while an earlier call may have delivered: the     *)
(* mark of markProviderCallStarted, the fence on the token and the         *)
(* uncertain branch of dispatchEmailScope together.                        *)
NoBlindResend == Strict => \A s, t \in live : s = t

(* A row that says FAILED without DELIVERY_UNCERTAIN is safe to replay     *)
(* without the allow-uncertain flag: no call of its may have delivered.    *)
PlainFailureIsSafeToReplay ==
    Strict /\ status = "FAILED" /\ code = "error" => live = {}

(* A row that says SENT was sent by the attempt whose token it bears, and  *)
(* says so after every later event.                                        *)
SentIsTrue == status = "SENT" => token \in live

(* infrastructure_attempt_count, written as an absolute value by the owner *)
(* of an attempt, never loses an attempt that counts: a late or superseded *)
(* worker cannot roll the cumulative cap back.                             *)
AttemptsAreCumulative == count = claims

(* A settled row changes only by an operator's replay: no late worker,     *)
(* recovery or cancellation overwrites an outcome.                         *)
OutcomesStick ==
    [][(status \in Terminal /\ status' # status) => replays' > replays]_vars

(* Every email is settled in the end, even when every attempt dies: the    *)
(* claim counts attempts before they run, so the cap is always reached.    *)
EventuallySettled == (status = "PENDING") ~> (status \in Terminal)

(* What the row says, in the words of the delivery contract.               *)
DeliveryState ==
    CASE status = "none"      -> "none"
      [] status \in Open      -> "open"
      [] status = "SENT"      -> "sent"
      [] status = "CANCELLED" -> "cancelled"
      [] status = "FAILED"    -> IF code = "uncertain" THEN "uncertain" ELSE "failed"

Contract == INSTANCE Delivery WITH state <- DeliveryState, strict <- Strict

(* The outbox, its dispatcher and its workers implement the contract every *)
(* producer of an email relies on.                                         *)
KeepsContract == Contract!Spec
================================================================================
