------------------------------ MODULE PushDelivery ------------------------------
(***************************************************************************)
(* One row of core.push_delivery, the device it is for, the dispatcher     *)
(* that publishes it and recovers it, and the workers that send it.        *)
(*                                                                         *)
(* The granularity is that of EmailOutbox.  Two things differ.  A published *)
(* row stays PENDING, and queued_at says that a job is on its way; a       *)
(* publish that fails takes the stamp back.  And no provider deduplicates, *)
(* so a row whose call was announced is never published again.             *)
(***************************************************************************)
EXTENDS Naturals

CONSTANTS
    Workers,      \* slots of the push workers, each runs one attempt
    MaxAttempts,  \* max_attempts
    MaxFaults     \* bound: publishes lost, jobs lost, and parties that outlive their limit

ASSUME PushAssumption == MaxAttempts \in Nat \ {0} /\ MaxFaults \in Nat

VARIABLES
    device,      \* the registration is active
    status,      \* status, "none": not created
    stamped,     \* queued_at is set
    stale,       \* the timestamp of the status is past its limit
    count,       \* attempt_count
    gen,         \* dispatch_generation
    started,     \* provider_call_started_at is set
    token,       \* processing_token, the number of the attempt
    code,        \* what last_error_code says of a FAILED row
    outgoing,    \* generations a committed transaction is about to publish
    failed,      \* generations whose publish failed, the stamp not yet withdrawn
    queue,       \* BullMQ: generations of the jobs waiting or delayed
    retained,    \* BullMQ: generations of all jobs it has seen, a re-add is dropped
    att,         \* per worker: its attempt
    tokens,      \* tokens drawn so far
    live,        \* history: tokens of the calls begun and not known to have failed
    faults

row   == <<status, stamped, stale, count, gen, started, token, code>>
redis == <<outgoing, failed, queue, retained>>
vars  == <<device, row, redis, att, tokens, live, faults>>

-----------------------------------------------------------------------------
Open     == {"PENDING", "PROCESSING", "RETRY"}
Terminal == {"ACCEPTED", "FAILED", "CANCELLED"}

(* idle, about to call the provider, or the outcome of the call; after     *)
(* "invalid" the device is still to be deactivated.                        *)
Outcome == {"accepted", "retryable", "permanent", "invalid"}
Idle    == [phase |-> "idle", gen |-> 0, count |-> 0, token |-> 0]

TypeOK ==
    /\ device \in BOOLEAN
    /\ status \in Open \cup Terminal \cup {"none"}
    /\ stamped \in BOOLEAN /\ stale \in BOOLEAN /\ started \in BOOLEAN
    /\ count \in 0..MaxAttempts /\ gen \in Nat /\ token \in Nat
    /\ code \in {"none", "error", "uncertain"}
    /\ outgoing \subseteq Nat /\ failed \subseteq Nat
    /\ queue \subseteq Nat /\ retained \subseteq Nat
    /\ att \in [Workers -> [phase : {"idle", "call"} \cup Outcome, gen : Nat,
                            count : 0..MaxAttempts, token : Nat]]
    /\ tokens \in Nat /\ live \subseteq Nat /\ faults \in 0..MaxFaults

Init ==
    /\ device = TRUE
    /\ status = "none" /\ stamped = FALSE /\ stale = FALSE /\ count = 0 /\ gen = 0
    /\ started = FALSE /\ token = 0 /\ code = "none"
    /\ outgoing = {} /\ failed = {} /\ queue = {} /\ retained = {}
    /\ att = [w \in Workers |-> Idle]
    /\ tokens = 0 /\ live = {} /\ faults = 0

-----------------------------------------------------------------------------
(* The notification and its device                                         *)

(* createForNotification, for an active device; NotifyFastPublish, when it *)
(* is switched on, publishes after the commit and stamps nothing.          *)
CreateForNotification(fast) ==
    /\ status = "none" /\ device
    /\ status' = "PENDING"
    /\ outgoing' = IF fast THEN {0} ELSE {}
    /\ UNCHANGED <<device, stamped, stale, count, gen, started, token, code, failed, queue,
                   retained, att, tokens, live, faults>>

(* register, and the deactivations of sign-outs and of other accounts.     *)
SetDevice(active) ==
    /\ device # active /\ device' = active
    /\ UNCHANGED <<row, redis, att, tokens, live, faults>>

-----------------------------------------------------------------------------
(* The queue                                                               *)

Fault == faults < MaxFaults /\ faults' = faults + 1

Add(g) ==
    /\ outgoing' = outgoing \ {g}
    /\ queue' = IF g \in retained THEN queue ELSE queue \cup {g}
    /\ retained' = retained \cup {g}
    /\ UNCHANGED <<device, row, failed, att, tokens, live, faults>>

(* The publish fails, seen by the per_scope dispatcher, or its process     *)
(* dies after the commit.                                                  *)
LosePublish(g, noticed) ==
    /\ Fault
    /\ outgoing' = outgoing \ {g}
    /\ failed' = IF noticed THEN failed \cup {g} ELSE failed
    /\ UNCHANGED <<device, row, queue, retained, att, tokens, live>>

(* The stamp is withdrawn, unless the row was claimed or recovered since.  *)
Withdraw(g) ==
    /\ failed' = failed \ {g}
    /\ IF status = "PENDING" /\ gen = g
       THEN stamped' = FALSE /\ stale' = FALSE
       ELSE UNCHANGED <<stamped, stale>>
    /\ UNCHANGED <<device, status, count, gen, started, token, code, outgoing, queue, retained,
                   att, tokens, live, faults>>

LoseJob(g) ==
    /\ Fault
    /\ queue' = queue \ {g}
    /\ UNCHANGED <<device, row, outgoing, failed, retained, att, tokens, live>>

(* Somebody alive will still act on the row as it is.                      *)
Attended ==
    \/ status \in {"PENDING", "RETRY"} /\ (queue # {} \/ outgoing # {})
    \/ status = "PROCESSING" /\ \E w \in Workers : att[w].phase # "idle" /\ att[w].token = token

(* The limit of the row's status runs out.                                 *)
Age ==
    /\ status \in {"PROCESSING", "RETRY"} \/ (status = "PENDING" /\ stamped)
    /\ ~stale /\ stale' = TRUE
    /\ IF Attended THEN Fault ELSE UNCHANGED faults
    /\ UNCHANGED <<device, status, stamped, count, gen, started, token, code, redis, att,
                   tokens, live>>

-----------------------------------------------------------------------------
(* dispatchPushScope, for one claimed row                                  *)

(* What every driver answers, and so PushService.                          *)
ambiguousDeliverySafeToRetry == FALSE

(* The first publish, and the ones after a withdrawn stamp, go out under   *)
(* the generation the row has.                                             *)
FirstPublish ==
    /\ status = "PENDING" /\ ~stamped
    /\ stamped' = TRUE
    /\ outgoing' = outgoing \cup {gen}
    /\ UNCHANGED <<device, status, stale, count, gen, started, token, code, failed, queue,
                   retained, att, tokens, live, faults>>

(* Mutant: the recovery reuses the job id.                                 *)
SameGeneration == gen

NextGeneration == gen + 1

(* Back to PENDING under a generation no job has used.                     *)
Republish ==
    /\ status' = "PENDING" /\ stamped' = TRUE /\ stale' = FALSE
    /\ gen' = NextGeneration
    /\ outgoing' = outgoing \cup {NextGeneration}
    /\ UNCHANGED code

GiveUp(c) ==
    status' = "FAILED" /\ code' = c /\ stale' = FALSE /\ UNCHANGED <<stamped, gen, outgoing>>

RecoverPending ==
    /\ status = "PENDING" /\ stale
    /\ Republish
    /\ UNCHANGED <<device, count, started, token, failed, queue, retained, att, tokens, live,
                   faults>>

RecoverAttempted ==
    /\ status \in {"PROCESSING", "RETRY"} /\ stale
    /\ IF count >= MaxAttempts
       THEN GiveUp(IF status = "PROCESSING" /\ started THEN "uncertain" ELSE "error")
       ELSE IF started /\ ~ambiguousDeliverySafeToRetry THEN GiveUp("uncertain")
       ELSE Republish
    /\ UNCHANGED <<device, count, started, token, failed, queue, retained, att, tokens, live,
                   faults>>

Dispatch == FirstPublish \/ RecoverPending \/ RecoverAttempted

-----------------------------------------------------------------------------
(* processPushSendJob                                                      *)

(* Mutant: an outcome is written whatever the status is by now.            *)
OwnsByToken(w) == token = att[w].token

(* Every write of an outcome is made under this condition.                 *)
Owns(w) == status = "PROCESSING" /\ token = att[w].token

EndJob(w)   == att' = [att EXCEPT ![w] = Idle] /\ UNCHANGED queue
RetryJob(w) == att' = [att EXCEPT ![w] = Idle] /\ queue' = queue \cup {att[w].gen}

(* The guard of the claim's UPDATE.                                        *)
Claimable == status \in {"PENDING", "RETRY"} /\ count < MaxAttempts

Skip(w, g) ==
    /\ att[w].phase = "idle" /\ ~Claimable
    /\ queue' = queue \ {g}
    /\ UNCHANGED <<device, row, outgoing, failed, retained, att, tokens, live, faults>>

(* Mutant: the call is not announced.                                      *)
CallUnannounced == UNCHANGED started

(* provider_call_started_at                                                *)
MarkProviderCallStarted == started' = TRUE

(* The claim counts the attempt and draws its token; the same transaction  *)
(* cancels the row when the device or the notification (wanted) is gone,   *)
(* or marks it as about to be sent.                                        *)
Claim(w, g, wanted) ==
    /\ att[w].phase = "idle" /\ Claimable
    /\ queue' = queue \ {g}
    /\ tokens' = tokens + 1 /\ token' = tokens + 1
    /\ count' = count + 1 /\ stale' = FALSE
    /\ IF device /\ wanted
       THEN /\ status' = "PROCESSING" /\ MarkProviderCallStarted
            /\ live' = live \cup {tokens + 1}
            /\ att' = [att EXCEPT ![w] = [phase |-> "call", gen |-> g, count |-> count + 1,
                                          token |-> tokens + 1]]
       ELSE /\ status' = "CANCELLED"
            /\ UNCHANGED <<started, live, att>>
    /\ UNCHANGED <<device, stamped, gen, code, outgoing, failed, retained, faults>>

(* pushService.send, and how PushSendError classifies what it throws.      *)
Send(w, outcome) ==
    /\ att[w].phase = "call"
    /\ att' = [att EXCEPT ![w].phase = outcome]
    /\ live' = IF outcome = "accepted" THEN live ELSE live \ {att[w].token}
    /\ UNCHANGED <<device, row, redis, tokens, faults>>

(* deactivateInvalidToken, whatever the device has registered since.       *)
DeactivateInvalidToken(w) ==
    /\ att[w].phase = "invalid"
    /\ device' = FALSE
    /\ att' = [att EXCEPT ![w].phase = "permanent"]
    /\ UNCHANGED <<row, redis, tokens, live, faults>>

Final(w) == att[w].phase = "permanent" \/ att[w].count >= MaxAttempts

StatusAfterFailure(w) == IF Final(w) THEN "FAILED" ELSE "RETRY"

(* The failure is recorded by the owner of the attempt; the job is tried   *)
(* again while it has attempts left (again).                               *)
PersistFailure(w, again) ==
    /\ att[w].phase \in {"retryable", "permanent"}
    /\ IF Owns(w)
       THEN /\ status' = StatusAfterFailure(w)
            /\ code' = "error" /\ count' = att[w].count /\ stale' = FALSE
            /\ IF ~Final(w) /\ again THEN RetryJob(w) ELSE EndJob(w)
       ELSE EndJob(w) /\ UNCHANGED <<status, code, count, stale>>
    /\ UNCHANGED <<device, stamped, gen, started, token, outgoing, failed, retained, tokens,
                   live, faults>>

PersistAccepted(w) ==
    /\ att[w].phase = "accepted"
    /\ IF Owns(w) THEN status' = "ACCEPTED" /\ count' = att[w].count
                  ELSE UNCHANGED <<status, count>>
    /\ EndJob(w)
    /\ UNCHANGED <<device, stamped, stale, gen, started, token, code, outgoing, failed,
                   retained, tokens, live, faults>>

(* A write of the outcome that fails, or the death of the worker: BullMQ   *)
(* starts the job again, or gives it up.                                   *)
Crash(w) ==
    /\ att[w].phase # "idle"
    /\ EndJob(w) \/ RetryJob(w)
    /\ UNCHANGED <<device, row, outgoing, failed, retained, tokens, live, faults>>

-----------------------------------------------------------------------------
Take(w) == \E g \in queue : Skip(w, g) \/ \E wanted \in BOOLEAN : Claim(w, g, wanted)

Step(w) ==
    \/ \E o \in Outcome : Send(w, o)
    \/ DeactivateInvalidToken(w)
    \/ \E again \in BOOLEAN : PersistFailure(w, again)
    \/ PersistAccepted(w)

Next ==
    \/ \E b \in BOOLEAN : CreateForNotification(b) \/ SetDevice(b)
    \/ \E g \in outgoing : Add(g) \/ \E noticed \in BOOLEAN : LosePublish(g, noticed)
    \/ \E g \in failed : Withdraw(g)
    \/ \E g \in queue : LoseJob(g)
    \/ Age
    \/ Dispatch
    \/ \E w \in Workers : Take(w) \/ Step(w) \/ Crash(w)

(* The dispatcher's tick, a publish, a free worker and an attempt go on,   *)
(* and time passes; no attempt is protected from dying, and a stamp need   *)
(* not be withdrawn.                                                       *)
Fairness ==
    /\ WF_vars(\E g \in outgoing : Add(g))
    /\ WF_vars(~Attended /\ Age)
    /\ WF_vars(Dispatch)
    /\ \A w \in Workers : WF_vars(Take(w)) /\ WF_vars(Step(w))

Spec     == Init /\ [][Next]_vars
FairSpec == Spec /\ Fairness

-----------------------------------------------------------------------------
(* Properties                                                              *)

(* A settled push stays as it is, whatever worker or recovery comes late.  *)
OutcomesStick == [][(status \in Terminal) => (status' = status)]_vars

(* Every push is settled in the end: a job BullMQ lost, or refused because *)
(* it remembers its id, is replaced by one of a new generation, and the    *)
(* withdrawal of a stamp never takes that away.                            *)
EventuallySettled == (status = "PENDING") ~> (status \in Terminal)

(* What the row says, in the words of the delivery contract.               *)
DeliveryState ==
    CASE status = "none"      -> "none"
      [] status \in Open      -> "open"
      [] status = "ACCEPTED"  -> "sent"
      [] status = "CANCELLED" -> "cancelled"
      [] status = "FAILED"    -> IF code = "uncertain" THEN "uncertain" ELSE "failed"

Contract == INSTANCE Delivery WITH state <- DeliveryState, strict <- TRUE

(* The push pipeline keeps the contract of a channel that cannot           *)
(* deduplicate: no second call while an earlier one may have delivered,    *)
(* and a plain failure only when nothing was.                              *)
KeepsContract == Contract!Spec
================================================================================
