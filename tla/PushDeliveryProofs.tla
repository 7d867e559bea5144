-------------------------- MODULE PushDeliveryProofs --------------------------
(***************************************************************************)
(* The safety properties of PushDelivery, and that it implements Delivery, *)
(* for any number of workers, attempts and faults.  The argument is that   *)
(* of EmailOutboxProofs, without its replays: tokens are drawn once        *)
(* (Fresh), a call is live while its attempt is about to make it or was    *)
(* accepted (Announced), and a live call is the one of the row's attempt,  *)
(* or the row is settled as something other than a plain failure           *)
(* (Cautious).  AttemptedIsMarked is what keeps the recovery from          *)
(* publishing such a row again, AcceptedStands keeps the failure of        *)
(* another attempt from taking the call of an ACCEPTED row away, and       *)
(* AttemptsCounted says that every attempt was counted before it ran.      *)
(***************************************************************************)
EXTENDS PushDelivery, TLAPS

Busy(w) == att[w].phase # "idle"

Attempt == [phase : {"idle", "call"} \cup Outcome, gen : Nat, count : 0..MaxAttempts, token : Nat]

(* Tokens are drawn once.                                                  *)
Fresh ==
    /\ \A t \in live : t <= tokens
    /\ \A w \in Workers : Busy(w) => att[w].token <= tokens
    /\ \A v, w \in Workers : Busy(v) /\ Busy(w) /\ att[v].token = att[w].token => v = w

(* An attempt's call is live from its announcement to its known failure.   *)
Announced ==
    \A w \in Workers :
      /\ att[w].phase \in {"call", "accepted"} => att[w].token \in live
      /\ att[w].phase \in {"retryable", "permanent", "invalid"} => att[w].token \notin live

(* What the row says while a call may have delivered.                      *)
Cautious ==
    \A t \in live :
      \/ status = "PROCESSING" /\ token = t
      \/ status = "FAILED" /\ code = "uncertain"
      \/ status \in {"ACCEPTED", "CANCELLED"}

(* Whatever recovery finds PROCESSING or RETRY was announced to the        *)
(* provider: the mark is made in the claim's own transaction.  So no       *)
(* attempted push is published again by the dispatcher.                    *)
AttemptedIsMarked == status \in {"PROCESSING", "RETRY"} => started

(* A push that says ACCEPTED keeps the call that was: the attempt whose    *)
(* token the row bears has ended.                                          *)
AcceptedStands ==
    status = "ACCEPTED" =>
        token \in live /\ \A w \in Workers : Busy(w) => att[w].token # token

(* Every token that was drawn is counted, and the attempt that owns the    *)
(* row has the row's count, so that writing it back loses none.            *)
AttemptsCounted ==
    /\ count = tokens
    /\ \A w \in Workers : Busy(w) /\ att[w].token = token => att[w].count = count

IInv ==
    /\ TypeOK /\ Fresh /\ Announced /\ Cautious /\ AttemptedIsMarked
    /\ AcceptedStands /\ AttemptsCounted

-----------------------------------------------------------------------------
LEMMA InitIInv == Init => IInv
  <1> SUFFICES ASSUME Init PROVE IInv
    OBVIOUS
  <1>1. TypeOK
    <2>1. Idle \in Attempt
      BY PushAssumption DEF Idle, Attempt
    <2>2. att \in [Workers -> Attempt]
      BY <2>1 DEF Init
    <2>3. device \in BOOLEAN /\ stamped \in BOOLEAN /\ stale \in BOOLEAN /\ started \in BOOLEAN
      BY DEF Init
    <2>4. /\ count \in 0..MaxAttempts /\ faults \in 0..MaxFaults
          /\ gen \in Nat /\ token \in Nat /\ tokens \in Nat
      BY PushAssumption DEF Init
    <2>5. QED
      BY <2>2, <2>3, <2>4 DEF Init, TypeOK, Attempt
  <1>2. QED
    BY <1>1 DEF Init, IInv, Fresh, Announced, Cautious, AttemptedIsMarked, AcceptedStands,
       AttemptsCounted, Busy, Idle

(* What the writes of a worker's slot do to att.                           *)
LEMMA SlotSteps ==
    ASSUME TypeOK, NEW w \in Workers
    PROVE  /\ att' = [att EXCEPT ![w] = Idle] =>
                /\ att' \in [Workers -> Attempt] /\ att'[w].phase = "idle"
                /\ \A v \in Workers : v # w => att'[v] = att[v]
           /\ \A ph \in {"idle", "call"} \cup Outcome : att' = [att EXCEPT ![w].phase = ph] =>
                /\ att' \in [Workers -> Attempt] /\ att'[w].phase = ph
                /\ att'[w].token = att[w].token /\ att'[w].count = att[w].count
                /\ \A v \in Workers : v # w => att'[v] = att[v]
           /\ \A a \in Attempt : att' = [att EXCEPT ![w] = a] =>
                /\ att' \in [Workers -> Attempt] /\ att'[w] = a
                /\ \A v \in Workers : v # w => att'[v] = att[v]
  <1>1. att \in [Workers -> Attempt]
    BY DEF TypeOK, Attempt
  <1>2. Idle \in Attempt /\ Idle.phase = "idle"
    BY PushAssumption DEF Idle, Attempt
  <1>3. ASSUME NEW a \in Attempt, att' = [att EXCEPT ![w] = a]
        PROVE  /\ att' \in [Workers -> Attempt] /\ att'[w] = a
               /\ \A v \in Workers : v # w => att'[v] = att[v]
    BY <1>1, <1>3
  <1>4. ASSUME NEW ph \in {"idle", "call"} \cup Outcome, att' = [att EXCEPT ![w].phase = ph]
        PROVE  /\ att' \in [Workers -> Attempt] /\ att'[w].phase = ph
               /\ att'[w].token = att[w].token /\ att'[w].count = att[w].count
               /\ \A v \in Workers : v # w => att'[v] = att[v]
    BY <1>1, <1>4 DEF Attempt
  <1>5. QED
    BY <1>2, <1>3, <1>4

(* The notification, the device, publishes, jobs and time.                 *)
LEMMA QueueKeeps ==
    ASSUME IInv,
           \/ \E b \in BOOLEAN : CreateForNotification(b) \/ SetDevice(b)
           \/ \E g \in outgoing : Add(g) \/ \E noticed \in BOOLEAN : LosePublish(g, noticed)
           \/ \E g \in failed : Withdraw(g)
           \/ \E g \in queue : LoseJob(g)
           \/ Age
           \/ \E w \in Workers, g \in queue : Skip(w, g)
           \/ FirstPublish
    PROVE  IInv'
  <1> USE PushAssumption DEF IInv, TypeOK, row, redis
  <1>1. ASSUME NEW b \in BOOLEAN, CreateForNotification(b) PROVE IInv'
    <2>1. outgoing' \subseteq Nat
      BY <1>1 DEF CreateForNotification
    <2>2. QED
      BY <1>1, <2>1 DEF CreateForNotification, Open, Fresh, Announced, Cautious,
         AttemptedIsMarked, AcceptedStands, AttemptsCounted, Busy
  <1>2. CASE ~(\E b \in BOOLEAN : CreateForNotification(b))
    <2>1. TypeOK'
      <3>1. ASSUME NEW b \in BOOLEAN, SetDevice(b) PROVE TypeOK'
        BY <3>1 DEF SetDevice
      <3>2. ASSUME NEW g \in outgoing, Add(g) PROVE TypeOK'
        BY <3>2 DEF Add
      <3>3. ASSUME NEW g \in outgoing, NEW n \in BOOLEAN, LosePublish(g, n) PROVE TypeOK'
        BY <3>3 DEF LosePublish, Fault
      <3>4. ASSUME NEW g \in failed, Withdraw(g) PROVE TypeOK'
        BY <3>4 DEF Withdraw
      <3>5. ASSUME NEW g \in queue, LoseJob(g) PROVE TypeOK'
        BY <3>5 DEF LoseJob, Fault
      <3>6. ASSUME Age PROVE TypeOK'
        BY <3>6 DEF Age, Fault
      <3>7. ASSUME NEW w \in Workers, NEW g \in queue, Skip(w, g) PROVE TypeOK'
        BY <3>7 DEF Skip
      <3>8. ASSUME FirstPublish PROVE TypeOK'
        BY <3>8 DEF FirstPublish
      <3>9. QED
        BY <1>2, <3>1, <3>2, <3>3, <3>4, <3>5, <3>6, <3>7, <3>8
    <2>2. UNCHANGED <<status, count, started, token, code, att, tokens, live>>
      BY <1>2 DEF SetDevice, Add, LosePublish, Withdraw, LoseJob, Age, Skip, FirstPublish
    <2>3. QED
      BY <2>1, <2>2 DEF Fresh, Announced, Cautious, AttemptedIsMarked, AcceptedStands,
         AttemptsCounted, Busy
  <1>3. QED
    BY <1>1, <1>2

(* The recovery: an attempted row is marked, and so is given up.           *)
LEMMA RecoverKeeps ==
    ASSUME IInv, RecoverPending \/ RecoverAttempted
    PROVE  IInv'
  <1> USE PushAssumption DEF IInv, TypeOK
  <1>1. UNCHANGED <<device, count, started, token, failed, queue, retained, att, tokens, live, faults>>
    BY DEF RecoverPending, RecoverAttempted
  <1>2. gen + 1 \in Nat
    OBVIOUS
  <1>3. CASE RecoverPending
    <2>1. TypeOK'
      BY <1>1, <1>2, <1>3 DEF RecoverPending, Republish, NextGeneration, Open
    <2>2. QED
      BY <1>1, <1>3, <2>1 DEF RecoverPending, Republish, Fresh, Announced, Cautious,
         AttemptedIsMarked, AcceptedStands, AttemptsCounted, Busy
  <1>4. CASE RecoverAttempted
    <2>1. /\ status \in {"PROCESSING", "RETRY"} /\ status' = "FAILED" /\ stale' = FALSE
          /\ UNCHANGED <<stamped, gen, outgoing>>
          /\ code' = IF count >= MaxAttempts /\ status = "RETRY" THEN "error" ELSE "uncertain"
      BY <1>4 DEF RecoverAttempted, GiveUp, AttemptedIsMarked, ambiguousDeliverySafeToRetry
    <2>2. TypeOK'
      BY <1>1, <2>1 DEF Terminal
    <2>3. QED
      BY <1>1, <2>1, <2>2 DEF Fresh, Announced, Cautious, AttemptedIsMarked, AcceptedStands,
         AttemptsCounted, Busy
  <1>5. QED
    BY <1>3, <1>4

(* The claim: a claimable row has no live call.                            *)
LEMMA ClaimKeeps ==
    ASSUME IInv, NEW w \in Workers, NEW g \in queue, NEW wanted \in BOOLEAN, Claim(w, g, wanted)
    PROVE  IInv'
  <1> DEFINE a == [phase |-> "call", gen |-> g, count |-> count + 1, token |-> tokens + 1]
             go == device /\ wanted
  <1> USE PushAssumption DEF IInv, TypeOK
  <1>1. live = {}
    BY DEF Claim, Claimable, Cautious
  <1>2. a \in Attempt /\ a.token = tokens + 1 /\ a.phase = "call" /\ a.count = count + 1
    <2>1. count + 1 \in 0..MaxAttempts
      BY DEF Claim, Claimable
    <2>2. QED
      BY <2>1 DEF Attempt
  <1>3. (go => att' = [att EXCEPT ![w] = a]) /\ (~go => att' = att)
    BY DEF Claim
  <1> HIDE DEF a
  <1>4. /\ att' \in [Workers -> Attempt]
        /\ go => att'[w] = a
        /\ \A v \in Workers : v # w => att'[v] = att[v]
        /\ ~go => att' = att
    BY <1>2, <1>3, SlotSteps DEF Attempt
  <1>5. /\ tokens' = tokens + 1 /\ token' = tokens + 1 /\ count' = count + 1
        /\ go => status' = "PROCESSING" /\ started' = TRUE /\ live' = {tokens + 1}
        /\ ~go => status' = "CANCELLED" /\ live' = {} /\ started' = started
    BY <1>1 DEF Claim, MarkProviderCallStarted
  <1> HIDE DEF go
  <1>6. TypeOK'
    <2>1. started' \in BOOLEAN /\ stale' \in BOOLEAN
      BY <1>5 DEF Claim
    <2>2. /\ count' \in 0..MaxAttempts /\ token' \in Nat /\ tokens' \in Nat /\ live' \subseteq Nat
      BY <1>5 DEF Claim, Claimable
    <2>3. status' \in Open \cup Terminal \cup {"none"} /\ queue' \subseteq Nat
      BY <1>5 DEF Claim, Open, Terminal
    <2>4. QED
      BY <1>4, <2>1, <2>2, <2>3 DEF Claim, Attempt
  <1>7. Fresh'
    <2>1. tokens < tokens'
      BY <1>5
    <2>2. \A v \in Workers : Busy(v)' => att'[v].token <= tokens'
      BY <1>2, <1>4, <1>5 DEF Fresh, Busy
    <2>3. \A u, v \in Workers : Busy(u)' /\ Busy(v)' /\ att'[u].token = att'[v].token => u = v
      BY <1>2, <1>4, <1>5 DEF Fresh, Busy
    <2>4. QED
      BY <1>5, <2>2, <2>3 DEF Fresh
  <1>8. Announced'
    BY <1>1, <1>2, <1>4, <1>5 DEF Announced, Fresh, Busy
  <1>9. AcceptedStands' /\ AttemptsCounted'
    <2>1. \A v \in Workers : Busy(v)' /\ att'[v].token = token' => att'[v].count = count'
      BY <1>2, <1>4, <1>5 DEF Fresh, Busy
    <2>2. QED
      BY <1>5, <2>1 DEF AcceptedStands, AttemptsCounted
  <1>10. QED
    BY <1>5, <1>6, <1>7, <1>8, <1>9 DEF Cautious, AttemptedIsMarked

(* The call, and the deactivation an invalid token asks for.               *)
LEMMA CallKeeps ==
    ASSUME IInv, NEW w \in Workers, NEW o \in Outcome,
           Send(w, o) \/ (o = "permanent" /\ DeactivateInvalidToken(w))
    PROVE  IInv'
  <1> USE PushAssumption DEF IInv
  <1>1. /\ UNCHANGED <<row, redis, tokens, faults>> /\ device' \in {device, FALSE}
        /\ att' = [att EXCEPT ![w].phase = o]
        /\ \/ att[w].phase = "call" /\ live' = IF o = "accepted" THEN live ELSE live \ {att[w].token}
           \/ att[w].phase = "invalid" /\ o = "permanent" /\ live' = live
    BY DEF Send, DeactivateInvalidToken
  <1>2. /\ att' \in [Workers -> Attempt] /\ att'[w].phase = o
        /\ att'[w].token = att[w].token /\ att'[w].count = att[w].count
        /\ \A u \in Workers : u # w => att'[u] = att[u]
    BY <1>1, SlotSteps
  <1>3. TypeOK'
    BY <1>1, <1>2 DEF TypeOK, Attempt, row, redis
  <1>4. Fresh'
    BY <1>1, <1>2 DEF Fresh, Busy, Outcome
  <1>5. Announced'
    BY <1>1, <1>2 DEF Announced, Fresh, Busy, Outcome
  <1>6. AcceptedStands' /\ AttemptsCounted'
    BY <1>1, <1>2 DEF AcceptedStands, AttemptsCounted, Busy, Outcome, row
  <1>7. QED
    BY <1>1, <1>3, <1>4, <1>5, <1>6 DEF Cautious, AttemptedIsMarked, row

(* The end of an attempt.                                                  *)
LEMMA EndKeeps ==
    ASSUME IInv, NEW w \in Workers, NEW again \in BOOLEAN,
           PersistFailure(w, again) \/ PersistAccepted(w) \/ Crash(w)
    PROVE  IInv'
  <1> USE PushAssumption DEF IInv
  <1>1. /\ att' = [att EXCEPT ![w] = Idle] /\ queue' \in {queue, queue \cup {att[w].gen}}
        /\ UNCHANGED <<device, stamped, gen, started, token, outgoing, failed, retained, tokens, live,
                       faults>>
    BY DEF PersistFailure, PersistAccepted, Crash, EndJob, RetryJob, row
  <1>2. /\ att' \in [Workers -> Attempt] /\ att'[w].phase = "idle"
        /\ \A u \in Workers : u # w => att'[u] = att[u]
    BY <1>1, SlotSteps
  <1>3. queue' \subseteq Nat
    BY <1>1 DEF TypeOK
  <1>4. Fresh' /\ Announced'
    BY <1>1, <1>2 DEF Fresh, Announced, Busy
  <1>5. CASE UNCHANGED <<status, count, code, stale>>
    <2>1. TypeOK'
      BY <1>1, <1>2, <1>3, <1>5 DEF TypeOK, Attempt
    <2>2. QED
      BY <1>1, <1>2, <1>4, <1>5, <2>1 DEF Cautious, AttemptedIsMarked, AcceptedStands,
         AttemptsCounted, Busy
  <1>6. CASE PersistAccepted(w) /\ Owns(w)
    <2>1. status' = "ACCEPTED" /\ count' = att[w].count /\ UNCHANGED <<code, stale>>
      BY <1>6 DEF PersistAccepted
    <2>2. TypeOK'
      BY <1>1, <1>2, <1>3, <2>1 DEF TypeOK, Attempt, Terminal
    <2>3. AcceptedStands' /\ AttemptsCounted'
      BY <1>1, <1>2, <1>6, <2>1 DEF PersistAccepted, Owns, Announced, Fresh, AcceptedStands,
         AttemptsCounted, Busy
    <2>4. QED
      BY <1>1, <1>4, <2>1, <2>2, <2>3 DEF Cautious, AttemptedIsMarked
  <1>7. CASE PersistFailure(w, again) /\ Owns(w)
    <2>1. /\ status' \in {"FAILED", "RETRY"} /\ code' = "error" /\ token = att[w].token
          /\ count' = att[w].count /\ stale' = FALSE
          /\ att[w].phase \in {"retryable", "permanent"} /\ status = "PROCESSING"
      BY <1>7 DEF PersistFailure, Owns, StatusAfterFailure
    <2>2. TypeOK'
      BY <1>1, <1>2, <1>3, <2>1 DEF TypeOK, Attempt, Open, Terminal
    <2>3. live = {}
      BY <2>1 DEF Cautious, Announced
    <2>4. QED
      BY <1>1, <1>2, <1>4, <2>1, <2>2, <2>3 DEF Cautious, AttemptedIsMarked, AcceptedStands,
         AttemptsCounted, Busy
  <1>8. QED
    BY <1>5, <1>6, <1>7 DEF PersistFailure, PersistAccepted, Crash, row

-----------------------------------------------------------------------------
LEMMA NextKeeps == ASSUME IInv, [Next]_vars PROVE IInv'
  <1>1. CASE UNCHANGED vars
    BY <1>1 DEF vars, row, redis, IInv, TypeOK, Fresh, Announced, Cautious, AttemptedIsMarked,
       AcceptedStands, AttemptsCounted, Busy
  <1>2. CASE Dispatch
    BY <1>2, QueueKeeps, RecoverKeeps DEF Dispatch
  <1>3. ASSUME NEW w \in Workers, Take(w) PROVE IInv'
    BY <1>3, QueueKeeps, ClaimKeeps DEF Take
  <1>4. ASSUME NEW w \in Workers, Step(w) \/ Crash(w) PROVE IInv'
    <2>1. "permanent" \in Outcome
      BY DEF Outcome
    <2>2. QED
      BY <1>4, <2>1, CallKeeps, EndKeeps DEF Step
  <1>5. QED
    BY <1>1, <1>2, <1>3, <1>4, QueueKeeps DEF Next

(* The inductive invariant holds in every reachable state.                 *)
THEOREM PushInductive == Spec => []IInv
  BY InitIInv, NextKeeps, PTL DEF Spec

(* Every handler of the push pipeline keeps the types of the row, of its   *)
(* jobs and of the attempts.                                               *)
THEOREM PushTypes == Spec => []TypeOK
  BY PushInductive, PTL DEF IInv

(* Whatever the recovery finds attempted was announced to the provider.    *)
THEOREM AttemptsAreMarked == Spec => []AttemptedIsMarked
  BY PushInductive, PTL DEF IInv

(* A push is attempted at most max_attempts times: the claim's own count   *)
(* is never rolled back by the outcome of an attempt.                      *)
THEOREM PushAttemptsBounded == Spec => [](tokens <= MaxAttempts)
  <1>1. IInv => tokens <= MaxAttempts
    BY PushAssumption DEF IInv, TypeOK, AttemptsCounted
  <1>2. QED
    BY <1>1, PushInductive, PTL

(* No late worker and no recovery changes a settled push.                  *)
THEOREM PushOutcomesStick == Spec => OutcomesStick
  <1>1. ASSUME [Next]_vars, status \in Terminal
        PROVE  status' = status
    BY <1>1 DEF Next, vars, row, CreateForNotification, SetDevice, Add, LosePublish, Withdraw, LoseJob, Age,
       Dispatch, FirstPublish, RecoverPending, RecoverAttempted, Take, Skip, Claim, Claimable, Step, Send,
       DeactivateInvalidToken, PersistFailure, PersistAccepted, Crash, Owns, Terminal
  <1>2. QED
    BY <1>1, PTL DEF Spec, OutcomesStick

-----------------------------------------------------------------------------
(* The refinement                                                          *)

(* What a status means to the contract, before and after a step.           *)
LEMMA DeliveryStates ==
    /\ /\ status = "none" => DeliveryState = "none"
       /\ status \in Open => DeliveryState = "open"
       /\ status = "ACCEPTED" => DeliveryState = "sent"
       /\ status = "CANCELLED" => DeliveryState = "cancelled"
       /\ status = "FAILED" => DeliveryState = IF code = "uncertain" THEN "uncertain" ELSE "failed"
    /\ /\ status' = "none" => DeliveryState' = "none"
       /\ status' \in Open => DeliveryState' = "open"
       /\ status' = "ACCEPTED" => DeliveryState' = "sent"
       /\ status' = "CANCELLED" => DeliveryState' = "cancelled"
       /\ status' = "FAILED" => DeliveryState' = IF code' = "uncertain" THEN "uncertain" ELSE "failed"
  BY DEF DeliveryState, Open

(* A step that leaves status, code and live alone is invisible; one that   *)
(* keeps the row open is, too.                                             *)
LEMMA Invisible ==
    ASSUME UNCHANGED live,
           UNCHANGED <<status, code>> \/ (status \in Open /\ status' \in Open)
    PROVE  UNCHANGED Contract!vars
  <1>1. DeliveryState' = DeliveryState
    BY DeliveryStates DEF DeliveryState
  <1>2. QED
    BY <1>1 DEF Contract!vars

(* Every step is one of the contract's, or invisible.                      *)
LEMMA StepRefines == ASSUME IInv, [Next]_vars PROVE [Contract!Next]_(Contract!vars)
  <1> USE DEF row, redis
  <1>0. CASE UNCHANGED vars
    BY <1>0, Invisible DEF vars
  <1>1. ASSUME NEW b \in BOOLEAN, CreateForNotification(b) PROVE Contract!Next
    BY <1>1, DeliveryStates DEF CreateForNotification, Open, Contract!Next, Contract!Accept
  <1>2. CASE \/ \E b \in BOOLEAN : SetDevice(b)
             \/ \E g \in outgoing : Add(g) \/ \E noticed \in BOOLEAN : LosePublish(g, noticed)
             \/ \E g \in failed : Withdraw(g)
             \/ \E g \in queue : LoseJob(g)
             \/ Age
             \/ \E w \in Workers, g \in queue : Skip(w, g)
             \/ FirstPublish
    BY <1>2, Invisible DEF SetDevice, Add, LosePublish, Withdraw, LoseJob, Age, Skip, FirstPublish
  <1>3. CASE RecoverPending
    BY <1>3, Invisible DEF RecoverPending, Republish, Open
  <1>4. CASE RecoverAttempted
    <2>1. /\ status \in {"PROCESSING", "RETRY"} /\ status' = "FAILED" /\ live' = live
          /\ code' = IF count >= MaxAttempts /\ status = "RETRY" THEN "error" ELSE "uncertain"
      BY <1>4 DEF RecoverAttempted, GiveUp, ambiguousDeliverySafeToRetry, IInv, AttemptedIsMarked
    <2>2. status = "RETRY" => live = {}
      BY DEF IInv, Cautious
    <2>3. QED
      BY <2>1, <2>2, DeliveryStates DEF Open, Contract!Next, Contract!GiveUp
  <1>5. ASSUME NEW w \in Workers, NEW g \in queue, NEW wanted \in BOOLEAN, Claim(w, g, wanted)
        PROVE  Contract!Next
    <2>1. DeliveryState = "open" /\ live = {}
      BY <1>5, DeliveryStates DEF Claim, Claimable, Open, IInv, Cautious
    <2>2. CASE ~(device /\ wanted)
      BY <1>5, <2>1, <2>2, DeliveryStates DEF Claim, Contract!Next, Contract!GiveUp
    <2>3. CASE device /\ wanted
      <3>1. live' = {tokens + 1} /\ DeliveryState' = "open"
        BY <1>5, <2>1, <2>3, DeliveryStates DEF Claim, Open
      <3>2. Contract!Call(tokens + 1)
        BY <2>1, <3>1 DEF Contract!Call
      <3>3. QED
        BY <3>1, <3>2 DEF Contract!Next
    <2>4. QED
      BY <2>2, <2>3
  <1>6. ASSUME NEW w \in Workers, NEW o \in Outcome, Send(w, o)
        PROVE  [Contract!Next]_(Contract!vars)
    <2>1. /\ UNCHANGED <<status, code>> /\ att[w].token \in live
          /\ live' = IF o = "accepted" THEN live ELSE live \ {att[w].token}
      BY <1>6 DEF Send, IInv, Announced
    <2>2. DeliveryState' = DeliveryState
      BY <2>1 DEF DeliveryState
    <2>3. CASE o = "accepted"
      BY <2>1, <2>3, Invisible
    <2>4. CASE o # "accepted"
      <3>1. DeliveryState = "sent" => status = "ACCEPTED"
        BY DeliveryStates DEF IInv, TypeOK, Open, Terminal
      <3>2. status = "ACCEPTED" => token \in live /\ token # att[w].token
        BY <1>6 DEF Send, IInv, AcceptedStands, Busy
      <3>3. Contract!Fail(att[w].token)
        BY <2>1, <2>2, <2>4, <3>1, <3>2 DEF Contract!Fail
      <3>4. QED
        BY <2>1, <3>3 DEF Contract!Next
    <2>5. QED
      BY <2>3, <2>4
  <1>7. ASSUME NEW w \in Workers, DeactivateInvalidToken(w) \/ Crash(w)
        PROVE  [Contract!Next]_(Contract!vars)
    BY <1>7, Invisible DEF DeactivateInvalidToken, Crash
  <1>8. ASSUME NEW w \in Workers, PersistAccepted(w)
        PROVE  [Contract!Next]_(Contract!vars)
    <2>1. CASE ~Owns(w)
      BY <1>8, <2>1, Invisible DEF PersistAccepted
    <2>2. CASE Owns(w)
      <3>1. status' = "ACCEPTED" /\ status = "PROCESSING" /\ live' = live /\ live # {}
        BY <1>8, <2>2 DEF PersistAccepted, Owns, IInv, Announced
      <3>2. QED
        BY <3>1, DeliveryStates DEF Open, Contract!Next, Contract!Sent
    <2>3. QED
      BY <2>1, <2>2
  <1>9. ASSUME NEW w \in Workers, NEW again \in BOOLEAN, PersistFailure(w, again)
        PROVE  [Contract!Next]_(Contract!vars)
    <2>1. CASE ~Owns(w)
      BY <1>9, <2>1, Invisible DEF PersistFailure
    <2>2. CASE Owns(w)
      <3>1. /\ status' \in {"FAILED", "RETRY"} /\ code' = "error" /\ token = att[w].token
            /\ att[w].phase \in {"retryable", "permanent"} /\ status = "PROCESSING" /\ live' = live
        BY <1>9, <2>2 DEF PersistFailure, Owns, StatusAfterFailure
      <3>2. live = {}
        BY <3>1 DEF IInv, Announced, Cautious
      <3>3. CASE status' = "RETRY"
        BY <3>1, <3>3, Invisible DEF Open
      <3>4. CASE status' = "FAILED"
        BY <3>1, <3>2, <3>4, DeliveryStates DEF Open, Contract!Next, Contract!GiveUp
      <3>5. QED
        BY <3>1, <3>3, <3>4
    <2>3. QED
      BY <2>1, <2>2
  <1>10. QED
    BY <1>0, <1>1, <1>2, <1>3, <1>4, <1>5, <1>6, <1>7, <1>8, <1>9 DEF Next, Dispatch, Take, Step

(* The push pipeline implements the contract of a channel that cannot      *)
(* deduplicate.                                                            *)
THEOREM PushKeepsContract == Spec => KeepsContract
  <1>1. Init => Contract!Init
    BY DeliveryStates DEF Init, Contract!Init
  <1>2. QED
    BY <1>1, PushInductive, StepRefines, PTL DEF Spec, KeepsContract, Contract!Spec

(* The contract, with what DeliveryProofs proves of it.                    *)
Promise == INSTANCE DeliveryProofs WITH state <- DeliveryState, strict <- TRUE

(* So it can be trusted: a push is delivered at most once, one that says   *)
(* FAILED without DELIVERY_UNCERTAIN was not delivered, and one that says  *)
(* ACCEPTED was accepted.                                                  *)
THEOREM PushIsTrustworthy == Spec => []Contract!Trustworthy
  <1>1. Promise!Spec => []Promise!Trustworthy
    BY Promise!ContractIsTrustworthy
  <1>2. /\ Contract!Init => Promise!Init
        /\ [Contract!Next]_(Contract!vars) => [Promise!Next]_(Promise!vars)
        /\ Promise!Trustworthy => Contract!Trustworthy
    BY DEF Contract!Init, Promise!Init, Contract!Next, Promise!Next, Contract!vars,
           Promise!vars, Contract!Trustworthy, Promise!Trustworthy,
           Contract!Accept, Promise!Accept, Contract!Call, Promise!Call,
           Contract!Fail, Promise!Fail, Contract!Sent, Promise!Sent,
           Contract!GiveUp, Promise!GiveUp, Contract!Replay, Promise!Replay
  <1>3. QED
    BY <1>1, <1>2, PushKeepsContract, PTL
    DEF KeepsContract, Contract!Spec, Promise!Spec
=============================================================================
