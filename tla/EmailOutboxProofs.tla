--------------------------- MODULE EmailOutboxProofs ---------------------------
(***************************************************************************)
(* The safety properties of EmailOutbox, and that it implements Delivery,  *)
(* for any number of workers, attempts, throttled starts, faults and       *)
(* replays.                                                                *)
(*                                                                         *)
(* The properties are inductive together with what the tokens mean: every  *)
(* running attempt has a token of its own (Fresh); the call of an attempt  *)
(* may have delivered exactly while the attempt is about to call or was    *)
(* accepted (Announced); a call that may have delivered is the one whose   *)
(* mark the row bears, or the row is settled as something other than a     *)
(* plain failure (Cautious); and the owner of the row knows its count      *)
(* (OwnerCounts).                                                          *)
(***************************************************************************)
EXTENDS EmailOutbox, TLAPS

Busy(w) == att[w].phase # "idle"

(* Tokens are drawn once.                                                  *)
Fresh ==
    /\ token <= tokens
    /\ \A t \in live : t <= tokens
    /\ \A w \in Workers : Busy(w) => 0 < att[w].token /\ att[w].token <= tokens
    /\ \A v, w \in Workers : Busy(v) /\ Busy(w) /\ att[v].token = att[w].token => v = w

(* An attempt's call is live from its announcement to its known failure.   *)
Announced ==
    \A w \in Workers :
      /\ att[w].phase \in {"call", "accepted"} => att[w].token \in live
      /\ att[w].phase \in {"check", "retryable", "throttled", "permanent"}
           => att[w].token \notin live

(* What a strict row says while a call may have delivered.                 *)
Cautious ==
    Strict => \A t \in live :
      \/ status = "PROCESSING" /\ started /\ token = t
      \/ status = "FAILED" /\ code = "uncertain"
      \/ status \in {"SENT", "CANCELLED"}

(* The attempt that wrote SENT has ended.                                  *)
SenderEnded == status = "SENT" => \A w \in Workers : Busy(w) => att[w].token # token

(* An attempt that owns the row was the last to count.                     *)
OwnerCounts ==
    \A w \in Workers : Busy(w) => /\ 0 < att[w].count
                                  /\ Owns(w) => att[w].count = count

Attempt == [phase : Phase, job : Job, count : 0..MaxAttempts, token : Nat]

IInv == /\ TypeOK /\ Fresh /\ Announced /\ Cautious /\ SenderEnded /\ OwnerCounts
        /\ NoBlindResend /\ SentIsTrue /\ AttemptsAreCumulative

-----------------------------------------------------------------------------
LEMMA InitIInv == Init => IInv
  <1> SUFFICES ASSUME Init PROVE IInv
    OBVIOUS
  <1>0. Idle \in Attempt
    BY EmailAssumption DEF Idle, Attempt, NoJob, Job, Phase
  <1>1. TypeOK
    <2>1. att \in [Workers -> Attempt]
      BY <1>0 DEF Init
    <2>2. safe \in BOOLEAN /\ attachment \in BOOLEAN /\ stale \in BOOLEAN /\ started \in BOOLEAN
            /\ allowed \in BOOLEAN
      BY DEF Init
    <2>3. /\ count \in 0..MaxAttempts /\ faults \in 0..MaxFaults /\ replays \in 0..MaxReplays
          /\ gen \in Nat /\ token \in Nat /\ tokens \in Nat /\ claims \in Nat
      BY EmailAssumption DEF Init
    <2>4. QED
      BY <2>1, <2>2, <2>3 DEF Init, TypeOK, Attempt
  <1>2. Fresh /\ Announced /\ SenderEnded /\ OwnerCounts
    BY DEF Init, Fresh, Announced, SenderEnded, OwnerCounts, Busy, Idle
  <1>3. QED
    BY <1>1, <1>2 DEF Init, IInv, Cautious, NoBlindResend, SentIsTrue, AttemptsAreCumulative

(* What the writes of a worker's slot do to att.                           *)
LEMMA SlotSteps ==
    ASSUME TypeOK, NEW w \in Workers
    PROVE  /\ att' = [att EXCEPT ![w] = Idle] =>
                /\ att' \in [Workers -> Attempt] /\ att'[w].phase = "idle"
                /\ \A v \in Workers : v # w => att'[v] = att[v]
           /\ \A ph \in Phase : att' = [att EXCEPT ![w].phase = ph] =>
                /\ att' \in [Workers -> Attempt] /\ att'[w].phase = ph
                /\ att'[w].token = att[w].token /\ att'[w].count = att[w].count
                /\ \A v \in Workers : v # w => att'[v] = att[v]
           /\ \A a \in Attempt : att' = [att EXCEPT ![w] = a] =>
                /\ att' \in [Workers -> Attempt] /\ att'[w] = a
                /\ \A v \in Workers : v # w => att'[v] = att[v]
  <1>1. att \in [Workers -> Attempt]
    BY DEF TypeOK, Attempt
  <1>2. Idle \in Attempt /\ Idle.phase = "idle"
    BY EmailAssumption DEF Idle, Attempt, NoJob, Job, Phase
  <1> HIDE DEF Idle
  <1>3. ASSUME NEW a \in Attempt, att' = [att EXCEPT ![w] = a]
        PROVE  /\ att' \in [Workers -> Attempt] /\ att'[w] = a
               /\ \A v \in Workers : v # w => att'[v] = att[v]
    BY <1>1, <1>3
  <1>4. ASSUME NEW ph \in Phase, att' = [att EXCEPT ![w].phase = ph]
        PROVE  /\ att' \in [Workers -> Attempt] /\ att'[w].phase = ph
               /\ att'[w].token = att[w].token /\ att'[w].count = att[w].count
               /\ \A v \in Workers : v # w => att'[v] = att[v]
    BY <1>1, <1>4 DEF Attempt
  <1>5. QED
    BY <1>2, <1>3, <1>4

(* Publishes, jobs and time leave everything the invariant is about alone. *)
LEMMA QueueKeeps ==
    ASSUME IInv,
           \/ \E g \in outgoing : Add(g) \/ LosePublish(g)
           \/ \E j \in queue : LoseJob(j)
           \/ Age
           \/ \E w \in Workers, j \in queue : Skip(w, j)
    PROVE  IInv'
  <1>1. TypeOK'
    <2> USE EmailAssumption DEF IInv, TypeOK, row, conf, hist
    <2>1. ASSUME NEW g \in outgoing, Add(g) PROVE TypeOK'
      <3>1. [gen |-> g, starts |-> 0] \in Job
        BY DEF Job
      <3>2. QED
        BY <2>1, <3>1 DEF Add
    <2>2. ASSUME NEW g \in outgoing, LosePublish(g) PROVE TypeOK'
      BY <2>2 DEF LosePublish, Fault
    <2>3. ASSUME NEW j \in queue, LoseJob(j) PROVE TypeOK'
      BY <2>3 DEF LoseJob, Fault
    <2>4. ASSUME Age PROVE TypeOK'
      BY <2>4 DEF Age, Fault
    <2>5. ASSUME NEW w \in Workers, NEW j \in queue, Skip(w, j) PROVE TypeOK'
      BY <2>5 DEF Skip
    <2>6. QED
      BY <2>1, <2>2, <2>3, <2>4, <2>5
  <1>2. UNCHANGED <<safe, status, count, started, token, code, att, tokens, live, claims, allowed>>
    BY DEF Add, LosePublish, LoseJob, Age, Skip, row, conf, hist
  <1>3. QED
    BY <1>1, <1>2 DEF IInv, Fresh, Announced, Cautious, SenderEnded, OwnerCounts, Owns, Busy,
       NoBlindResend, Strict, SentIsTrue, AttemptsAreCumulative

(* A worker that writes nothing but ends its attempt disturbs nothing.     *)
LEMMA LeavingKeeps ==
    ASSUME IInv, TypeOK', NEW w \in Workers,
           att'[w].phase = "idle", \A v \in Workers : v # w => att'[v] = att[v],
           UNCHANGED <<safe, status, count, started, token, code, tokens, live, claims, allowed>>
    PROVE  IInv'
  <1>1. Fresh' /\ Announced' /\ SenderEnded' /\ OwnerCounts'
    BY DEF IInv, Fresh, Announced, SenderEnded, OwnerCounts, Owns, Busy
  <1>2. QED
    BY <1>1 DEF IInv, Cautious, NoBlindResend, Strict, SentIsTrue, AttemptsAreCumulative

(* The row moves while the attempts go on: the producer, the dispatcher,   *)
(* the business.                                                           *)
LEMMA RowKeeps ==
    ASSUME IInv, Enqueue \/ Dispatch \/ CancelOpen
    PROVE  IInv'
  <1> USE EmailAssumption DEF IInv, TypeOK, conf, hist, Open, Terminal
  <1>1. /\ UNCHANGED <<safe, attachment, count, started, token, att, tokens, live, claims, allowed>>
        /\ status' # "PROCESSING" /\ status' # "SENT"
        /\ status # "SENT"
    BY DEF Enqueue, Dispatch, FailExhausted, FailUncertain, FirstPublish, Recover, CancelOpen,
       Claimable
  <1>2. TypeOK'
    <2>1. CASE Enqueue
      BY <2>1 DEF Enqueue
    <2>2. CASE FailExhausted \/ FailUncertain
      BY <2>2 DEF FailExhausted, FailUncertain
    <2>3. CASE FirstPublish \/ Recover
      <3>1. CASE FirstPublish
        BY <3>1 DEF FirstPublish
      <3>2. CASE Recover
        <4>1. gen + 1 \in Nat
          OBVIOUS
        <4>2. QED
          BY <3>2, <4>1 DEF Recover, NextGeneration
      <3>3. QED
        BY <2>3, <3>1, <3>2
    <2>4. CASE CancelOpen
      BY <2>4 DEF CancelOpen
    <2>5. QED
      BY <2>1, <2>2, <2>3, <2>4 DEF Dispatch
  <1>3. Fresh' /\ Announced' /\ SenderEnded' /\ OwnerCounts'
    BY <1>1 DEF Fresh, Announced, SenderEnded, OwnerCounts, Owns, Busy
  <1>4. Cautious'
    <2> USE DEF Cautious, Strict
    <2>1. CASE Enqueue
      BY <1>1, <2>1 DEF Enqueue
    <2>2. CASE FailExhausted
      BY <1>1, <2>2 DEF FailExhausted, LastAttemptAmbiguous, Claimable
    <2>3. CASE FailUncertain
      BY <1>1, <2>3 DEF FailUncertain
    <2>4. CASE FirstPublish \/ Recover
      BY <1>1, <2>4 DEF FirstPublish, Recover, SafeToRecover, Claimable
    <2>5. CASE CancelOpen
      BY <1>1, <2>5 DEF CancelOpen
    <2>6. QED
      BY <2>1, <2>2, <2>3, <2>4, <2>5 DEF Dispatch
  <1>5. QED
    BY <1>1, <1>2, <1>3, <1>4 DEF NoBlindResend, Strict, SentIsTrue, AttemptsAreCumulative

(* An operator's replay.                                                   *)
LEMMA ReplayKeeps ==
    ASSUME IInv, NEW a \in BOOLEAN, ReplayFailedEmail(a)
    PROVE  IInv'
  <1> USE EmailAssumption DEF IInv, TypeOK, conf, ReplayFailedEmail, MayReplay
  <1>1. TypeOK'
    <2>1. allowed' \in BOOLEAN /\ started' \in BOOLEAN /\ stale' \in BOOLEAN
      OBVIOUS
    <2>2. count' \in 0..MaxAttempts /\ replays' \in 0..MaxReplays /\ gen' \in Nat /\ token' \in Nat
      OBVIOUS
    <2>3. QED
      BY <2>1, <2>2 DEF Open
  <1>2. Fresh' /\ Announced' /\ SenderEnded' /\ OwnerCounts'
    BY DEF Fresh, Announced, SenderEnded, OwnerCounts, Owns, Busy
  <1>3. Strict' => Strict /\ live = {}
    BY DEF Strict, Cautious
  <1>4. QED
    BY <1>1, <1>2, <1>3 DEF Cautious, NoBlindResend, SentIsTrue, AttemptsAreCumulative

(* The claim: its attempt takes a token nobody has, and a strict row that  *)
(* is claimable has no live call.                                          *)
LEMMA ClaimKeeps ==
    ASSUME IInv, NEW w \in Workers, NEW j \in queue, NEW valid \in BOOLEAN, Claim(w, j, valid)
    PROVE  IInv'
  <1> DEFINE a == [phase |-> IF attachment THEN "check" ELSE "call",
                   job   |-> [gen |-> j.gen, starts |-> Starts(j)],
                   count |-> count + 1, token |-> tokens + 1]
  <1> USE EmailAssumption DEF IInv, TypeOK, conf
  <1>1. Strict => live = {}
    BY DEF Claim, MayClaim, Cautious
  <1>2. /\ a \in Attempt /\ a.token = tokens + 1 /\ a.count = count + 1
        /\ a.phase = IF attachment THEN "check" ELSE "call"
    <2>1. [gen |-> j.gen, starts |-> Starts(j)] \in Job
      BY DEF Job, Starts
    <2>2. count + 1 \in 0..MaxAttempts
      BY DEF Claim, MayClaim
    <2>3. (IF attachment THEN "check" ELSE "call") \in Phase
      BY DEF Phase
    <2>4. QED
      BY <2>1, <2>2, <2>3 DEF Attempt
  <1>3. /\ valid => att' = [att EXCEPT ![w] = a]
        /\ ~valid => att' = att
    BY DEF Claim
  <1> HIDE DEF a
  <1>4. /\ att' \in [Workers -> Attempt]
        /\ valid => att'[w] = a
        /\ \A v \in Workers : v # w => att'[v] = att[v]
        /\ ~valid => att' = att
    BY <1>2, <1>3, SlotSteps DEF Attempt
  <1>5. /\ safe' = safe /\ allowed' = allowed /\ tokens' = tokens + 1 /\ token' = tokens + 1
        /\ count' = count + 1 /\ claims' = claims + 1 /\ count + 1 \in 0..MaxAttempts
        /\ valid => /\ status' = "PROCESSING" /\ (~attachment => started')
                    /\ live' = IF attachment THEN live ELSE live \cup {tokens + 1}
        /\ ~valid => status' = "CANCELLED" /\ live' = live
    BY DEF Claim, MayClaim
  <1>6. TypeOK'
    <2>1. started' \in BOOLEAN /\ stale' \in BOOLEAN
      BY DEF Claim
    <2>2. live' \subseteq Nat
      <3>1. tokens + 1 \in Nat /\ live' \subseteq live \cup {tokens + 1}
        BY <1>5
      <3>2. QED
        BY <3>1
    <2>3. status' \in Open \cup Terminal \cup {"none"} /\ queue' \subseteq Job
      BY <1>5 DEF Claim, Open, Terminal
    <2>4. UNCHANGED <<safe, attachment, gen, code, outgoing, retained, allowed, faults, replays>>
      BY DEF Claim
    <2>5. count' \in 0..MaxAttempts /\ claims' \in Nat /\ token' \in Nat /\ tokens' \in Nat
      BY <1>5
    <2>6. QED
      BY <1>4, <2>1, <2>2, <2>3, <2>4, <2>5 DEF Attempt
  <1>7. Fresh'
    <2>0. token' <= tokens' /\ \A t \in live' : t <= tokens'
      <3>1. \A t \in live : t \in Nat /\ t <= tokens
        BY DEF Fresh
      <3>2. \A t \in live' : t \in live \/ t = tokens + 1
        BY <1>5
      <3>3. ASSUME NEW t \in live' PROVE t <= tokens + 1
        <4>1. tokens \in Nat /\ (t = tokens + 1 \/ (t \in Nat /\ t <= tokens))
          BY <3>1, <3>2
        <4>2. QED
          BY <4>1
      <3>4. QED
        BY <1>5, <3>3
    <2>1. CASE valid
      <3>1. \A v \in Workers : v # w => (Busy(v)' <=> Busy(v)) /\ att'[v].token = att[v].token
        BY <1>4 DEF Busy
      <3>2. att'[w].token = tokens + 1
        BY <1>2, <1>4, <2>1
      <3>3. \A v \in Workers : Busy(v)' => 0 < att'[v].token /\ att'[v].token <= tokens'
        BY <1>5, <3>1, <3>2 DEF Fresh
      <3>4. \A u, v \in Workers : Busy(u)' /\ Busy(v)' /\ att'[u].token = att'[v].token => u = v
        BY <3>1, <3>2 DEF Fresh
      <3>5. QED
        BY <2>0, <3>3, <3>4 DEF Fresh
    <2>2. CASE ~valid
      <3>1. \A v \in Workers : Busy(v)' => 0 < att'[v].token /\ att'[v].token <= tokens'
        BY <1>4, <1>5, <2>2 DEF Fresh, Busy
      <3>2. QED
        BY <1>4, <2>0, <2>2, <3>1 DEF Fresh, Busy
    <2>3. QED
      BY <2>1, <2>2
  <1>8. Announced'
    BY <1>2, <1>4, <1>5 DEF Announced, Fresh, Busy
  <1>9. SenderEnded' /\ SentIsTrue' /\ AttemptsAreCumulative'
    BY <1>5 DEF SenderEnded, SentIsTrue, AttemptsAreCumulative
  <1>10. OwnerCounts'
    BY <1>2, <1>4, <1>5 DEF OwnerCounts, Owns, Fresh, Busy
  <1>11. Cautious' /\ NoBlindResend'
    BY <1>1, <1>5 DEF Cautious, NoBlindResend, Strict
  <1>12. QED
    BY <1>6, <1>7, <1>8, <1>9, <1>10, <1>11

(* The check of an attachment.                                             *)
LEMMA CheckKeeps ==
    ASSUME IInv, NEW w \in Workers, NEW v \in {"ok", "refused", "retryable", "permanent"},
           CheckAttachment(w, v)
    PROVE  IInv'
  <1> USE EmailAssumption DEF IInv
  <1>1. /\ UNCHANGED <<safe, attachment, count, token, code, tokens, claims, allowed, queue, outgoing,
                       retained, gen, stale, faults, replays>>
        /\ att[w].phase = "check"
    BY DEF CheckAttachment, conf, hist, EndJob
  <1>2. CASE v \in {"retryable", "permanent"}
    <2>1. att' = [att EXCEPT ![w].phase = v] /\ UNCHANGED <<status, started, live>>
      BY <1>2 DEF CheckAttachment
    <2>2. v \in Phase
      BY <1>2 DEF Phase, Outcome
    <2>3. /\ att' \in [Workers -> Attempt] /\ att'[w].phase = v
          /\ att'[w].token = att[w].token /\ att'[w].count = att[w].count
          /\ \A u \in Workers : u # w => att'[u] = att[u]
      BY <2>1, <2>2, SlotSteps
    <2>4. TypeOK'
      BY <1>1, <2>1, <2>3 DEF TypeOK, Attempt
    <2>5. Fresh' /\ Announced' /\ SenderEnded' /\ OwnerCounts'
      BY <1>1, <1>2, <2>1, <2>3 DEF Fresh, Announced, SenderEnded, OwnerCounts, Owns, Busy
    <2>6. QED
      BY <1>1, <2>1, <2>4, <2>5 DEF Cautious, NoBlindResend, Strict, SentIsTrue, AttemptsAreCumulative
  <1>3. CASE v \in {"ok", "refused"} /\ ~Owns(w)
    <2>1. /\ att' = [att EXCEPT ![w] = Idle] /\ UNCHANGED <<status, started, live>>
      BY <1>3 DEF CheckAttachment, EndJob
    <2>2. /\ att' \in [Workers -> Attempt] /\ att'[w].phase = "idle"
          /\ \A u \in Workers : u # w => att'[u] = att[u]
      BY <2>1, SlotSteps
    <2>3. TypeOK'
      BY <1>1, <2>1, <2>2 DEF TypeOK, Attempt
    <2>4. QED
      BY <1>1, <2>1, <2>2, <2>3, LeavingKeeps
  <1>4. CASE v = "refused" /\ Owns(w)
    <2>1. /\ att' = [att EXCEPT ![w] = Idle] /\ UNCHANGED <<started, live>> /\ status' = "CANCELLED"
      BY <1>4 DEF CheckAttachment, EndJob
    <2>2. /\ att' \in [Workers -> Attempt] /\ att'[w].phase = "idle"
          /\ \A u \in Workers : u # w => att'[u] = att[u]
      BY <2>1, SlotSteps
    <2>3. TypeOK'
      BY <1>1, <2>1, <2>2 DEF TypeOK, Attempt, Terminal
    <2>4. Fresh' /\ Announced' /\ SenderEnded' /\ OwnerCounts'
      BY <1>1, <2>1, <2>2 DEF Fresh, Announced, SenderEnded, OwnerCounts, Owns, Busy
    <2>5. QED
      BY <1>1, <2>1, <2>3, <2>4 DEF Cautious, NoBlindResend, Strict, SentIsTrue, AttemptsAreCumulative
  <1>5. CASE v = "ok" /\ Owns(w)
    <2>1. /\ att' = [att EXCEPT ![w].phase = "call"] /\ status' = status /\ started' = TRUE
          /\ live' = live \cup {token} /\ token = att[w].token /\ status = "PROCESSING"
      BY <1>5 DEF CheckAttachment, Owns
    <2>2. /\ att' \in [Workers -> Attempt] /\ att'[w].phase = "call"
          /\ att'[w].token = att[w].token /\ att'[w].count = att[w].count
          /\ \A u \in Workers : u # w => att'[u] = att[u]
      BY <2>1, SlotSteps DEF Phase
    <2>3. TypeOK'
      <3>1. live' \subseteq Nat /\ started' \in BOOLEAN
        BY <2>1 DEF TypeOK
      <3>2. QED
        BY <1>1, <2>1, <2>2, <3>1 DEF TypeOK, Attempt
    <2>4. Fresh' /\ OwnerCounts' /\ SenderEnded'
      BY <1>1, <2>1, <2>2 DEF Fresh, SenderEnded, OwnerCounts, Owns, Busy
    <2>5. Announced'
      BY <1>1, <2>1, <2>2 DEF Fresh, Announced, Busy
    <2>6. Strict => live = {}
      BY <1>1, <2>1 DEF Cautious, Announced
    <2>7. Cautious' /\ NoBlindResend'
      BY <1>1, <2>1, <2>6 DEF Cautious, NoBlindResend, Strict
    <2>8. QED
      BY <1>1, <2>1, <2>3, <2>4, <2>5, <2>7 DEF SentIsTrue, AttemptsAreCumulative
  <1>6. QED
    BY <1>2, <1>3, <1>4, <1>5

(* The call, and what may fail before it.                                  *)
LEMMA CallKeeps ==
    ASSUME IInv, NEW w \in Workers, NEW o \in Outcome,
           Send(w, o) \/ (o \in {"retryable", "permanent"} /\ PrepareFails(w, o))
    PROVE  IInv'
  <1> USE EmailAssumption DEF IInv
  <1>1. /\ UNCHANGED <<safe, attachment, status, stale, count, gen, started, token, code, outgoing, queue,
                       retained, tokens, claims, allowed, faults, replays>>
        /\ att[w].phase = "call"
        /\ att' = [att EXCEPT ![w].phase = o]
        /\ live' = IF o = "accepted" THEN live ELSE live \ {att[w].token}
    BY DEF Send, PrepareFails, conf, row, hist
  <1>2. /\ att' \in [Workers -> Attempt] /\ att'[w].phase = o
        /\ att'[w].token = att[w].token /\ att'[w].count = att[w].count
        /\ \A u \in Workers : u # w => att'[u] = att[u]
    BY <1>1, SlotSteps DEF Phase
  <1>3. TypeOK'
    BY <1>1, <1>2 DEF TypeOK, Attempt
  <1>4. Fresh' /\ OwnerCounts' /\ SenderEnded'
    BY <1>1, <1>2 DEF Fresh, SenderEnded, OwnerCounts, Owns, Busy, Outcome
  <1>5. Announced'
    BY <1>1, <1>2 DEF Announced, Fresh, Busy, Outcome
  <1>6. SentIsTrue'
    BY <1>1 DEF SentIsTrue, SenderEnded, Busy
  <1>7. QED
    BY <1>1, <1>3, <1>4, <1>5, <1>6 DEF Cautious, NoBlindResend, Strict, AttemptsAreCumulative

(* The end of an attempt.                                                  *)
LEMMA EndKeeps ==
    ASSUME IInv, NEW w \in Workers, NEW again \in BOOLEAN,
           \/ PersistSent(w) \/ PersistSentFails(w) \/ HandleSendFailure(w, again)
           \/ FailureWriteFails(w) \/ Crash(w)
    PROVE  IInv'
  <1> USE EmailAssumption DEF IInv
  <1>1. /\ att' = [att EXCEPT ![w] = Idle] /\ Busy(w)
        /\ queue' \in {queue, queue \cup {att[w].job}}
        /\ UNCHANGED <<safe, attachment, gen, started, token, outgoing, retained, tokens, live, allowed,
                       faults, replays>>
    BY DEF PersistSent, PersistSentFails, HandleSendFailure, FailureWriteFails, Crash, EndJob,
       RetryJob, Busy, conf, row, hist
  <1>2. /\ att' \in [Workers -> Attempt] /\ att'[w].phase = "idle"
        /\ \A u \in Workers : u # w => att'[u] = att[u]
    BY <1>1, SlotSteps
  <1>3. queue' \subseteq Job
    BY <1>1 DEF TypeOK
  <1>4. CASE UNCHANGED <<status, count, code, claims, stale>>
    <2>1. TypeOK'
      BY <1>1, <1>2, <1>3, <1>4 DEF TypeOK, Attempt
    <2>2. QED
      BY <1>1, <1>2, <1>4, <2>1, LeavingKeeps
  <1>5. CASE PersistSent(w) /\ Owns(w)
    <2>1. /\ status' = "SENT" /\ count' = att[w].count /\ token = att[w].token
          /\ UNCHANGED <<code, claims, stale>> /\ att[w].phase = "accepted"
      BY <1>5 DEF PersistSent, Owns, hist
    <2>2. count' = count
      BY <1>1, <1>5, <2>1 DEF OwnerCounts
    <2>3. TypeOK'
      BY <1>1, <1>2, <1>3, <2>1, <2>2 DEF TypeOK, Attempt, Terminal
    <2>4. Fresh' /\ Announced' /\ OwnerCounts' /\ SenderEnded'
      BY <1>1, <1>2, <2>1, <2>2 DEF Fresh, Announced, OwnerCounts, SenderEnded, Owns, Busy
    <2>5. SentIsTrue' /\ Cautious'
      BY <1>1, <2>1 DEF SentIsTrue, Announced, Cautious
    <2>6. QED
      BY <1>1, <2>1, <2>2, <2>3, <2>4, <2>5 DEF NoBlindResend, Strict, AttemptsAreCumulative
  <1>6. CASE HandleSendFailure(w, again) /\ Owns(w)
    <2>1. /\ status' \in {"FAILED", "RETRY"} /\ code' = "error" /\ token = att[w].token
          /\ \/ count' = att[w].count /\ claims' = claims
             \/ count' = att[w].count - 1 /\ claims' = claims - 1
          /\ stale' = FALSE /\ att[w].phase \in {"retryable", "throttled", "permanent"}
          /\ status = "PROCESSING"
      BY <1>6 DEF HandleSendFailure, Owns, StatusAfterFailure
    <2>2. att[w].count = count /\ 0 < count /\ count = claims
      BY <1>1, <1>6 DEF OwnerCounts, AttemptsAreCumulative
    <2>3. count' \in 0..MaxAttempts /\ claims' \in Nat /\ count' = claims'
      BY <2>1, <2>2 DEF TypeOK
    <2>4. TypeOK'
      BY <1>1, <1>2, <1>3, <2>1, <2>3 DEF TypeOK, Attempt, Open, Terminal
    <2>5. Fresh' /\ Announced' /\ OwnerCounts' /\ SenderEnded'
      BY <1>1, <1>2, <2>1 DEF Fresh, Announced, OwnerCounts, SenderEnded, Owns, Busy
    <2>6. Strict => live = {}
      BY <1>1, <2>1 DEF Cautious, Announced
    <2>7. QED
      BY <1>1, <2>1, <2>3, <2>4, <2>5, <2>6 DEF Cautious, NoBlindResend, Strict, SentIsTrue,
         AttemptsAreCumulative
  <1>7. QED
    BY <1>4, <1>5, <1>6 DEF PersistSent, PersistSentFails, HandleSendFailure, FailureWriteFails, Crash,
       row, hist

-----------------------------------------------------------------------------
LEMMA NextKeeps == ASSUME IInv, [Next]_vars PROVE IInv'
  <1>1. CASE UNCHANGED vars
    BY <1>1 DEF vars, conf, row, hist, IInv, TypeOK, Fresh, Announced, Cautious, SenderEnded, OwnerCounts,
       Owns, Busy, NoBlindResend, Strict, SentIsTrue, AttemptsAreCumulative
  <1>2. CASE Enqueue \/ Dispatch \/ CancelOpen
    BY <1>2, RowKeeps
  <1>3. ASSUME NEW a \in BOOLEAN, ReplayFailedEmail(a) PROVE IInv'
    BY <1>3, ReplayKeeps
  <1>4. ASSUME NEW w \in Workers, Take(w) PROVE IInv'
    BY <1>4, QueueKeeps, ClaimKeeps DEF Take
  <1>5. ASSUME NEW w \in Workers, Step(w) \/ Crash(w) PROVE IInv'
    <2>1. ASSUME NEW o \in {"retryable", "permanent"}, PrepareFails(w, o) PROVE IInv'
      BY <2>1, CallKeeps DEF Outcome
    <2>2. QED
      BY <1>5, <2>1, CheckKeeps, CallKeeps, EndKeeps DEF Step
  <1>6. QED
    BY <1>1, <1>2, <1>3, <1>4, <1>5, QueueKeeps DEF Next

(* The inductive invariant holds in every reachable state.                 *)
THEOREM EmailInductive == Spec => []IInv
  BY InitIInv, NextKeeps, PTL DEF Spec

(* Every handler of the outbox keeps the types of the row, of its jobs and *)
(* of the attempts.                                                        *)
THEOREM EmailTypes == Spec => []TypeOK
  BY EmailInductive, PTL DEF IInv

(* However many workers die, stall and are recovered, a driver that cannot *)
(* deduplicate is not called while an earlier call may have delivered.     *)
THEOREM NeverResentBlindly == Spec => []NoBlindResend
  BY EmailInductive, PTL DEF IInv

(* A row says SENT only for an attempt the provider accepted.              *)
THEOREM SentIsAccepted == Spec => []SentIsTrue
  BY EmailInductive, PTL DEF IInv

(* The absolute write of infrastructure_attempt_count loses no attempt.    *)
THEOREM CapIsCumulative == Spec => []AttemptsAreCumulative
  BY EmailInductive, PTL DEF IInv

(* What replay_failed_email lets pass without the allow-uncertain flag was *)
(* delivered by nobody.                                                    *)
THEOREM PlainReplayIsSafe == Spec => []PlainFailureIsSafeToReplay
  <1>1. IInv => PlainFailureIsSafeToReplay
    BY DEF IInv, TypeOK, Cautious, PlainFailureIsSafeToReplay
  <1>2. QED
    BY EmailInductive, <1>1, PTL

(* Nothing but a replay changes the status of a settled row.               *)
THEOREM EmailOutcomesStick == Spec => OutcomesStick
  <1>1. ASSUME TypeOK, [Next]_vars, status \in Terminal, status' # status
        PROVE  replays' > replays
    <2>1. UNCHANGED vars => status' = status
      BY DEF vars, row
    <2>2. PICK a \in BOOLEAN : ReplayFailedEmail(a)
      BY <1>1, <2>1 DEF Next, Enqueue, Add, LosePublish, LoseJob, Age, Dispatch, FailExhausted,
         FailUncertain, FirstPublish, Recover, Claimable, Take, Skip, Claim, MayClaim, Step,
         CheckAttachment, PrepareFails, Send, PersistSent, PersistSentFails, HandleSendFailure,
         FailureWriteFails, Crash, CancelOpen, Owns, Open, Terminal, row
    <2>3. QED
      BY <1>1, <2>2 DEF ReplayFailedEmail, TypeOK
  <1>2. QED
    BY EmailTypes, <1>1, PTL DEF Spec, OutcomesStick

-----------------------------------------------------------------------------
(* The refinement                                                          *)

(* What a status means to the contract, before and after a step.           *)
LEMMA DeliveryStates ==
    /\ /\ status = "none" => DeliveryState = "none"
       /\ status \in Open => DeliveryState = "open"
       /\ status = "SENT" => DeliveryState = "sent"
       /\ status = "CANCELLED" => DeliveryState = "cancelled"
       /\ status = "FAILED" => DeliveryState = IF code = "uncertain" THEN "uncertain" ELSE "failed"
    /\ /\ status' = "none" => DeliveryState' = "none"
       /\ status' \in Open => DeliveryState' = "open"
       /\ status' = "SENT" => DeliveryState' = "sent"
       /\ status' = "CANCELLED" => DeliveryState' = "cancelled"
       /\ status' = "FAILED" => DeliveryState' = IF code' = "uncertain" THEN "uncertain" ELSE "failed"
  BY DEF DeliveryState, Open

(* A step that leaves status, code and live alone is invisible; one that   *)
(* keeps the row open is, too.                                             *)
LEMMA Invisible ==
    ASSUME UNCHANGED <<safe, allowed, live>>,
           UNCHANGED <<status, code>> \/ (status \in Open /\ status' \in Open)
    PROVE  UNCHANGED Contract!vars
  <1>1. DeliveryState' = DeliveryState
    BY DeliveryStates DEF DeliveryState
  <1>2. Strict' = Strict
    BY DEF Strict
  <1>3. QED
    BY <1>1, <1>2 DEF Contract!vars

(* Every step is one of the contract's, or invisible.                      *)
LEMMA StepRefines == ASSUME IInv, [Next]_vars PROVE [Contract!Next]_(Contract!vars)
  <1> USE DEF conf, row, hist
  <1>0. CASE UNCHANGED vars
    BY <1>0, Invisible DEF vars
  <1>1. CASE Enqueue
    <2>1. Contract!Accept
      BY <1>1, DeliveryStates DEF Enqueue, Contract!Accept, Strict, Open
    <2>2. QED
      BY <2>1 DEF Contract!Next
  <1>2. CASE \/ \E g \in outgoing : Add(g) \/ LosePublish(g)
             \/ \E j \in queue : LoseJob(j)
             \/ Age
             \/ \E w \in Workers, j \in queue : Skip(w, j)
    BY <1>2, Invisible DEF Add, LosePublish, LoseJob, Age, Skip
  <1>3. CASE FirstPublish \/ Recover
    BY <1>3, Invisible DEF FirstPublish, Recover, Claimable, Open
  <1>4. CASE FailExhausted \/ FailUncertain
    <2>1. DeliveryState = "open" /\ UNCHANGED live /\ Strict' = Strict
      BY <1>4, DeliveryStates DEF FailExhausted, FailUncertain, Claimable, Strict, Open
    <2>2. CASE FailUncertain
      BY <2>1, <2>2, DeliveryStates DEF FailUncertain, Contract!Next, Contract!GiveUp
    <2>3. CASE FailExhausted
      <3>1. Strict => live = {}
        BY <2>3 DEF FailExhausted, LastAttemptAmbiguous, Claimable, IInv, Cautious
      <3>2. QED
        BY <2>1, <2>3, <3>1, DeliveryStates DEF FailExhausted, Contract!Next, Contract!GiveUp
    <2>4. QED
      BY <1>4, <2>2, <2>3
  <1>5. CASE CancelOpen
    BY <1>5, DeliveryStates DEF CancelOpen, Strict, Contract!Next, Contract!GiveUp
  <1>6. ASSUME NEW a \in BOOLEAN, ReplayFailedEmail(a)
        PROVE  Contract!Next
    <2>1. DeliveryState = (IF code = "uncertain" THEN "uncertain" ELSE "failed") /\ DeliveryState' = "open"
      BY <1>6, DeliveryStates DEF ReplayFailedEmail, MayReplay, Open
    <2>2. Strict' = (Strict /\ code # "uncertain")
      BY <1>6 DEF ReplayFailedEmail, MayReplay, Strict
    <2>3. Contract!Replay
      BY <1>6, <2>1, <2>2 DEF ReplayFailedEmail, Contract!Replay
    <2>4. QED
      BY <2>3 DEF Contract!Next
  <1>7. ASSUME NEW w \in Workers, NEW j \in queue, NEW valid \in BOOLEAN, Claim(w, j, valid)
        PROVE  [Contract!Next]_(Contract!vars)
    <2>1. DeliveryState = "open" /\ (Strict => live = {}) /\ Strict' = Strict
      BY <1>7, DeliveryStates DEF Claim, MayClaim, Strict, Open, IInv, Cautious
    <2>2. CASE ~valid
      BY <1>7, <2>1, <2>2, DeliveryStates DEF Claim, Contract!Next, Contract!GiveUp
    <2>3. CASE valid /\ attachment
      BY <1>7, <2>3, Invisible DEF Claim, MayClaim, Open
    <2>4. CASE valid /\ ~attachment
      <3>1. live' = live \cup {tokens + 1} /\ DeliveryState' = "open"
        BY <1>7, <2>4, DeliveryStates DEF Claim, Open
      <3>2. tokens + 1 \notin live
        BY DEF IInv, TypeOK, Fresh
      <3>3. Contract!Call(tokens + 1)
        BY <2>1, <3>1, <3>2 DEF Contract!Call
      <3>4. QED
        BY <3>1, <3>3 DEF Contract!Next
    <2>5. QED
      BY <2>2, <2>3, <2>4
  <1>8. ASSUME NEW w \in Workers, NEW v \in {"ok", "refused", "retryable", "permanent"},
               CheckAttachment(w, v)
        PROVE  [Contract!Next]_(Contract!vars)
    <2>1. UNCHANGED <<safe, allowed, code>>
      BY <1>8 DEF CheckAttachment
    <2>2. CASE UNCHANGED <<status, live>>
      BY <2>1, <2>2, Invisible
    <2>3. CASE v = "refused" /\ Owns(w)
      <3>1. status' = "CANCELLED" /\ live' = live /\ status = "PROCESSING"
        BY <1>8, <2>3 DEF CheckAttachment, Owns
      <3>2. QED
        BY <2>1, <3>1, DeliveryStates DEF Strict, Open, Contract!Next, Contract!GiveUp
    <2>4. CASE v = "ok" /\ Owns(w)
      <3>1. /\ status' = status /\ live' = live \cup {token} /\ status = "PROCESSING"
            /\ token = att[w].token /\ att[w].phase = "check"
        BY <1>8, <2>4 DEF CheckAttachment, Owns
      <3>2. token \notin live /\ (Strict => live = {})
        BY <3>1 DEF IInv, Announced, Cautious
      <3>3. Contract!Call(token)
        BY <2>1, <3>1, <3>2, DeliveryStates DEF Strict, Open, Contract!Call
      <3>4. QED
        BY <3>1, <3>3 DEF Contract!Next
    <2>5. QED
      BY <1>8, <2>2, <2>3, <2>4 DEF CheckAttachment
  <1>9. ASSUME NEW w \in Workers, NEW o \in Outcome,
               Send(w, o) \/ (o \in {"retryable", "permanent"} /\ PrepareFails(w, o))
        PROVE  [Contract!Next]_(Contract!vars)
    <2>1. /\ UNCHANGED <<safe, allowed, status, code>> /\ att[w].phase = "call"
          /\ live' = IF o = "accepted" THEN live ELSE live \ {att[w].token}
      BY <1>9 DEF Send, PrepareFails
    <2>2. att[w].token \in live
      BY <2>1 DEF IInv, Announced
    <2>3. DeliveryState' = DeliveryState /\ Strict' = Strict
      BY <2>1 DEF DeliveryState, Strict
    <2>4. CASE o = "accepted"
      BY <2>1, <2>4, Invisible
    <2>5. CASE o # "accepted"
      <3>1. DeliveryState = "sent" => status = "SENT"
        BY DeliveryStates DEF IInv, TypeOK, Open, Terminal
      <3>2. status = "SENT" => token \in live /\ token # att[w].token
        BY <2>1 DEF IInv, SentIsTrue, SenderEnded, Busy
      <3>3. Contract!Fail(att[w].token)
        BY <2>1, <2>2, <2>3, <2>5, <3>1, <3>2 DEF Contract!Fail
      <3>4. QED
        BY <2>2, <3>3 DEF Contract!Next
    <2>6. QED
      BY <2>4, <2>5
  <1>10. ASSUME NEW w \in Workers, NEW again \in BOOLEAN,
                \/ PersistSent(w) \/ PersistSentFails(w) \/ HandleSendFailure(w, again)
                \/ FailureWriteFails(w) \/ Crash(w)
         PROVE  [Contract!Next]_(Contract!vars)
    <2>1. UNCHANGED <<safe, allowed, live>>
      BY <1>10 DEF PersistSent, PersistSentFails, HandleSendFailure, FailureWriteFails, Crash
    <2>2. CASE UNCHANGED <<status, code>>
      BY <2>1, <2>2, Invisible
    <2>3. CASE PersistSent(w) /\ Owns(w)
      <3>1. status' = "SENT" /\ status = "PROCESSING" /\ live # {}
        BY <2>3 DEF PersistSent, Owns, IInv, Announced
      <3>2. QED
        BY <2>1, <3>1, DeliveryStates DEF Strict, Open, Contract!Next, Contract!Sent
    <2>4. CASE HandleSendFailure(w, again) /\ Owns(w)
      <3>1. /\ status' \in {"FAILED", "RETRY"} /\ code' = "error" /\ token = att[w].token
            /\ att[w].phase \in {"retryable", "throttled", "permanent"} /\ status = "PROCESSING"
        BY <2>4 DEF HandleSendFailure, Owns, StatusAfterFailure
      <3>2. Strict => live = {}
        BY <3>1 DEF IInv, Announced, Cautious
      <3>3. CASE status' = "RETRY"
        BY <2>1, <3>1, <3>3, Invisible DEF Open
      <3>4. CASE status' = "FAILED"
        BY <2>1, <3>1, <3>2, <3>4, DeliveryStates DEF Strict, Open, Contract!Next, Contract!GiveUp
      <3>5. QED
        BY <3>1, <3>3, <3>4
    <2>5. QED
      BY <1>10, <2>2, <2>3, <2>4 DEF PersistSent, PersistSentFails, HandleSendFailure,
         FailureWriteFails, Crash
  <1>11. ASSUME NEW w \in Workers, NEW o \in {"retryable", "permanent"}, PrepareFails(w, o)
         PROVE  [Contract!Next]_(Contract!vars)
    BY <1>9, <1>11 DEF Outcome
  <1>12. QED
    BY <1>0, <1>1, <1>2, <1>3, <1>4, <1>5, <1>6, <1>7, <1>8, <1>9, <1>10, <1>11
       DEF Next, Dispatch, Take, Step

(* The outbox, its dispatcher and its workers implement the contract.      *)
THEOREM EmailKeepsContract == Spec => KeepsContract
  <1>1. Init => Contract!Init
    BY DeliveryStates DEF Init, Contract!Init, Strict
  <1>2. QED
    BY <1>1, EmailInductive, StepRefines, PTL DEF Spec, KeepsContract, Contract!Spec

(* The contract, with what DeliveryProofs proves of it.                    *)
Promise == INSTANCE DeliveryProofs WITH state <- DeliveryState, strict <- Strict

(* So it can be trusted as the push pipeline can: NoBlindResend,           *)
(* PlainFailureIsSafeToReplay and a SENT that was accepted follow from the *)
(* contract alone.                                                         *)
THEOREM EmailIsTrustworthy == Spec => []Contract!Trustworthy
  <1>1. Promise!Spec => []Promise!Trustworthy
    BY Promise!ContractIsTrustworthy
  <1>2. /\ Contract!Init => Promise!Init
        /\ [Contract!Next]_(Contract!vars) => [Promise!Next]_(Promise!vars)
        /\ Promise!Trustworthy => Contract!Trustworthy
    BY DEF Contract!Init, Promise!Init, Contract!Next, Promise!Next, Contract!vars,
           Promise!vars, Contract!Trustworthy, Promise!Trustworthy,
           Contract!Accept, Promise!Accept, Contract!Call, Promise!Call,
           Contract!Fail, Promise!Fail, Contract!Sent, Promise!Sent,
           Contract!GiveUp, Promise!GiveUp, Contract!Replay, Promise!Replay
  <1>3. QED
    BY <1>1, <1>2, EmailKeepsContract, PTL
    DEF KeepsContract, Contract!Spec, Promise!Spec
=============================================================================
