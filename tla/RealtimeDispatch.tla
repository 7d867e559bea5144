----------------------------- MODULE RealtimeDispatch -----------------------------
(***************************************************************************)
(* core.realtime_event and the global dispatch that finds its rows: the    *)
(* pointers that triggers keep beside the rows, the runs of the worker     *)
(* processes that claim pointers, then rows, and publish, and the sweep    *)
(* that also finds rows without a pointer.                                 *)
(*                                                                         *)
(* A database transaction is one action, the trigger of the row included;  *)
(* the publish to Redis and the write of its outcome are separate.  Times  *)
(* are compared with now() only: due says that the row is eligible, and a  *)
(* pointer is timed by its row ("row"), leased or released for later       *)
(* ("lease"), or past that time ("due").                                   *)
(*                                                                         *)
(* A run draws a token for each claim and presents only its last one, so a *)
(* token is the process that drew it, and "gone" once that one drew again. *)
(***************************************************************************)
EXTENDS Naturals, FiniteSets

CONSTANTS
    Events,
    Procs,        \* worker processes, each runs one claim loop
    MaxAttempts,  \* max_attempts
    MaxFaults     \* bound: runs that die, scopes that fail, leases outlived

ASSUME RealtimeAssumption ==
    /\ MaxAttempts \in Nat \ {0} /\ MaxFaults \in Nat
    /\ IsFiniteSet(Procs) /\ "none" \notin Procs /\ "gone" \notin Procs

VARIABLES
    poison,    \* events that do not validate
    status,    \* realtime_event.status, "none": not inserted
    due,       \* next_retry_at or lease_expires_at has passed
    count,     \* attempt_count
    tok,       \* claim_token of the row
    ptr,       \* the pointer: none, row, lease or due
    ptok,      \* claim_token of the pointer
    pc,        \* per process: where its run is
    sweepDue,  \* per process: its reconciliation sweep is due
    ids,       \* per process: pointers claimed for the scope it is at
    batch,     \* per process: rows claimed and not yet handled
    cur,       \* per process: the event whose publish was answered
    sent,      \* history: publishes of an event
    faults

row  == <<status, due, count, tok>>
pntr == <<ptr, ptok>>
run  == <<pc, ids, batch, cur>>
vars == <<poison, row, pntr, run, sweepDue, sent, faults>>

-----------------------------------------------------------------------------
Open     == {"pending", "retry", "processing"}
Terminal == {"completed", "failed", "cancelled"}
Token    == Procs \cup {"none", "gone"}
Steps    == {"idle", "sweep", "claim", "scope", "work", "published", "refused"}

TypeOK ==
    /\ poison \subseteq Events
    /\ status \in [Events -> Open \cup Terminal \cup {"none"}]
    /\ due \in [Events -> BOOLEAN] /\ count \in [Events -> 0..MaxAttempts]
    /\ tok \in [Events -> Token]
    /\ ptr \in [Events -> {"none", "row", "lease", "due"}] /\ ptok \in [Events -> Token]
    /\ pc \in [Procs -> Steps] /\ sweepDue \in [Procs -> BOOLEAN]
    /\ ids \in [Procs -> SUBSET Events] /\ batch \in [Procs -> SUBSET Events]
    /\ cur \in [Procs -> SUBSET Events]
    /\ sent \in [Events -> Nat] /\ faults \in 0..MaxFaults

(* Some rows are older than the triggers and have no pointer.              *)
Init ==
    /\ poison \in SUBSET Events
    /\ \E old \in SUBSET Events :
          status = [e \in Events |-> IF e \in old THEN "pending" ELSE "none"]
    /\ due = [e \in Events |-> TRUE] /\ count = [e \in Events |-> 0]
    /\ tok = [e \in Events |-> "none"]
    /\ ptr = [e \in Events |-> "none"] /\ ptok = [e \in Events |-> "none"]
    /\ pc = [p \in Procs |-> "idle"] /\ sweepDue = [p \in Procs |-> TRUE]
    /\ ids = [p \in Procs |-> {}] /\ batch = [p \in Procs |-> {}] /\ cur = [p \in Procs |-> {}]
    /\ sent = [e \in Events |-> 0] /\ faults = 0

Fault == faults < MaxFaults /\ faults' = faults + 1

-----------------------------------------------------------------------------
(* Mutant: the trigger keeps the pointer of a settled row.                 *)
RetimeOnly(W) ==
    /\ ptr' = [e \in Events |-> IF e \in W THEN "row" ELSE ptr[e]]
    /\ ptok' = [e \in Events |-> IF e \in W THEN "none" ELSE ptok[e]]

(* The pointer trigger, for the rows of W, which a transaction has written: *)
(* every write below changes the status, the retry time or the lease.      *)
Retime(W) ==
    /\ ptr' = [e \in Events |-> IF e \notin W THEN ptr[e]
                                ELSE IF status'[e] \in Open THEN "row" ELSE "none"]
    /\ ptok' = [e \in Events |-> IF e \in W THEN "none" ELSE ptok[e]]

(* The business transaction that inserts the event.                        *)
Insert(e) ==
    /\ status[e] = "none"
    /\ status' = [status EXCEPT ![e] = "pending"]
    /\ Retime({e})
    /\ UNCHANGED <<poison, due, count, tok, run, sweepDue, sent, faults>>

(* A run still works on the row it claimed.                                *)
Held(e) == \E p \in Procs : tok[e] = p /\ e \in batch[p] \cup cur[p]

(* The retry time or the lease passes; that a lease passes under a run     *)
(* that is still working is bounded.                                       *)
Lapse(e) ==
    /\ status[e] \in {"retry", "processing"} /\ ~due[e]
    /\ due' = [due EXCEPT ![e] = TRUE]
    /\ IF status[e] = "processing" /\ Held(e) THEN Fault ELSE UNCHANGED faults
    /\ UNCHANGED <<poison, status, count, tok, pntr, run, sweepDue, sent>>

PointerLapse(e) ==
    /\ ptr[e] = "lease"
    /\ ptr' = [ptr EXCEPT ![e] = "due"]
    /\ UNCHANGED <<poison, row, ptok, run, sweepDue, sent, faults>>

-----------------------------------------------------------------------------
(* DispatchCoordinator: a tick sweeps first when the sweep is due, a       *)
(* wake-up never does.  Both then claim pointers.  NOTIFY is a hint that   *)
(* may be lost, so a wake-up comes at any time or not at all.              *)

SweepDue(p) ==
    /\ ~sweepDue[p]
    /\ sweepDue' = [sweepDue EXCEPT ![p] = TRUE]
    /\ UNCHANGED <<poison, row, pntr, run, sent, faults>>

(* Mutant: the sweep never runs.                                           *)
TickWithoutSweep(p) ==
    /\ pc[p] = "idle"
    /\ pc' = [pc EXCEPT ![p] = "claim"]
    /\ sweepDue' = [sweepDue EXCEPT ![p] = FALSE]
    /\ UNCHANGED <<poison, row, pntr, ids, batch, cur, sent, faults>>

Tick(p) ==
    /\ pc[p] = "idle"
    /\ pc' = [pc EXCEPT ![p] = IF sweepDue[p] THEN "sweep" ELSE "claim"]
    /\ sweepDue' = [sweepDue EXCEPT ![p] = FALSE]
    /\ UNCHANGED <<poison, row, pntr, ids, batch, cur, sent, faults>>

Wake(p) ==
    /\ pc[p] = "idle"
    /\ pc' = [pc EXCEPT ![p] = "claim"]
    /\ UNCHANGED <<poison, row, pntr, ids, batch, cur, sweepDue, sent, faults>>

-----------------------------------------------------------------------------
(* claimRealtimeEvents, for the rows of S.  Taking over a lapsed lease is  *)
(* an attempt; one too many ends the event.                                *)

Eligible == {e \in Events : status[e] \in Open /\ due[e]}

(* Mutant: off by one.                                                     *)
ReclaimOneMore(e) == status[e] = "processing" /\ count[e] + 1 > MaxAttempts

ReclaimExhausted(e) == status[e] = "processing" /\ count[e] + 1 >= MaxAttempts

Drawn(p, f) == [e \in Events |-> IF f[e] = p THEN "gone" ELSE f[e]]

ClaimRows(p, S) ==
    LET kept == {e \in S : ~ReclaimExhausted(e)} IN
    /\ status' = [e \in Events |-> IF e \in kept THEN "processing"
                                   ELSE IF e \in S THEN "failed" ELSE status[e]]
    /\ count' = [e \in Events |-> IF e \in S /\ status[e] = "processing" THEN count[e] + 1
                                  ELSE count[e]]
    /\ tok' = [e \in Events |-> IF e \in kept THEN p
                                ELSE IF e \in S THEN "none" ELSE Drawn(p, tok)[e]]
    /\ due' = [e \in Events |-> IF e \in S THEN FALSE ELSE due[e]]
    /\ batch' = [batch EXCEPT ![p] = kept]
    /\ pc' = [pc EXCEPT ![p] = "work"]
    /\ Retime(S)

(* The per_scope cycle takes what is due, up to its limit.                 *)
Sweep(p) ==
    /\ pc[p] = "sweep"
    /\ \E S \in SUBSET Eligible : (Eligible # {} => S # {}) /\ ClaimRows(p, S)
    /\ UNCHANGED <<poison, ids, cur, sweepDue, sent, faults>>

(* runGlobalDispatch claims pointers until none is due.  The bound on its  *)
(* batches, after which it starts anew at once, is left out.               *)
PointersDue == {e \in Events : ptr[e] = "due" \/ (ptr[e] = "row" /\ due[e])}

ClaimPointers(p) ==
    /\ pc[p] = "claim" /\ PointersDue # {}
    /\ \E S \in SUBSET PointersDue \ {{}} :
          /\ ptr' = [e \in Events |-> IF e \in S THEN "lease" ELSE ptr[e]]
          /\ ptok' = [e \in Events |-> IF e \in S THEN p ELSE Drawn(p, ptok)[e]]
          /\ ids' = [ids EXCEPT ![p] = S]
    /\ pc' = [pc EXCEPT ![p] = "scope"]
    /\ UNCHANGED <<poison, row, batch, cur, sweepDue, sent, faults>>

EndRun(p) ==
    /\ pc[p] = "claim" /\ PointersDue = {}
    /\ pc' = [pc EXCEPT ![p] = "idle"]
    /\ UNCHANGED <<poison, row, pntr, ids, batch, cur, sweepDue, sent, faults>>

(* publishRealtimeScope claims, of the rows its pointers name, those due.  *)
ClaimScope(p) ==
    /\ pc[p] = "scope"
    /\ ClaimRows(p, ids[p] \cap Eligible)
    /\ UNCHANGED <<poison, ids, cur, sweepDue, sent, faults>>

-----------------------------------------------------------------------------
(* The claimed rows, one after the other                                   *)

(* Half the lease has passed: it is renewed, and a row that another run    *)
(* has taken is left to it.                                                *)
Renew(p) ==
    /\ pc[p] = "work" /\ batch[p] # {}
    /\ LET kept == {e \in batch[p] : status[e] = "processing" /\ tok[e] = p} IN
          /\ due' = [e \in Events |-> IF e \in kept THEN FALSE ELSE due[e]]
          /\ batch' = [batch EXCEPT ![p] = kept]
          /\ UNCHANGED status
          /\ Retime(kept)
    /\ UNCHANGED <<poison, count, tok, pc, ids, cur, sweepDue, sent, faults>>

(* A poison event is cancelled whoever holds it.                           *)
Cancel(p, e) ==
    /\ pc[p] = "work" /\ e \in batch[p] /\ e \in poison
    /\ status' = [status EXCEPT ![e] = IF @ = "completed" THEN @ ELSE "cancelled"]
    /\ batch' = [batch EXCEPT ![p] = @ \ {e}]
    /\ Retime({e})
    /\ UNCHANGED <<poison, due, count, tok, pc, ids, cur, sweepDue, sent, faults>>

(* Mutant: the error of a publish is swallowed.                            *)
PublishAnyway(p, e, answer) ==
    /\ pc[p] = "work" /\ e \in batch[p] /\ e \notin poison
    /\ batch' = [batch EXCEPT ![p] = @ \ {e}]
    /\ cur' = [cur EXCEPT ![p] = {e}]
    /\ pc' = [pc EXCEPT ![p] = "published"]
    /\ sent' = IF answer = "published" THEN [sent EXCEPT ![e] = @ + 1] ELSE sent
    /\ UNCHANGED <<poison, row, pntr, ids, sweepDue, faults>>

(* PUBLISH, which Redis answers or refuses.                                *)
Publish(p, e, answer) ==
    /\ pc[p] = "work" /\ e \in batch[p] /\ e \notin poison
    /\ batch' = [batch EXCEPT ![p] = @ \ {e}]
    /\ cur' = [cur EXCEPT ![p] = {e}]
    /\ pc' = [pc EXCEPT ![p] = answer]
    /\ sent' = IF answer = "published" THEN [sent EXCEPT ![e] = @ + 1] ELSE sent
    /\ UNCHANGED <<poison, row, pntr, ids, sweepDue, faults>>

(* Mutant: the outcome is written without the claim token.                 *)
MineUnfenced(p) == cur[p]

(* The row of the publish, unless another run has claimed it since.        *)
Mine(p) == {e \in cur[p] : status[e] = "processing" /\ tok[e] = p}

Resume(p) ==
    pc' = [pc EXCEPT ![p] = "work"] /\ cur' = [cur EXCEPT ![p] = {}] /\ UNCHANGED <<ids, batch>>

(* completeRealtimeEvent                                                   *)
Complete(p) ==
    /\ pc[p] = "published"
    /\ status' = [e \in Events |-> IF e \in Mine(p) THEN "completed" ELSE status[e]]
    /\ Retime(Mine(p))
    /\ Resume(p)
    /\ UNCHANGED <<poison, due, count, tok, sweepDue, sent, faults>>

(* markRealtimeEventRetry                                                  *)
MarkRetry(p) ==
    /\ pc[p] = "refused"
    /\ status' = [e \in Events |-> IF e \notin Mine(p) THEN status[e]
                                   ELSE IF count[e] + 1 >= MaxAttempts THEN "failed" ELSE "retry"]
    /\ count' = [e \in Events |-> IF e \in Mine(p) THEN count[e] + 1 ELSE count[e]]
    /\ tok' = [e \in Events |-> IF e \in Mine(p) THEN "none" ELSE tok[e]]
    /\ due' = [e \in Events |-> IF e \in Mine(p) THEN FALSE ELSE due[e]]
    /\ Retime(Mine(p))
    /\ Resume(p)
    /\ UNCHANGED <<poison, sweepDue, sent, faults>>

(* The batch is done; the run claims again.                                *)
NextBatch(p) ==
    /\ pc[p] = "work" /\ batch[p] = {}
    /\ pc' = [pc EXCEPT ![p] = "claim"]
    /\ ids' = [ids EXCEPT ![p] = {}]
    /\ UNCHANGED <<poison, row, pntr, batch, cur, sweepDue, sent, faults>>

(* The run fails: the pointers it still owns are released for later and    *)
(* the error ends it; or its process dies and its leases run out.  It goes *)
(* on after a scope that is not routable yet, and after a sweep (which has *)
(* no pointers) that failed.                                               *)
RunFails(p, released, goesOn) ==
    /\ pc[p] \notin {"idle", "claim"} /\ Fault
    /\ goesOn => (released /\ pc[p] = "scope") \/ ids[p] = {}
    /\ LET mine == {e \in ids[p] : released /\ ptok[e] = p} IN
          /\ ptr' = [e \in Events |-> IF e \in mine THEN "lease" ELSE ptr[e]]
          /\ ptok' = [e \in Events |-> IF e \in mine THEN "none" ELSE ptok[e]]
    /\ pc' = [pc EXCEPT ![p] = IF goesOn THEN "claim" ELSE "idle"]
    /\ ids' = [ids EXCEPT ![p] = {}] /\ batch' = [batch EXCEPT ![p] = {}]
    /\ cur' = [cur EXCEPT ![p] = {}]
    /\ UNCHANGED <<poison, row, sweepDue, sent>>

-----------------------------------------------------------------------------
Progress(p) ==
    \/ Sweep(p) \/ ClaimPointers(p) \/ EndRun(p) \/ ClaimScope(p)
    \/ \E e \in Events : Cancel(p, e) \/ \E a \in {"published", "refused"} : Publish(p, e, a)
    \/ Complete(p) \/ MarkRetry(p) \/ NextBatch(p)

Next ==
    \/ \E e \in Events : Insert(e) \/ Lapse(e) \/ PointerLapse(e)
    \/ \E p \in Procs : \/ SweepDue(p) \/ Tick(p) \/ Wake(p) \/ Progress(p) \/ Renew(p)
                        \/ \E released, goesOn \in BOOLEAN : RunFails(p, released, goesOn)

(* Time passes, a sweep falls due again, and a run goes on.  A tick that   *)
(* comes during a run is queued by DispatchQueueRunner and starts the next *)
(* one, so wake-ups cannot keep it away.                                   *)
Fairness ==
    /\ \A e \in Events : WF_vars(~Held(e) /\ Lapse(e)) /\ WF_vars(PointerLapse(e))
    /\ \A p \in Procs : WF_vars(SweepDue(p)) /\ SF_vars(Tick(p)) /\ WF_vars(Progress(p))

Spec     == Init /\ [][Next]_vars
FairSpec == Spec /\ Fairness

-----------------------------------------------------------------------------
(* Properties                                                              *)

(* completed is written after a publish that Redis answered, and by the    *)
(* run that holds the row: never speculatively, whoever took the row over. *)
CompletedWasPublished == \A e \in Events : status[e] = "completed" => sent[e] > 0

(* However many publishers die or outlive their leases, an event is        *)
(* published at most max_attempts times: a claim that is not counted as a  *)
(* failure is counted when its lease is taken over.                        *)
PublishesBounded == \A e \in Events : sent[e] <= MaxAttempts

(* Rows and pointers agree whatever interleaving of claims, releases and   *)
(* triggers led there: a settled event has no pointer, and one that was    *)
(* touched since the triggers exist has one until it is settled.           *)
PointerFollowsRow ==
    \A e \in Events : /\ ptr[e] # "none" => status[e] \in Open
                      /\ status[e] \in {"retry", "processing"} => ptr[e] # "none"

(* An outcome sticks against late runs; only a poison event that failed    *)
(* may still be cancelled, by the unfenced cancelRealtimeEvent.            *)
OutcomesStick ==
    [][\A e \in Events : status[e] \in Terminal =>
          \/ status'[e] = status[e]
          \/ e \in poison /\ status[e] = "failed" /\ status'[e] = "cancelled"]_vars

(* Every event is settled in the end: pointers that were leased by a run   *)
(* that died, wake-ups that were lost and rows that have no pointer at all *)
(* are found by a later tick or sweep.                                     *)
EventuallySettled == \A e \in Events : (status[e] = "pending") ~> (status[e] \in Terminal)
================================================================================
