------------------------ MODULE RealtimeDispatchProofs ------------------------
(***************************************************************************)
(* The safety properties of RealtimeDispatch for any events, processes,    *)
(* attempts and faults.                                                    *)
(*                                                                         *)
(* The bound on publishes counts claims: every claim of a row lets its run *)
(* publish it once, so the publishes made plus the runs that still hold    *)
(* the row (Holders) never exceed the claims that count or are being       *)
(* worked on (Credit), and those stay within max_attempts.                 *)
(***************************************************************************)
EXTENDS RealtimeDispatch, FiniteSetTheorems, TLAPS

Holders(e) == {p \in Procs : e \in batch[p]}

Credit(e) == IF status[e] \in {"processing", "completed"} THEN count[e] + 1 ELSE count[e]

(* A row that may still be claimed, or was completed, has attempts left.   *)
AttemptsLeft == \A e \in Events : status[e] \notin {"failed", "cancelled"} => count[e] < MaxAttempts

(* Only poison is cancelled, and poison is never published.                *)
PoisonKeptIn ==
    \A e \in Events : /\ status[e] = "cancelled" => e \in poison
                      /\ e \in poison => sent[e] = 0

(* Every publish made or still to come is paid for by a claim.             *)
PublishesPaid ==
    \A e \in Events : e \notin poison => sent[e] + Cardinality(Holders(e)) <= Credit(e)

(* A run holds rows only while it works on them, and what it is about to   *)
(* complete was published.                                                 *)
RunsTidy ==
    \A p \in Procs : /\ pc[p] \in {"idle", "sweep", "claim", "scope"} => batch[p] = {}
                     /\ pc[p] = "published" => \A e \in cur[p] : sent[e] > 0

(* A claimed pointer exists.                                               *)
ClaimedExists == \A e \in Events : ptok[e] # "none" => ptr[e] # "none"

IInv == /\ TypeOK /\ CompletedWasPublished /\ PointerFollowsRow
        /\ AttemptsLeft /\ PoisonKeptIn /\ PublishesPaid /\ RunsTidy /\ ClaimedExists

-----------------------------------------------------------------------------
(* The runs that hold a row are finitely many.                             *)
LEMMA HoldersFinite ==
    ASSUME NEW e, NEW b
    PROVE  /\ IsFiniteSet({p \in Procs : e \in b[p]})
           /\ Cardinality({p \in Procs : e \in b[p]}) \in Nat
  BY RealtimeAssumption, FS_Subset, FS_CardinalityType

LEMMA InitIInv == Init => IInv
  <1> SUFFICES ASSUME Init PROVE IInv
    OBVIOUS
  <1>1. TypeOK
    <2>1. status \in [Events -> Open \cup Terminal \cup {"none"}]
      BY DEF Init, Open
    <2>2. tok \in [Events -> Token] /\ ptok \in [Events -> Token] /\ pc \in [Procs -> Steps]
      BY DEF Init, Token, Steps
    <2>3. QED
      BY <2>1, <2>2, RealtimeAssumption DEF Init, TypeOK
  <1>2. PublishesPaid
    <2>1. \A e \in Events : Holders(e) = {} /\ sent[e] = 0 /\ Credit(e) = 0
      BY DEF Init, Holders, Credit
    <2>2. QED
      BY <2>1, FS_EmptySet DEF PublishesPaid
  <1>3. QED
    BY <1>1, <1>2, RealtimeAssumption DEF Init, IInv, CompletedWasPublished, PointerFollowsRow, AttemptsLeft,
       PoisonKeptIn, RunsTidy, ClaimedExists, Open

(* The trigger keeps rows and pointers in step.                            *)
LEMMA RetimeKeeps ==
    ASSUME TypeOK, PointerFollowsRow, ClaimedExists, NEW W \in SUBSET Events, Retime(W),
           status' \in [Events -> Open \cup Terminal \cup {"none"}],
           \A e \in Events \ W : status'[e] = status[e]
    PROVE  /\ ptr' \in [Events -> {"none", "row", "lease", "due"}] /\ ptok' \in [Events -> Token]
           /\ PointerFollowsRow' /\ ClaimedExists'
  <1>1. ptr' \in [Events -> {"none", "row", "lease", "due"}] /\ ptok' \in [Events -> Token]
    BY DEF TypeOK, Retime, Token
  <1>2. \A e \in Events : IF e \in W THEN /\ ptr'[e] = IF status'[e] \in Open THEN "row" ELSE "none"
                                          /\ ptok'[e] = "none"
                                     ELSE ptr'[e] = ptr[e] /\ ptok'[e] = ptok[e]
    BY DEF Retime, TypeOK
  <1>3. ASSUME NEW e \in Events
        PROVE  /\ ptr'[e] # "none" => status'[e] \in Open
               /\ status'[e] \in {"retry", "processing"} => ptr'[e] # "none"
               /\ ptok'[e] # "none" => ptr'[e] # "none"
    <2>1. CASE e \in W
      BY <1>2, <2>1 DEF Open
    <2>2. CASE e \notin W
      BY <1>2, <2>2 DEF PointerFollowsRow, ClaimedExists
    <2>3. QED
      BY <2>1, <2>2
  <1>4. QED
    BY <1>1, <1>3 DEF PointerFollowsRow, ClaimedExists

(* A step that takes rows out of the hands of runs, and changes neither    *)
(* counts nor publishes nor the credit of a row, pays for every publish.   *)
LEMMA FewerHolders ==
    ASSUME TypeOK, PublishesPaid, UNCHANGED <<poison, sent>>,
           \A p \in Procs : batch'[p] \subseteq batch[p],
           \A e \in Events : e \notin poison => Credit(e)' = Credit(e)
    PROVE  PublishesPaid'
  <1> SUFFICES ASSUME NEW e \in Events, e \notin poison
               PROVE  sent[e] + Cardinality(Holders(e)') <= Credit(e)'
    BY DEF PublishesPaid
  <1>1. Holders(e)' \subseteq Holders(e)
    BY DEF Holders
  <1>2. /\ IsFiniteSet(Holders(e)) /\ Cardinality(Holders(e)) \in Nat
        /\ Cardinality(Holders(e)') \in Nat
    BY HoldersFinite DEF Holders
  <1>3. Cardinality(Holders(e)') <= Cardinality(Holders(e))
    BY <1>1, <1>2, FS_Subset
  <1>4. sent[e] + Cardinality(Holders(e)) <= Credit(e) /\ sent[e] \in Nat /\ Credit(e) \in Nat
    BY DEF PublishesPaid, TypeOK, Credit
  <1>5. QED
    BY <1>2, <1>3, <1>4

(* A claim of rows, by the sweep or through pointers.                      *)
LEMMA ClaimRowsKeeps ==
    ASSUME IInv, NEW p \in Procs, NEW S \in SUBSET Eligible, pc[p] \in {"sweep", "scope"}, ClaimRows(p, S),
           UNCHANGED <<poison, ids, cur, sweepDue, sent, faults>>
    PROVE  IInv'
  <1> DEFINE kept == {e \in S : ~ReclaimExhausted(e)}
  <1> USE RealtimeAssumption DEF IInv
  <1>1. S \subseteq Events /\ kept \subseteq S /\ \A e \in S : status[e] \in Open
    BY DEF Eligible
  <1>2. /\ status' = [e \in Events |-> IF e \in kept THEN "processing"
                                       ELSE IF e \in S THEN "failed" ELSE status[e]]
        /\ count' = [e \in Events |-> IF e \in S /\ status[e] = "processing" THEN count[e] + 1
                                      ELSE count[e]]
        /\ tok' = [e \in Events |-> IF e \in kept THEN p
                                    ELSE IF e \in S THEN "none" ELSE Drawn(p, tok)[e]]
        /\ due' = [e \in Events |-> IF e \in S THEN FALSE ELSE due[e]]
        /\ batch' = [batch EXCEPT ![p] = kept]
        /\ pc' = [pc EXCEPT ![p] = "work"]
        /\ Retime(S)
    BY DEF ClaimRows
  <1>3. batch[p] = {} /\ batch'[p] = kept /\ \A q \in Procs : q # p => batch'[q] = batch[q]
    BY <1>2 DEF RunsTidy, TypeOK
  <1>4. \A e \in S : /\ status[e] # "processing" => e \in kept
                     /\ e \notin kept => status[e] = "processing"
                     /\ e \in kept /\ status[e] = "processing" => count[e] + 1 < MaxAttempts
    BY <1>1 DEF ReclaimExhausted, TypeOK
  <1> HIDE DEF kept
  <1>5. /\ status' \in [Events -> Open \cup Terminal \cup {"none"}]
        /\ \A e \in Events \ S : status'[e] = status[e]
    BY <1>1, <1>2 DEF TypeOK, Open, Terminal
  <1>6. /\ ptr' \in [Events -> {"none", "row", "lease", "due"}] /\ ptok' \in [Events -> Token]
        /\ PointerFollowsRow' /\ ClaimedExists'
    BY <1>1, <1>2, <1>5, RetimeKeeps
  <1>7. count' \in [Events -> 0..MaxAttempts]
    <2>1. ASSUME NEW e \in Events PROVE count'[e] \in 0..MaxAttempts
      BY <1>2 DEF TypeOK, AttemptsLeft
    <2>2. QED
      BY <1>2, <2>1
  <1>8. TypeOK'
    <2>1. due' \in [Events -> BOOLEAN]
      BY <1>2 DEF TypeOK
    <2>2. tok' \in [Events -> Token]
      BY <1>2 DEF TypeOK, Token, Drawn
    <2>3. pc' \in [Procs -> Steps] /\ batch' \in [Procs -> SUBSET Events]
      BY <1>1, <1>2 DEF TypeOK, Steps
    <2>4. QED
      BY <1>5, <1>6, <1>7, <2>1, <2>2, <2>3 DEF TypeOK
  <1>9. \A e \in Events : /\ status'[e] = IF e \in kept THEN "processing"
                                          ELSE IF e \in S THEN "failed" ELSE status[e]
                          /\ count'[e] = IF e \in S /\ status[e] = "processing" THEN count[e] + 1
                                         ELSE count[e]
    BY <1>2
  <1>10. CompletedWasPublished' /\ PoisonKeptIn'
    BY <1>9 DEF CompletedWasPublished, PoisonKeptIn
  <1>11. AttemptsLeft'
    BY <1>1, <1>4, <1>9 DEF AttemptsLeft, TypeOK, Open
  <1>12. RunsTidy'
    <2>1. pc'[p] = "work" /\ \A q \in Procs : q # p => pc'[q] = pc[q]
      BY <1>2 DEF TypeOK
    <2>2. QED
      BY <1>3, <2>1 DEF RunsTidy
  <1>13. PublishesPaid'
    <2> SUFFICES ASSUME NEW e \in Events, e \notin poison
                 PROVE  sent[e] + Cardinality(Holders(e)') <= Credit(e)'
      BY DEF PublishesPaid
    <2>0. IsFiniteSet(Holders(e)) /\ Cardinality(Holders(e)) \in Nat
      BY HoldersFinite DEF Holders
    <2>1. sent[e] + Cardinality(Holders(e)) <= Credit(e) /\ sent[e] \in Nat /\ count[e] \in Nat
      BY DEF PublishesPaid, TypeOK
    <2>2. CASE e \in kept
      <3>1. Holders(e)' = Holders(e) \cup {p} /\ p \notin Holders(e)
        BY <1>3, <2>2 DEF Holders
      <3>2. Cardinality(Holders(e)') = Cardinality(Holders(e)) + 1
        BY <2>0, <3>1, FS_AddElement
      <3>3. Credit(e)' = Credit(e) + 1
        BY <1>1, <1>9, <2>1, <2>2 DEF Credit, Open
      <3>4. Credit(e) \in Nat
        BY <2>1 DEF Credit
      <3>5. QED
        BY <2>0, <2>1, <3>2, <3>3, <3>4
    <2>3. CASE e \notin kept
      <3>1. Holders(e)' = Holders(e)
        BY <1>3, <2>3 DEF Holders
      <3>2. Credit(e)' = Credit(e)
        BY <1>4, <1>9, <2>1, <2>3 DEF Credit
      <3>3. QED
        BY <2>0, <2>1, <3>1, <3>2
    <2>4. QED
      BY <2>2, <2>3
  <1>14. QED
    BY <1>6, <1>8, <1>10, <1>11, <1>12, <1>13

(* Inserts, time and the coordinator.                                      *)
LEMMA OutsideKeeps ==
    ASSUME IInv,
           \/ \E e \in Events : Insert(e) \/ Lapse(e) \/ PointerLapse(e)
           \/ \E p \in Procs : SweepDue(p) \/ Tick(p) \/ Wake(p) \/ EndRun(p)
    PROVE  IInv'
  <1> USE RealtimeAssumption DEF IInv, row, pntr, run
  <1>1. ASSUME NEW e \in Events, Insert(e) PROVE IInv'
    <2>1. /\ status' \in [Events -> Open \cup Terminal \cup {"none"}]
          /\ status'[e] = "pending" /\ status[e] = "none"
          /\ \A d \in Events \ {e} : status'[d] = status[d]
          /\ Retime({e}) /\ UNCHANGED <<poison, due, count, tok, run, sweepDue, sent, faults>>
      BY <1>1 DEF Insert, TypeOK, Open
    <2>2. /\ ptr' \in [Events -> {"none", "row", "lease", "due"}] /\ ptok' \in [Events -> Token]
          /\ PointerFollowsRow' /\ ClaimedExists'
      BY <2>1, RetimeKeeps
    <2>3. TypeOK'
      BY <2>1, <2>2 DEF TypeOK
    <2>4. CompletedWasPublished' /\ AttemptsLeft' /\ PoisonKeptIn' /\ RunsTidy'
      BY <2>1 DEF CompletedWasPublished, AttemptsLeft, PoisonKeptIn, RunsTidy
    <2>5. \A d \in Events : Credit(d)' = Credit(d)
      BY <2>1 DEF Credit
    <2>6. PublishesPaid'
      BY <2>1, <2>5, FewerHolders
    <2>7. QED
      BY <2>2, <2>3, <2>4, <2>6
  <1>2. ASSUME \/ \E e \in Events : Lapse(e) \/ PointerLapse(e)
               \/ \E p \in Procs : SweepDue(p) \/ Tick(p) \/ Wake(p) \/ EndRun(p)
        PROVE  IInv'
    <2>1. UNCHANGED <<poison, status, count, tok, ptok, ids, batch, cur, sent>>
      BY <1>2 DEF Lapse, PointerLapse, SweepDue, Tick, Wake, EndRun
    <2>2. /\ ptr' \in [Events -> {"none", "row", "lease", "due"}]
          /\ \A e \in Events : ptr'[e] # "none" <=> ptr[e] # "none"
      BY <1>2 DEF Lapse, PointerLapse, SweepDue, Tick, Wake, EndRun, TypeOK
    <2>3. pc' \in [Procs -> Steps] /\ sweepDue' \in [Procs -> BOOLEAN] /\ due' \in [Events -> BOOLEAN]
          /\ faults' \in 0..MaxFaults
      <3>1. pc' \in [Procs -> Steps]
        BY <1>2 DEF Lapse, PointerLapse, SweepDue, Tick, Wake, EndRun, TypeOK, Steps
      <3>2. sweepDue' \in [Procs -> BOOLEAN] /\ due' \in [Events -> BOOLEAN]
        BY <1>2 DEF Lapse, PointerLapse, SweepDue, Tick, Wake, EndRun, TypeOK
      <3>3. faults' \in 0..MaxFaults
        BY <1>2 DEF Lapse, PointerLapse, SweepDue, Tick, Wake, EndRun, TypeOK, Fault
      <3>4. QED
        BY <3>1, <3>2, <3>3
    <2>4. \A p \in Procs : pc'[p] = pc[p] \/ (pc[p] \in {"idle", "claim"}
                                                /\ pc'[p] \in {"idle", "sweep", "claim"})
      BY <1>2 DEF Lapse, PointerLapse, SweepDue, Tick, Wake, EndRun, TypeOK
    <2>5. TypeOK'
      BY <2>1, <2>2, <2>3 DEF TypeOK
    <2>6. RunsTidy'
      BY <2>1, <2>4 DEF RunsTidy
    <2>7. PointerFollowsRow' /\ ClaimedExists'
      BY <2>1, <2>2 DEF PointerFollowsRow, ClaimedExists
    <2>8. PublishesPaid' /\ CompletedWasPublished' /\ AttemptsLeft' /\ PoisonKeptIn'
      BY <2>1 DEF PublishesPaid, Holders, Credit, CompletedWasPublished, AttemptsLeft, PoisonKeptIn
    <2>9. QED
      BY <2>5, <2>6, <2>7, <2>8
  <1>3. QED
    BY <1>1, <1>2

(* A claim of pointers, and the end of a batch or of a run.                *)
LEMMA RunKeeps ==
    ASSUME IInv, NEW p \in Procs,
           \/ ClaimPointers(p) \/ NextBatch(p)
           \/ \E released, goesOn \in BOOLEAN : RunFails(p, released, goesOn)
    PROVE  IInv'
  <1> USE RealtimeAssumption DEF IInv, row, pntr
  <1>1. /\ UNCHANGED <<poison, status, due, count, tok, sweepDue, sent>>
        /\ faults' \in 0..MaxFaults
    <2>1. UNCHANGED <<poison, status, due, count, tok, sweepDue, sent>>
      BY DEF ClaimPointers, NextBatch, RunFails
    <2>2. faults' \in 0..MaxFaults
      BY DEF ClaimPointers, NextBatch, RunFails, Fault, TypeOK
    <2>3. QED
      BY <2>1, <2>2
  <1>2. /\ pc' \in [Procs -> Steps] /\ ids' \in [Procs -> SUBSET Events]
        /\ pc'[p] \in {"scope", "claim", "idle"} /\ \A q \in Procs : q # p => pc'[q] = pc[q]
    <2>1. PointersDue \subseteq Events
      BY DEF PointersDue
    <2>2. CASE ClaimPointers(p)
      BY <2>1, <2>2 DEF ClaimPointers, TypeOK, Steps
    <2>3. CASE NextBatch(p)
      BY <2>3 DEF NextBatch, TypeOK, Steps
    <2>4. ASSUME NEW r \in BOOLEAN, NEW g \in BOOLEAN, RunFails(p, r, g)
          PROVE  /\ pc' \in [Procs -> Steps] /\ ids' \in [Procs -> SUBSET Events]
                 /\ pc'[p] \in {"scope", "claim", "idle"} /\ \A q \in Procs : q # p => pc'[q] = pc[q]
      BY <2>4 DEF RunFails, TypeOK, Steps
    <2>5. QED
      BY <2>2, <2>3, <2>4
  <1>3. /\ batch' \in [Procs -> SUBSET Events] /\ cur' \in [Procs -> SUBSET Events]
        /\ batch'[p] = {} /\ \A q \in Procs : q # p => batch'[q] = batch[q] /\ cur'[q] = cur[q]
    BY DEF ClaimPointers, NextBatch, RunFails, TypeOK, RunsTidy
  <1>4. /\ ptr' \in [Events -> {"none", "row", "lease", "due"}] /\ ptok' \in [Events -> Token]
        /\ \A e \in Events : /\ ptr'[e] # "none" <=> ptr[e] # "none"
                             /\ ptok'[e] # "none" => ptr[e] # "none"
    <2>1. CASE ClaimPointers(p)
      <3>1. PICK S \in SUBSET PointersDue :
               /\ ptr' = [e \in Events |-> IF e \in S THEN "lease" ELSE ptr[e]]
               /\ ptok' = [e \in Events |-> IF e \in S THEN p ELSE Drawn(p, ptok)[e]]
        BY <2>1 DEF ClaimPointers
      <3>2. \A e \in S : ptr[e] # "none"
        BY DEF PointersDue
      <3>3. \A e \in Events : Drawn(p, ptok)[e] \in Token /\ (Drawn(p, ptok)[e] # "none" => ptok[e] # "none")
        BY DEF Drawn, TypeOK, Token
      <3>4. ptr' \in [Events -> {"none", "row", "lease", "due"}] /\ ptok' \in [Events -> Token]
        BY <3>1, <3>3 DEF TypeOK, Token
      <3>5. QED
        BY <3>1, <3>2, <3>3, <3>4 DEF ClaimedExists
    <2>2. CASE NextBatch(p)
      BY <2>2 DEF NextBatch, TypeOK, ClaimedExists
    <2>3. ASSUME NEW r \in BOOLEAN, NEW g \in BOOLEAN, RunFails(p, r, g)
          PROVE  /\ ptr' \in [Events -> {"none", "row", "lease", "due"}] /\ ptok' \in [Events -> Token]
                 /\ \A e \in Events : /\ ptr'[e] # "none" <=> ptr[e] # "none"
                                      /\ ptok'[e] # "none" => ptr[e] # "none"
      <3> DEFINE mine == {e \in ids[p] : r /\ ptok[e] = p}
      <3>1. /\ ptr' = [e \in Events |-> IF e \in mine THEN "lease" ELSE ptr[e]]
            /\ ptok' = [e \in Events |-> IF e \in mine THEN "none" ELSE ptok[e]]
        BY <2>3 DEF RunFails
      <3>2. \A e \in Events : e \in mine => ptr[e] # "none"
        BY DEF ClaimedExists
      <3> HIDE DEF mine
      <3>3. ptr' \in [Events -> {"none", "row", "lease", "due"}] /\ ptok' \in [Events -> Token]
        BY <3>1 DEF TypeOK, Token
      <3>4. QED
        BY <3>1, <3>2, <3>3 DEF ClaimedExists
    <2>4. QED
      BY <2>1, <2>2, <2>3
  <1>5. TypeOK'
    BY <1>1, <1>2, <1>3, <1>4 DEF TypeOK
  <1>6. PointerFollowsRow' /\ ClaimedExists'
    BY <1>1, <1>4 DEF PointerFollowsRow, ClaimedExists
  <1>7. RunsTidy'
    BY <1>1, <1>2, <1>3 DEF RunsTidy
  <1>8. PublishesPaid'
    <2>1. \A q \in Procs : batch'[q] \subseteq batch[q]
      BY <1>3
    <2>2. QED
      BY <1>1, <2>1, FewerHolders DEF Credit
  <1>9. QED
    BY <1>1, <1>5, <1>6, <1>7, <1>8 DEF CompletedWasPublished, AttemptsLeft, PoisonKeptIn

(* PUBLISH: the run hands in its right to publish the row.                 *)
LEMMA PublishKeeps ==
    ASSUME IInv, NEW p \in Procs, NEW e \in Events, NEW a \in {"published", "refused"}, Publish(p, e, a)
    PROVE  IInv'
  <1> USE RealtimeAssumption DEF IInv, row, pntr
  <1>1. /\ UNCHANGED <<poison, status, due, count, tok, ptr, ptok, ids, sweepDue, faults>>
        /\ e \in batch[p] /\ e \notin poison
        /\ batch' = [batch EXCEPT ![p] = @ \ {e}] /\ cur' = [cur EXCEPT ![p] = {e}]
        /\ pc' = [pc EXCEPT ![p] = a]
        /\ sent' = IF a = "published" THEN [sent EXCEPT ![e] = @ + 1] ELSE sent
    BY DEF Publish
  <1>2. /\ sent' \in [Events -> Nat] /\ \A d \in Events : d # e => sent'[d] = sent[d]
        /\ sent'[e] \in {sent[e], sent[e] + 1} /\ (a = "published" => sent'[e] > 0)
        /\ \A d \in Events : sent[d] > 0 => sent'[d] > 0
    BY <1>1 DEF TypeOK
  <1>3. /\ pc'[p] = a /\ batch'[p] = batch[p] \ {e} /\ cur'[p] = {e}
        /\ \A q \in Procs : q # p => pc'[q] = pc[q] /\ batch'[q] = batch[q] /\ cur'[q] = cur[q]
    BY <1>1 DEF TypeOK
  <1>4. TypeOK'
    <2>1. pc' \in [Procs -> Steps] /\ batch' \in [Procs -> SUBSET Events] /\ cur' \in [Procs -> SUBSET Events]
      BY <1>1 DEF TypeOK, Steps
    <2>2. QED
      BY <1>1, <1>2, <2>1 DEF TypeOK
  <1>5. RunsTidy'
    BY <1>2, <1>3, <1>4 DEF RunsTidy, TypeOK
  <1>6. PublishesPaid'
    <2> SUFFICES ASSUME NEW d \in Events, d \notin poison
                 PROVE  sent'[d] + Cardinality(Holders(d)') <= Credit(d)'
      BY <1>1 DEF PublishesPaid
    <2>1. IsFiniteSet(Holders(d)) /\ Cardinality(Holders(d)) \in Nat
      BY HoldersFinite DEF Holders
    <2>2. /\ sent[d] + Cardinality(Holders(d)) <= Credit(d) /\ sent[d] \in Nat /\ Credit(d) \in Nat
          /\ Credit(d)' = Credit(d)
      BY <1>1 DEF PublishesPaid, TypeOK, Credit
    <2>3. CASE d = e
      <3>1. p \in Holders(d) /\ Holders(d)' = Holders(d) \ {p}
        BY <1>1, <1>3, <2>3 DEF Holders
      <3>2. Cardinality(Holders(d)') = Cardinality(Holders(d)) - 1
        BY <2>1, <3>1, FS_RemoveElement
      <3>3. QED
        BY <1>2, <2>1, <2>2, <2>3, <3>2
    <2>4. CASE d # e
      <3>1. Holders(d)' = Holders(d)
        BY <1>3, <2>4 DEF Holders
      <3>2. QED
        BY <1>2, <2>2, <2>4, <3>1
    <2>5. QED
      BY <2>3, <2>4
  <1>7. QED
    BY <1>1, <1>2, <1>4, <1>5, <1>6 DEF CompletedWasPublished, PointerFollowsRow, AttemptsLeft, PoisonKeptIn,
       ClaimedExists

(* The renewal of leases, and the cancellation of poison.                  *)
LEMMA HoldKeeps ==
    ASSUME IInv, NEW p \in Procs, Renew(p) \/ \E e \in Events : Cancel(p, e)
    PROVE  IInv'
  <1> USE RealtimeAssumption DEF IInv
  <1>1. ASSUME Renew(p) PROVE IInv'
    <2> DEFINE kept == {e \in batch[p] : status[e] = "processing" /\ tok[e] = p}
    <2>1. /\ due' = [e \in Events |-> IF e \in kept THEN FALSE ELSE due[e]]
          /\ batch' = [batch EXCEPT ![p] = kept] /\ status' = status /\ Retime(kept)
          /\ UNCHANGED <<poison, count, tok, pc, ids, cur, sweepDue, sent, faults>>
          /\ pc[p] = "work"
      BY <1>1 DEF Renew
    <2>2. kept \subseteq batch[p] /\ kept \in SUBSET Events
      BY DEF TypeOK
    <2> HIDE DEF kept
    <2>3. /\ batch' \in [Procs -> SUBSET Events] /\ due' \in [Events -> BOOLEAN]
          /\ \A q \in Procs : batch'[q] \subseteq batch[q]
      BY <2>1, <2>2 DEF TypeOK
    <2>4. /\ ptr' \in [Events -> {"none", "row", "lease", "due"}] /\ ptok' \in [Events -> Token]
          /\ PointerFollowsRow' /\ ClaimedExists'
      <3>1. status' \in [Events -> Open \cup Terminal \cup {"none"}]
        BY <2>1 DEF TypeOK
      <3>2. QED
        BY <2>1, <2>2, <3>1, RetimeKeeps
    <2>5. TypeOK'
      BY <2>1, <2>3, <2>4 DEF TypeOK
    <2>6. PublishesPaid'
      BY <2>1, <2>3, FewerHolders DEF Credit
    <2>7. RunsTidy'
      BY <2>1, <2>3 DEF RunsTidy
    <2>8. QED
      BY <2>1, <2>4, <2>5, <2>6, <2>7 DEF CompletedWasPublished, AttemptsLeft, PoisonKeptIn
  <1>2. ASSUME NEW e \in Events, Cancel(p, e) PROVE IInv'
    <2>1. /\ status' = [status EXCEPT ![e] = IF @ = "completed" THEN @ ELSE "cancelled"]
          /\ batch' = [batch EXCEPT ![p] = @ \ {e}] /\ Retime({e}) /\ e \in poison
          /\ UNCHANGED <<poison, due, count, tok, pc, ids, cur, sweepDue, sent, faults>>
          /\ pc[p] = "work"
      BY <1>2 DEF Cancel
    <2>2. /\ status' \in [Events -> Open \cup Terminal \cup {"none"}]
          /\ status'[e] = IF status[e] = "completed" THEN "completed" ELSE "cancelled"
          /\ \A d \in Events \ {e} : status'[d] = status[d]
      BY <2>1 DEF TypeOK, Terminal
    <2>3. /\ batch' \in [Procs -> SUBSET Events] /\ \A q \in Procs : batch'[q] \subseteq batch[q]
      BY <2>1 DEF TypeOK
    <2>4. /\ ptr' \in [Events -> {"none", "row", "lease", "due"}] /\ ptok' \in [Events -> Token]
          /\ PointerFollowsRow' /\ ClaimedExists'
      BY <2>1, <2>2, RetimeKeeps
    <2>5. TypeOK'
      BY <2>1, <2>2, <2>3, <2>4 DEF TypeOK
    <2>6. PublishesPaid'
      <3>1. \A d \in Events : d \notin poison => Credit(d)' = Credit(d)
        BY <2>1, <2>2 DEF Credit
      <3>2. QED
        BY <2>1, <2>3, <3>1, FewerHolders
    <2>7. RunsTidy'
      BY <2>1, <2>3 DEF RunsTidy
    <2>8. CompletedWasPublished' /\ AttemptsLeft' /\ PoisonKeptIn'
      BY <2>1, <2>2 DEF CompletedWasPublished, AttemptsLeft, PoisonKeptIn
    <2>9. QED
      BY <2>4, <2>5, <2>6, <2>7, <2>8
  <1>3. QED
    BY <1>1, <1>2

(* The outcome of a publish.                                               *)
LEMMA OutcomeKeeps ==
    ASSUME IInv, NEW p \in Procs, Complete(p) \/ MarkRetry(p)
    PROVE  IInv'
  <1> USE RealtimeAssumption DEF IInv
  <1>1. /\ UNCHANGED <<poison, sweepDue, sent, faults, ids, batch>>
        /\ pc' = [pc EXCEPT ![p] = "work"] /\ cur' = [cur EXCEPT ![p] = {}] /\ Retime(Mine(p))
        /\ pc[p] \in {"published", "refused"}
    BY DEF Complete, MarkRetry, Resume
  <1>2. Mine(p) \in SUBSET Events /\ \A e \in Mine(p) : status[e] = "processing" /\ e \in cur[p]
    BY DEF Mine, TypeOK
  <1>3. /\ pc' \in [Procs -> Steps] /\ cur' \in [Procs -> SUBSET Events]
        /\ pc'[p] = "work" /\ \A q \in Procs : q # p => pc'[q] = pc[q] /\ cur'[q] = cur[q]
    BY <1>1 DEF TypeOK, Steps
  <1>4. RunsTidy'
    BY <1>1, <1>3 DEF RunsTidy
  <1>5. /\ status' \in [Events -> Open \cup Terminal \cup {"none"}]
        /\ count' \in [Events -> 0..MaxAttempts] /\ tok' \in [Events -> Token] /\ due' \in [Events -> BOOLEAN]
        /\ \A e \in Events \ Mine(p) : status'[e] = status[e] /\ count'[e] = count[e]
        /\ \A e \in Mine(p) :
             \/ status'[e] = "completed" /\ count'[e] = count[e] /\ sent[e] > 0
             \/ status'[e] = "retry" /\ count'[e] = count[e] + 1 /\ count[e] + 1 < MaxAttempts
             \/ status'[e] = "failed" /\ count'[e] = count[e] + 1
    <2>1. CASE Complete(p)
      <3>1. /\ status' = [e \in Events |-> IF e \in Mine(p) THEN "completed" ELSE status[e]]
            /\ UNCHANGED <<due, count, tok>> /\ pc[p] = "published"
        BY <2>1 DEF Complete
      <3>2. status' \in [Events -> Open \cup Terminal \cup {"none"}]
        BY <3>1 DEF TypeOK, Terminal
      <3>3. \A e \in Mine(p) : status'[e] = "completed" /\ count'[e] = count[e] /\ sent[e] > 0
        BY <1>2, <3>1 DEF RunsTidy
      <3>4. QED
        BY <3>1, <3>2, <3>3 DEF TypeOK
    <2>2. CASE MarkRetry(p)
      <3>1. /\ status' = [e \in Events |-> IF e \notin Mine(p) THEN status[e]
                                   ELSE IF count[e] + 1 >= MaxAttempts THEN "failed" ELSE "retry"]
            /\ count' = [e \in Events |-> IF e \in Mine(p) THEN count[e] + 1 ELSE count[e]]
            /\ tok' = [e \in Events |-> IF e \in Mine(p) THEN "none" ELSE tok[e]]
            /\ due' = [e \in Events |-> IF e \in Mine(p) THEN FALSE ELSE due[e]]
        BY <2>2 DEF MarkRetry
      <3>2. status' \in [Events -> Open \cup Terminal \cup {"none"}] /\ tok' \in [Events -> Token]
        BY <3>1 DEF TypeOK, Open, Terminal, Token
      <3>3. due' \in [Events -> BOOLEAN]
        BY <3>1 DEF TypeOK
      <3>4. \A e \in Events : count[e] \in 0..MaxAttempts /\ (e \in Mine(p) => count[e] < MaxAttempts)
        BY <1>2 DEF TypeOK, AttemptsLeft
      <3>5. count' \in [Events -> 0..MaxAttempts]
        BY <3>1, <3>4
      <3>6. \A e \in Events \ Mine(p) : status'[e] = status[e] /\ count'[e] = count[e]
        BY <3>1
      <3>7. ASSUME NEW e \in Mine(p)
            PROVE  \/ status'[e] = "retry" /\ count'[e] = count[e] + 1 /\ count[e] + 1 < MaxAttempts
                   \/ status'[e] = "failed" /\ count'[e] = count[e] + 1
        BY <1>2, <3>1, <3>4
      <3>8. QED
        BY <3>2, <3>3, <3>5, <3>6, <3>7
    <2>3. QED
      BY <2>1, <2>2
  <1>6. /\ ptr' \in [Events -> {"none", "row", "lease", "due"}] /\ ptok' \in [Events -> Token]
        /\ PointerFollowsRow' /\ ClaimedExists'
    BY <1>1, <1>2, <1>5, RetimeKeeps
  <1>7. TypeOK'
    BY <1>1, <1>3, <1>5, <1>6 DEF TypeOK
  <1>8. PublishesPaid'
    <2>1. ASSUME NEW e \in Events PROVE Credit(e)' = Credit(e)
      BY <1>2, <1>5 DEF Credit
    <2>2. QED
      BY <1>1, <2>1, FewerHolders
  <1>9. CompletedWasPublished' /\ AttemptsLeft' /\ PoisonKeptIn'
    BY <1>1, <1>2, <1>5 DEF CompletedWasPublished, AttemptsLeft, PoisonKeptIn, TypeOK
  <1>10. QED
    BY <1>4, <1>6, <1>7, <1>8, <1>9

-----------------------------------------------------------------------------
LEMMA NextKeeps == ASSUME IInv, [Next]_vars PROVE IInv'
  <1>1. CASE UNCHANGED vars
    BY <1>1 DEF vars, row, pntr, run, IInv, TypeOK, CompletedWasPublished, PointerFollowsRow, AttemptsLeft,
       PoisonKeptIn, PublishesPaid, Holders, Credit, RunsTidy, ClaimedExists
  <1>2. ASSUME NEW p \in Procs, Sweep(p) \/ ClaimScope(p) PROVE IInv'
    <2>1. PICK S \in SUBSET Eligible : ClaimRows(p, S)
      BY <1>2 DEF Sweep, ClaimScope
    <2>2. QED
      BY <1>2, <2>1, ClaimRowsKeeps DEF Sweep, ClaimScope
  <1>3. QED
    BY <1>1, <1>2, OutsideKeeps, RunKeeps, PublishKeeps, HoldKeeps, OutcomeKeeps DEF Next, Progress

(* The inductive invariant holds in every reachable state.                 *)
THEOREM RealtimeInductive == Spec => []IInv
  BY InitIInv, NextKeeps, PTL DEF Spec

(* Every transaction of the dispatch keeps the types of rows and pointers. *)
THEOREM RealtimeTypes == Spec => []TypeOK
  BY RealtimeInductive, PTL DEF IInv

(* completed is never written speculatively.                               *)
THEOREM CompletedIsPublished == Spec => []CompletedWasPublished
  BY RealtimeInductive, PTL DEF IInv

(* An event is published at most max_attempts times, however many runs     *)
(* hold it at once, die or outlive their leases.                           *)
THEOREM PublishesAreBounded == Spec => []PublishesBounded
  <1>1. IInv => PublishesBounded
    <2> SUFFICES ASSUME IInv, NEW e \in Events PROVE sent[e] <= MaxAttempts
      BY DEF PublishesBounded
    <2>1. sent[e] \in Nat /\ count[e] \in 0..MaxAttempts /\ MaxAttempts \in Nat
      BY RealtimeAssumption DEF IInv, TypeOK
    <2>2. CASE e \in poison
      BY <2>1, <2>2 DEF IInv, PoisonKeptIn
    <2>3. CASE e \notin poison
      <3>1. Cardinality(Holders(e)) \in Nat
        BY HoldersFinite DEF Holders
      <3>2. sent[e] + Cardinality(Holders(e)) <= Credit(e) /\ Credit(e) \in Nat /\ Credit(e) <= MaxAttempts
        BY <2>1, <2>3 DEF IInv, PublishesPaid, Credit, AttemptsLeft
      <3>3. QED
        BY <2>1, <3>1, <3>2
    <2>4. QED
      BY <2>2, <2>3
  <1>2. QED
    BY RealtimeInductive, <1>1, PTL

(* Pointers are there for the rows that need them, and only for those.     *)
THEOREM PointersFollowRows == Spec => []PointerFollowsRow
  BY RealtimeInductive, PTL DEF IInv

(* No late run changes a settled event, except to cancel failed poison.    *)
THEOREM RealtimeOutcomesStick == Spec => OutcomesStick
  <1>1. ASSUME TypeOK, [Next]_vars, NEW e \in Events, status[e] \in Terminal
        PROVE  \/ status'[e] = status[e]
               \/ e \in poison /\ status[e] = "failed" /\ status'[e] = "cancelled"
    <2>1. ASSUME NEW p \in Procs, NEW S \in SUBSET Eligible, ClaimRows(p, S) PROVE status'[e] = status[e]
      BY <1>1, <2>1 DEF ClaimRows, Eligible, Open, Terminal, TypeOK
    <2>2. ASSUME NEW p \in Procs, Sweep(p) \/ ClaimScope(p) PROVE status'[e] = status[e]
      BY <2>1, <2>2 DEF Sweep, ClaimScope
    <2>3. ASSUME NEW p \in Procs, Complete(p) \/ MarkRetry(p) PROVE status'[e] = status[e]
      BY <1>1, <2>3 DEF Complete, MarkRetry, Mine, Terminal, TypeOK
    <2>4. ASSUME NEW p \in Procs, NEW d \in Events, Cancel(p, d)
          PROVE  \/ status'[e] = status[e]
                 \/ e \in poison /\ status[e] = "failed" /\ status'[e] = "cancelled"
      BY <1>1, <2>4 DEF Cancel, Terminal, TypeOK
    <2>5. ASSUME NEW d \in Events, Insert(d) PROVE status'[e] = status[e]
      BY <1>1, <2>5 DEF Insert, Terminal, TypeOK
    <2>6. QED
      BY <1>1, <2>2, <2>3, <2>4, <2>5 DEF Next, Progress, vars, row, Lapse, PointerLapse, SweepDue, Tick,
         Wake, ClaimPointers, EndRun, Renew, Publish, NextBatch, RunFails
  <1>2. ASSUME TypeOK, [Next]_vars
        PROVE  \A e \in Events : status[e] \in Terminal =>
                  \/ status'[e] = status[e]
                  \/ e \in poison /\ status[e] = "failed" /\ status'[e] = "cancelled"
    BY <1>1, <1>2
  <1>3. QED
    BY RealtimeTypes, <1>2, PTL DEF Spec, OutcomesStick
=============================================================================
