----------------------------- MODULE SessionsProofs -----------------------------
(***************************************************************************)
(* The safety properties of Sessions for any logins, requests, tokens,     *)
(* changes and aborts.                                                     *)
(*                                                                         *)
(* The argument rests on row locks: a rotation holds the one live token of *)
(* its family (Rotations), so a family has at most one rotation at a time; *)
(* and a revocation that is past its UPDATE of user_session has ended the  *)
(* session of every token it holds (Revocations).                          *)
(***************************************************************************)
EXTENDS Sessions, FiniteSetTheorems, TLAPS

(* A refresh_token row belongs to a login that has a session.              *)
RowsLinked ==
    \A t \in Tokens : /\ tok[t] = "none" <=> fam[t] = "none"
                      /\ fam[t] # "none" => sess[fam[t]] # "none"

(* No row is locked twice, and some requests lock none.                    *)
Locks ==
    /\ \A p, q \in Procs : p # q => held[p] \cap held[q] = {}
    /\ \A p \in Procs : pc[p] \in {"idle", "reuse", "verified", "guard", "handle"} => held[p] = {}

(* A rotation holds the token it was shown, which is live.                 *)
Rotations ==
    \A p \in Procs : pc[p] \in {"check", "write"} =>
      \E t \in Tokens : held[p] = {t} /\ tok[t] = "live" /\ goal[p] = {fam[t]}

(* Sign-ins that have verified a password are about logins of their own.   *)
SignIns ==
    /\ \A p \in Procs : pc[p] = "verified" =>
         kind[p] = "login" /\ \E f \in Families : goal[p] = {f} /\ sess[f] = "none"
    /\ \A p, q \in Procs : p # q /\ pc[p] = "verified" /\ pc[q] = "verified" => goal[p] \cap goal[q] = {}

(* A revocation locks tokens of its families only, and from its UPDATE of  *)
(* user_session on the sessions of these tokens are ending or have ended.  *)
Revocations ==
    \A p \in Procs :
      /\ \A f \in ends[p] : sess[f] # "none"
      /\ pc[p] \in {"tokens", "devices", "commit"} => \A t \in held[p] \cup want[p] : fam[t] \in goal[p]
      /\ pc[p] \in {"devices", "commit"} =>
           \A t \in held[p] : fam[t] \in ends[p] \/ sess[fam[t]] = "revoked"

(* The rotation that slipped through was the last one under way.           *)
Late ==
    \A f \in Families :
      /\ late[f] \in {0, 1}
      /\ sess[f] # "revoked" => late[f] = 0
      /\ late[f] = 1 => \A p \in Procs : pc[p] = "write" => f \notin goal[p]

(* Every request that may insert a row finds one.                          *)
RowsLeft == Cardinality(Unused) >= Cardinality(Inserters)

IInv == /\ TypeOK /\ OneLiveToken /\ LiveSessionHasToken
        /\ RowsLinked /\ Locks /\ Rotations /\ SignIns /\ Revocations /\ Late /\ RowsLeft

-----------------------------------------------------------------------------
(* The other requests are as they were.                                    *)
Others(p) ==
    \A q \in Procs : q # p =>
      /\ pc'[q] = pc[q] /\ kind'[q] = kind[q] /\ goal'[q] = goal[q]
      /\ want'[q] = want[q] /\ held'[q] = held[q] /\ ends'[q] = ends[q]

ProcTypes ==
    /\ pc \in [Procs -> Steps] /\ kind \in [Procs -> Kinds] /\ goal \in [Procs -> SUBSET Families]
    /\ want \in [Procs -> SUBSET Tokens] /\ held \in [Procs -> SUBSET Tokens]
    /\ ends \in [Procs -> SUBSET Families] /\ drop \in [Procs -> BOOLEAN]

LEMMA Finite == IsFiniteSet(Unused) /\ Cardinality(Unused) \in Nat
                /\ IsFiniteSet(Inserters) /\ Cardinality(Inserters) \in Nat
  <1>1. IsFiniteSet(Tokens)
    BY SessionsAssumption, FS_Interval DEF Tokens
  <1>2. QED
    BY <1>1, SessionsAssumption, FS_Subset, FS_CardinalityType DEF Unused, Inserters

(* A request that may insert a row has one to insert.                      *)
LEMMA NewTokenUnused ==
    ASSUME TypeOK, RowsLeft, NEW p \in Procs, pc[p] \in {"check", "write", "verified"}
    PROVE  NewToken \in Tokens /\ tok[NewToken] = "none"
  <1>1. Cardinality(Inserters) # 0
    BY Finite, FS_EmptySet DEF Inserters
  <1>2. Unused # {}
    BY <1>1, Finite, FS_EmptySet DEF RowsLeft
  <1>3. NewToken \in Unused
    BY <1>2 DEF NewToken
  <1>4. QED
    BY <1>3 DEF Unused

LEMMA InitIInv == Init => IInv
  <1> SUFFICES ASSUME Init PROVE IInv
    OBVIOUS
  <1>1. TypeOK
    <2>1. pc \in [Procs -> Steps] /\ kind \in [Procs -> Kinds]
      BY DEF Init, Steps, Kinds
    <2>2. suspended \in BOOLEAN /\ device \in BOOLEAN /\ drop \in [Procs -> BOOLEAN]
      BY DEF Init
    <2>3. stale \in SUBSET Procs /\ late \in [Families -> Nat] /\ changes \in 0..MaxChanges /\ aborts \in 0..MaxAborts
      BY SessionsAssumption DEF Init
    <2>4. QED
      BY <2>1, <2>2, <2>3 DEF Init, TypeOK, States
  <1>2. RowsLeft
    <2>1. Inserters = {}
      BY DEF Init, Inserters
    <2>2. QED
      BY <2>1, Finite, FS_EmptySet DEF RowsLeft
  <1>3. Rotations /\ SignIns /\ Revocations /\ Late /\ Locks
    BY DEF Init, Rotations, SignIns, Revocations, Late, Locks
  <1>4. QED
    BY <1>1, <1>2, <1>3 DEF Init, IInv, OneLiveToken, LiveSessionHasToken, RowsLinked

(* What the end of a request does.                                         *)
LEMMA EndFacts ==
    ASSUME TypeOK, NEW p \in Procs, End(p)
    PROVE  /\ ProcTypes' /\ Others(p)
           /\ pc'[p] = "idle" /\ held'[p] = {} /\ want'[p] = {} /\ goal'[p] = {} /\ ends'[p] = {}
  <1>1. pc' \in [Procs -> Steps] /\ kind' \in [Procs -> Kinds] /\ drop' \in [Procs -> BOOLEAN]
    BY DEF End, TypeOK, Steps, Kinds
  <1>2. /\ goal' \in [Procs -> SUBSET Families] /\ want' \in [Procs -> SUBSET Tokens]
        /\ held' \in [Procs -> SUBSET Tokens] /\ ends' \in [Procs -> SUBSET Families]
    BY DEF End, TypeOK
  <1>3. Others(p)
    BY DEF End, TypeOK, Others
  <1>4. QED
    BY <1>1, <1>2, <1>3 DEF ProcTypes, End, TypeOK

(* A request that ends without writing, and takes no row with it.          *)
LEMMA LeavingKeeps ==
    ASSUME IInv, NEW p \in Procs, End(p), UNCHANGED <<rows, late>>,
           stale' \in SUBSET Procs, suspended' \in BOOLEAN, device' \in BOOLEAN, changes' \in 0..MaxChanges, aborts' \in 0..MaxAborts
    PROVE  IInv'
  <1> USE DEF rows
  <1>1. /\ ProcTypes' /\ Others(p) /\ pc'[p] = "idle"
        /\ held'[p] = {} /\ want'[p] = {} /\ goal'[p] = {} /\ ends'[p] = {}
    BY EndFacts DEF IInv
  <1>2. TypeOK'
    BY <1>1 DEF IInv, TypeOK, ProcTypes
  <1>3. RowsLeft'
    <2>1. Unused' = Unused /\ Inserters' \subseteq Inserters
      BY <1>1 DEF Unused, Inserters, Others
    <2>2. Cardinality(Inserters') <= Cardinality(Inserters) /\ Cardinality(Inserters') \in Nat
      BY <2>1, Finite, FS_Subset, FS_CardinalityType
    <2>3. QED
      BY <2>1, <2>2, Finite DEF IInv, RowsLeft
  <1>4. Locks' /\ Rotations' /\ SignIns' /\ Revocations' /\ Late'
    BY <1>1 DEF IInv, Locks, Rotations, SignIns, Revocations, Late, Others
  <1>5. QED
    BY <1>2, <1>3, <1>4 DEF IInv, OneLiveToken, LiveSessionHasToken, RowsLinked

(* What the invariant says of one request.                                 *)
Sound(p) ==
    /\ \A q \in Procs : p # q => held[p] \cap held[q] = {}
    /\ pc[p] \in {"idle", "reuse", "verified", "guard", "handle"} => held[p] = {}
    /\ pc[p] \in {"check", "write"} =>
         \E t \in Tokens : held[p] = {t} /\ tok[t] = "live" /\ goal[p] = {fam[t]}
    /\ pc[p] = "verified" =>
         /\ kind[p] = "login" /\ \E f \in Families : goal[p] = {f} /\ sess[f] = "none"
         /\ \A q \in Procs : p # q /\ pc[q] = "verified" => goal[p] \cap goal[q] = {}
    /\ \A f \in ends[p] : sess[f] # "none"
    /\ pc[p] \in {"tokens", "devices", "commit"} => \A t \in held[p] \cup want[p] : fam[t] \in goal[p]
    /\ pc[p] \in {"devices", "commit"} =>
         \A t \in held[p] : fam[t] \in ends[p] \/ sess[fam[t]] = "revoked"
    /\ pc[p] = "write" => \A f \in goal[p] : late[f] # 1

LEMMA IsSound == ASSUME IInv, NEW p \in Procs PROVE Sound(p)
  <1>1. TypeOK /\ Locks /\ Rotations /\ SignIns /\ Revocations /\ Late
    BY DEF IInv
  <1>2. pc[p] = "write" => \A f \in goal[p] : late[f] # 1
    BY <1>1 DEF Late, TypeOK
  <1>3. QED
    BY <1>1, <1>2 DEF Sound, Locks, Rotations, SignIns, Revocations

(* Deadlines pass and are moved on: no session begins or is revoked.       *)
DeadlinesOnly ==
    /\ sess' \in [Families -> States]
    /\ \A f \in Families : \/ sess'[f] = sess[f]
                           \/ /\ sess[f] \in {"live", "idle", "over"}
                              /\ sess'[f] \in {"live", "idle", "over"}

(* A step of one request that inserts, rotates and revokes nothing.        *)
LEMMA QuietKeeps ==
    ASSUME IInv, NEW p \in Procs, ProcTypes', Others(p), Sound(p)', RowsLeft', DeadlinesOnly,
           UNCHANGED <<fam, tok, late>>, stale' \in SUBSET Procs, suspended' \in BOOLEAN,
           device' \in BOOLEAN, changes' \in 0..MaxChanges, aborts' \in 0..MaxAborts
    PROVE  IInv'
  <1>0. /\ TypeOK /\ \A f \in Families : /\ sess'[f] = "none" <=> sess[f] = "none"
                                         /\ sess'[f] = "revoked" <=> sess[f] = "revoked"
    BY DEF DeadlinesOnly, IInv
  <1>1. TypeOK'
    BY <1>0 DEF DeadlinesOnly, TypeOK, ProcTypes
  <1>2. Locks'
    BY DEF IInv, Locks, Others, Sound
  <1>3. Rotations'
    BY DEF IInv, Rotations, Others, Sound
  <1>4. SignIns'
    BY <1>0 DEF IInv, SignIns, Others, Sound
  <1>5. Revocations'
    <2> SUFFICES ASSUME NEW q \in Procs, q # p
                 PROVE  /\ \A f \in ends[q] : sess'[f] # "none"
                        /\ pc[q] \in {"tokens", "devices", "commit"} =>
                             \A t \in held[q] \cup want[q] : fam[t] \in goal[q]
                        /\ pc[q] \in {"devices", "commit"} =>
                             \A t \in held[q] : fam[t] \in ends[q] \/ sess'[fam[t]] = "revoked"
      BY DEF Revocations, Others, Sound
    <2>1. ends[q] \subseteq Families /\ goal[q] \subseteq Families
      BY <1>0 DEF TypeOK
    <2>2. QED
      BY <1>0, <2>1 DEF IInv, Revocations
  <1>6. Late'
    BY <1>0 DEF IInv, Late, Others, Sound
  <1>7. OneLiveToken' /\ RowsLinked'
    BY <1>0 DEF IInv, OneLiveToken, RowsLinked, TypeOK
  <1>8. LiveSessionHasToken'
    BY DEF DeadlinesOnly, IInv, LiveSessionHasToken
  <1>9. QED
    BY <1>1, <1>2, <1>3, <1>4, <1>5, <1>6, <1>7, <1>8 DEF IInv

(* A request that is not to insert a row takes none.                       *)
LEMMA RowsLeftKept ==
    ASSUME IInv, NEW p \in Procs, Others(p), UNCHANGED tok,
           pc'[p] \in {"check", "write", "verified"} => pc[p] \in {"check", "write", "verified"}
    PROVE  RowsLeft'
  <1>1. Unused' = Unused /\ Inserters' \subseteq Inserters
    BY DEF Unused, Inserters, Others
  <1>2. Cardinality(Inserters') <= Cardinality(Inserters) /\ Cardinality(Inserters') \in Nat
    BY <1>1, Finite, FS_Subset, FS_CardinalityType
  <1>3. QED
    BY <1>1, <1>2, Finite DEF IInv, RowsLeft

(* A request that is to insert one has found room for it.                  *)
LEMMA RowsLeftTaken ==
    ASSUME IInv, NEW p \in Procs, Others(p), UNCHANGED tok, Room
    PROVE  RowsLeft'
  <1>1. Unused' = Unused /\ Inserters' \subseteq Inserters \cup {p}
    BY DEF Unused, Inserters, Others
  <1>2. IsFiniteSet(Inserters \cup {p}) /\ Cardinality(Inserters \cup {p}) <= Cardinality(Inserters) + 1
    <2>1. /\ IsFiniteSet(Inserters \cup {p})
          /\ Cardinality(Inserters \cup {p}) =
               IF p \in Inserters THEN Cardinality(Inserters) ELSE Cardinality(Inserters) + 1
      BY Finite, FS_AddElement, Zenon
    <2>2. QED
      BY <2>1, Finite
  <1>3. /\ Cardinality(Inserters') <= Cardinality(Inserters \cup {p})
        /\ Cardinality(Inserters') \in Nat /\ Cardinality(Inserters \cup {p}) \in Nat
    BY <1>1, <1>2, FS_Subset, FS_CardinalityType
  <1>4. QED
    BY <1>1, <1>2, <1>3, Finite DEF RowsLeft, Room

LEMMA BeginFacts ==
    ASSUME TypeOK, NEW p \in Procs, NEW s \in Steps, NEW k \in Kinds, NEW F \in SUBSET Families,
           Begin(p, s, k, F), UNCHANGED <<ends, drop>>
    PROVE  /\ pc' \in [Procs -> Steps] /\ kind' \in [Procs -> Kinds] /\ goal' \in [Procs -> SUBSET Families]
           /\ ends' \in [Procs -> SUBSET Families] /\ drop' \in [Procs -> BOOLEAN]
           /\ pc'[p] = s /\ kind'[p] = k /\ goal'[p] = F /\ ends'[p] = ends[p]
           /\ \A q \in Procs : q # p =>
                pc'[q] = pc[q] /\ kind'[q] = kind[q] /\ goal'[q] = goal[q] /\ ends'[q] = ends[q]
  BY DEF Begin, TypeOK

LEMMA RevokeKeeps ==
    ASSUME IInv, NEW p \in Procs, NEW k \in Kinds, NEW F \in SUBSET Families,
           pc[p] \in {"idle", "reuse", "handle"}, Revoke(p, k, F), changes' \in 0..MaxChanges
    PROVE  IInv'
  <1> DEFINE w == {t \in Tokens : fam[t] \in F /\ (k = "organisation" => tok[t] = "live")}
  <1>0. TypeOK /\ Sound(p) /\ held[p] = {}
    BY IsSound DEF IInv, Locks
  <1>1. /\ pc' \in [Procs -> Steps] /\ kind' \in [Procs -> Kinds] /\ goal' \in [Procs -> SUBSET Families]
        /\ ends' \in [Procs -> SUBSET Families] /\ drop' \in [Procs -> BOOLEAN]
        /\ pc'[p] = "tokens" /\ goal'[p] = F /\ ends'[p] = ends[p]
        /\ \A q \in Procs : q # p =>
             pc'[q] = pc[q] /\ kind'[q] = kind[q] /\ goal'[q] = goal[q] /\ ends'[q] = ends[q]
    BY <1>0, BeginFacts, "tokens" \in Steps DEF Revoke, Steps
  <1>2. /\ want' \in [Procs -> SUBSET Tokens] /\ want'[p] = w
        /\ \A q \in Procs : q # p => want'[q] = want[q]
        /\ held' = held /\ UNCHANGED <<rows, suspended, device, stale, late, aborts>>
    BY <1>0 DEF Revoke, TypeOK
  <1>3. ProcTypes' /\ Others(p)
    BY <1>0, <1>1, <1>2 DEF ProcTypes, Others, TypeOK
  <1>4. Sound(p)'
    BY <1>0, <1>1, <1>2 DEF Sound, rows
  <1>5. RowsLeft'
    BY <1>1, <1>2, <1>3, RowsLeftKept DEF rows
  <1>6. QED
    BY <1>0, <1>2, <1>3, <1>4, <1>5, QuietKeeps DEF DeadlinesOnly, TypeOK, rows

LEMMA RefreshLockKeeps ==
    ASSUME IInv, NEW p \in Procs, NEW t \in Tokens, RefreshLock(p, t) PROVE IInv'
  <1> USE DEF rows
  <1>0. TypeOK /\ Sound(p) /\ held[p] = {} /\ fam[t] \in Families
    BY IsSound DEF IInv, Locks, RefreshLock, RowsLinked, TypeOK
  <1>1. CASE tok[t] = "live"
    <2>1. /\ ProcTypes' /\ Others(p) /\ ends'[p] = ends[p]
          /\ pc'[p] = "check" /\ goal'[p] = {fam[t]} /\ held'[p] = {t} /\ want'[p] = want[p]
      <3>1. /\ Begin(p, "check", "refresh", {fam[t]}) /\ held' = [held EXCEPT ![p] = {t}]
            /\ UNCHANGED <<want, ends, drop>>
        BY <1>1 DEF RefreshLock
      <3>2. "check" \in Steps /\ "refresh" \in Kinds /\ {fam[t]} \in SUBSET Families
        BY <1>0 DEF Steps, Kinds
      <3>3. /\ pc' \in [Procs -> Steps] /\ kind' \in [Procs -> Kinds] /\ goal' \in [Procs -> SUBSET Families]
            /\ ends' \in [Procs -> SUBSET Families] /\ drop' \in [Procs -> BOOLEAN]
            /\ pc'[p] = "check" /\ goal'[p] = {fam[t]} /\ ends'[p] = ends[p]
            /\ \A q \in Procs : q # p =>
                 pc'[q] = pc[q] /\ kind'[q] = kind[q] /\ goal'[q] = goal[q] /\ ends'[q] = ends[q]
        BY <1>0, <3>1, <3>2, BeginFacts
      <3>4. /\ held' \in [Procs -> SUBSET Tokens] /\ want' = want /\ held'[p] = {t}
            /\ \A q \in Procs : q # p => held'[q] = held[q]
        BY <1>0, <3>1 DEF TypeOK
      <3>5. QED
        BY <1>0, <3>3, <3>4 DEF ProcTypes, Others, TypeOK
    <2>2. Sound(p)'
      BY <1>0, <1>1, <2>1 DEF Sound, RefreshLock, FreeToken, Others
    <2>3. RowsLeft'
      BY <1>1, <2>1, RowsLeftTaken DEF RefreshLock
    <2>4. QED
      BY <1>0, <2>1, <2>2, <2>3, QuietKeeps DEF DeadlinesOnly, RefreshLock, TypeOK
  <1>2. CASE tok[t] # "live"
    <2>1. /\ Begin(p, "reuse", "refresh", {fam[t]}) /\ UNCHANGED <<held, want, ends, drop>>
      BY <1>2 DEF RefreshLock
    <2>2. "reuse" \in Steps /\ "refresh" \in Kinds /\ {fam[t]} \in SUBSET Families
      BY <1>0 DEF Steps, Kinds
    <2>3. /\ ProcTypes' /\ Others(p) /\ pc'[p] = "reuse" /\ ends'[p] = ends[p]
      BY <1>0, <2>1, <2>2, BeginFacts DEF ProcTypes, Others, TypeOK
    <2>4. Sound(p)'
      BY <1>0, <2>1, <2>3 DEF Sound, RefreshLock
    <2>5. RowsLeft'
      BY <2>3, RowsLeftKept DEF RefreshLock
    <2>6. QED
      BY <1>0, <2>3, <2>4, <2>5, QuietKeeps DEF DeadlinesOnly, RefreshLock, TypeOK
  <1>3. QED
    BY <1>1, <1>2

LEMMA LoginVerifyKeeps ==
    ASSUME IInv, NEW p \in Procs, NEW f \in Families, LoginVerify(p, f) PROVE IInv'
  <1> USE DEF rows
  <1>0. TypeOK /\ Sound(p) /\ held[p] = {} /\ SignIns
    BY IsSound DEF IInv, Locks, LoginVerify
  <1>1. "verified" \in Steps /\ "login" \in Kinds /\ {f} \in SUBSET Families
    BY DEF Steps, Kinds
  <1>2. /\ ProcTypes' /\ Others(p) /\ pc'[p] = "verified" /\ kind'[p] = "login" /\ goal'[p] = {f}
        /\ ends'[p] = ends[p] /\ held' = held
    BY <1>0, <1>1, BeginFacts DEF LoginVerify, ProcTypes, Others, TypeOK
  <1>3. Sound(p)'
    BY <1>0, <1>2 DEF Sound, LoginVerify, SignIns, Others
  <1>4. RowsLeft'
    BY <1>2, RowsLeftTaken DEF LoginVerify
  <1>5. QED
    BY <1>0, <1>2, <1>3, <1>4, QuietKeeps DEF DeadlinesOnly, LoginVerify, TypeOK

LEMMA GuardKeeps ==
    ASSUME IInv, NEW p \in Procs, NEW f \in Families, Guard(p, f) PROVE IInv'
  <1> USE DEF rows
  <1>0. TypeOK /\ Sound(p) /\ held[p] = {}
    BY IsSound DEF IInv, Locks, Guard
  <1>1. "guard" \in Steps /\ Admitted \in Kinds /\ {f} \in SUBSET Families
    BY DEF Steps, Kinds, Admitted
  <1>2. /\ ProcTypes' /\ Others(p) /\ pc'[p] = "guard" /\ ends'[p] = ends[p] /\ held' = held
    BY <1>0, <1>1, BeginFacts DEF Guard, ProcTypes, Others, TypeOK
  <1>3. Sound(p)'
    BY <1>0, <1>2 DEF Sound, Guard
  <1>4. RowsLeft'
    BY <1>2, RowsLeftKept DEF Guard
  <1>5. QED
    BY <1>0, <1>2, <1>3, <1>4, QuietKeeps DEF DeadlinesOnly, Guard, TypeOK

(* A guard that has decided leaves its request to the handler; the bump    *)
(* touches no session that is revoked.                                     *)
LEMMA GuardPassKeeps ==
    ASSUME IInv, NEW p \in Procs, GuardBump(p) \/ GuardPass(p) PROVE IInv'
  <1> USE DEF rows
  <1>0. TypeOK /\ Sound(p) /\ pc[p] = "guard" /\ pc' = [pc EXCEPT ![p] = "handle"]
    BY IsSound DEF IInv, GuardBump, GuardPass, Bump, Goto
  <1>1. /\ UNCHANGED <<fam, tok, kind, goal, want, held, ends, drop, late, suspended, device>>
        /\ UNCHANGED <<changes, aborts>>
    BY DEF GuardBump, GuardPass, Bump
  <1>2. stale' \in SUBSET Procs
    BY <1>0 DEF GuardBump, GuardPass, Bump, Overtaken, TypeOK
  <1>3. DeadlinesOnly
    BY <1>0 DEF GuardBump, GuardPass, Bump, Bumped, DeadlinesOnly, TypeOK, States
  <1>4. ProcTypes' /\ Others(p) /\ pc'[p] = "handle"
    BY <1>0, <1>1 DEF ProcTypes, Others, TypeOK, Steps
  <1>5. Sound(p)'
    <2>1. \A f \in ends[p] : sess'[f] # "none"
      BY <1>0, <1>3 DEF Sound, DeadlinesOnly, TypeOK
    <2>2. QED
      BY <1>0, <1>1, <1>4, <2>1 DEF Sound
  <1>6. RowsLeft'
    BY <1>1, <1>4, RowsLeftKept
  <1>7. QED
    BY <1>0, <1>1, <1>2, <1>3, <1>4, <1>5, <1>6, QuietKeeps DEF DeadlinesOnly, TypeOK

LEMMA GuardConflictKeeps ==
    ASSUME IInv, NEW p \in Procs, GuardConflict(p) PROVE IInv'
  <1> USE DEF rows
  <1>0. TypeOK /\ Sound(p) /\ stale' \in SUBSET Procs
    BY IsSound DEF IInv, TypeOK, GuardConflict
  <1>1. CASE End(p)
    BY <1>0, <1>1, LeavingKeeps DEF GuardConflict, TypeOK
  <1>2. CASE kind' = [kind EXCEPT ![p] = Admitted] /\ UNCHANGED <<pc, goal, want, held, ends, drop>>
    <2>0. Admitted \in Kinds
      BY DEF Admitted, Kinds
    <2>1. ProcTypes' /\ Others(p)
      BY <1>0, <1>2, <2>0 DEF ProcTypes, Others, TypeOK
    <2>2. Sound(p)'
      BY <1>0, <1>2 DEF Sound, GuardConflict
    <2>3. RowsLeft'
      BY <1>2, <2>1, RowsLeftKept DEF GuardConflict
    <2>4. QED
      BY <1>0, <2>1, <2>2, <2>3, QuietKeeps DEF DeadlinesOnly, GuardConflict, TypeOK
  <1>3. QED
    BY <1>1, <1>2 DEF GuardConflict

LEMMA RefreshCheckKeeps ==
    ASSUME IInv, NEW p \in Procs, RefreshCheck(p) PROVE IInv'
  <1> USE DEF rows
  <1>0. TypeOK /\ Sound(p) /\ Late
    BY IsSound DEF IInv
  <1>1. CASE \A f \in goal[p] : MayRotate(f)
    <2>1. /\ Goto(p, "write") /\ UNCHANGED <<rows, suspended, device, stale, late, changes, aborts>>
          /\ UNCHANGED <<kind, goal, want, held, ends, drop>> /\ pc[p] = "check"
      BY <1>1 DEF RefreshCheck
    <2>2. ProcTypes' /\ Others(p) /\ pc'[p] = "write"
      BY <1>0, <2>1 DEF Goto, ProcTypes, Others, TypeOK, Steps
    <2>3. \A f \in goal[p] : late[f] # 1
      BY <1>0, <1>1 DEF MayRotate, Late, TypeOK
    <2>4. Sound(p)'
      BY <1>0, <2>1, <2>2, <2>3 DEF Sound
    <2>5. RowsLeft'
      BY <2>1, <2>2, RowsLeftKept
    <2>6. QED
      BY <1>0, <2>1, <2>2, <2>4, <2>5, QuietKeeps DEF DeadlinesOnly, TypeOK
  <1>2. CASE ~ \A f \in goal[p] : MayRotate(f)
    BY <1>0, <1>2, LeavingKeeps DEF RefreshCheck, TypeOK
  <1>3. QED
    BY <1>1, <1>2

LEMMA LockTokenKeeps ==
    ASSUME IInv, NEW p \in Procs, NEW t \in Tokens, LockToken(p, t) PROVE IInv'
  <1> USE DEF rows
  <1>0. TypeOK /\ Sound(p)
    BY IsSound DEF IInv
  <1>1. /\ want' \in [Procs -> SUBSET Tokens] /\ held' \in [Procs -> SUBSET Tokens]
        /\ want'[p] = want[p] \ {t} /\ held'[p] = held[p] \cup {t}
        /\ \A q \in Procs : q # p => want'[q] = want[q] /\ held'[q] = held[q]
    BY <1>0 DEF LockToken, TypeOK
  <1>2. ProcTypes' /\ Others(p)
    BY <1>0, <1>1 DEF ProcTypes, Others, TypeOK, LockToken
  <1>3. Sound(p)'
    BY <1>0, <1>1 DEF Sound, LockToken, FreeToken
  <1>4. RowsLeft'
    BY <1>2, RowsLeftKept DEF LockToken
  <1>5. QED
    BY <1>0, <1>2, <1>3, <1>4, QuietKeeps DEF DeadlinesOnly, LockToken, TypeOK

LEMMA RevokeSessionsKeeps ==
    ASSUME IInv, NEW p \in Procs, RevokeSessions(p) PROVE IInv'
  <1> USE DEF rows
  <1>0. TypeOK /\ Sound(p) /\ RowsLinked
    BY IsSound DEF IInv
  <1>1. pc' \in [Procs -> Steps] /\ pc'[p] \in {"devices", "commit"} /\ (\A q \in Procs : q # p => pc'[q] = pc[q])
    BY <1>0 DEF RevokeSessions, Goto, TypeOK, Steps
  <1>2. /\ ends' \in [Procs -> SUBSET Families] /\ ends'[p] = OpenSessions(p)
        /\ \A q \in Procs : q # p => ends'[q] = ends[q]
    BY <1>0 DEF RevokeSessions, OpenSessions, TypeOK
  <1>3. ProcTypes' /\ Others(p)
    BY <1>0, <1>1, <1>2 DEF ProcTypes, Others, TypeOK, RevokeSessions
  <1>4. \A t \in held[p] : fam[t] \in OpenSessions(p) \/ sess[fam[t]] = "revoked"
    <2> SUFFICES ASSUME NEW t \in held[p], sess[fam[t]] # "revoked" PROVE fam[t] \in OpenSessions(p)
      OBVIOUS
    <2>1. fam[t] \in goal[p] /\ t \in Tokens /\ fam[t] \in Families
      BY <1>0 DEF Sound, RevokeSessions, TypeOK
    <2>2. sess[fam[t]] # "none"
      BY <1>0, <2>1, SessionsAssumption DEF RowsLinked
    <2>3. QED
      BY <1>0, <2>1, <2>2 DEF OpenSessions, TypeOK, States
  <1>5. Sound(p)'
    <2>1. \A f \in ends'[p] : sess[f] # "none"
      BY <1>2 DEF OpenSessions
    <2>2. held' = held /\ want' = want /\ goal' = goal /\ fam' = fam /\ sess' = sess /\ pc[p] = "tokens"
      BY DEF RevokeSessions
    <2>3. QED
      BY <1>0, <1>1, <1>2, <1>4, <2>1, <2>2 DEF Sound
  <1>6. RowsLeft'
    BY <1>1, <1>3, RowsLeftKept DEF RevokeSessions
  <1>7. QED
    BY <1>0, <1>3, <1>5, <1>6, QuietKeeps DEF DeadlinesOnly, RevokeSessions, TypeOK

LEMMA RevokeDevicesKeeps ==
    ASSUME IInv, NEW p \in Procs, RevokeDevices(p) PROVE IInv'
  <1> USE DEF rows
  <1>0. TypeOK /\ Sound(p)
    BY IsSound DEF IInv
  <1>1. pc' \in [Procs -> Steps] /\ pc'[p] = "commit" /\ \A q \in Procs : q # p => pc'[q] = pc[q]
    BY <1>0 DEF RevokeDevices, Goto, TypeOK, Steps
  <1>2. drop' \in [Procs -> BOOLEAN]
    BY <1>0, Zenon DEF RevokeDevices, TypeOK
  <1>3. ProcTypes' /\ Others(p)
    BY <1>0, <1>1, <1>2 DEF ProcTypes, Others, TypeOK, RevokeDevices
  <1>4. Sound(p)'
    BY <1>0, <1>1 DEF Sound, RevokeDevices
  <1>5. RowsLeft'
    BY <1>1, <1>3, RowsLeftKept DEF RevokeDevices
  <1>6. QED
    BY <1>0, <1>3, <1>4, <1>5, QuietKeeps DEF DeadlinesOnly, RevokeDevices, TypeOK

-----------------------------------------------------------------------------
(* The steps that write rows.                                              *)

LEMMA ExpireKeeps ==
    ASSUME IInv, NEW f \in Families, Expire(f) \/ PassDeadline(f) PROVE IInv'
  <1> USE DEF procs
  <1>0. TypeOK /\ OneLiveToken /\ LiveSessionHasToken /\ RowsLinked /\ Late /\ RowsLeft
    BY DEF IInv
  <1>1. /\ sess' \in [Families -> States]
        /\ sess[f] \in {"live", "idle"} /\ sess'[f] \in {"idle", "over"} /\ \A g \in Families : g # f => sess'[g] = sess[g]
    BY <1>0 DEF Expire, PassDeadline, TypeOK, States
  <1>2. TypeOK'
    BY <1>0, <1>1 DEF Expire, PassDeadline, TypeOK, States
  <1>3. OneLiveToken' /\ LiveSessionHasToken' /\ Locks' /\ Rotations' /\ RowsLeft'
    <2>1. UNCHANGED <<fam, tok, procs>>
      BY DEF Expire, PassDeadline
    <2>2. LiveSessionHasToken'
      BY <1>0, <1>1, <2>1 DEF LiveSessionHasToken
    <2>3. OneLiveToken' /\ Locks' /\ Rotations' /\ RowsLeft'
      BY <1>0, <2>1 DEF IInv, OneLiveToken, Locks, Rotations, RowsLeft, Unused, Inserters
    <2>4. QED
      BY <2>2, <2>3
  <1>4. RowsLinked'
    BY <1>0, <1>1 DEF Expire, PassDeadline, RowsLinked, TypeOK
  <1>5. SignIns'
    BY <1>1 DEF IInv, Expire, PassDeadline, SignIns
  <1>6. Revocations'
    BY <1>0, <1>1 DEF IInv, Expire, PassDeadline, Revocations, TypeOK
  <1>7. Late'
    BY <1>0, <1>1 DEF Expire, PassDeadline, Late
  <1>8. QED
    BY <1>2, <1>3, <1>4, <1>5, <1>6, <1>7 DEF IInv

LEMMA ReactivateKeeps == ASSUME IInv, Reactivate PROVE IInv'
  <1> USE DEF rows, procs
  <1>1. TypeOK'
    BY DEF IInv, Reactivate, TypeOK
  <1>2. RowsLeft'
    BY DEF IInv, Reactivate, RowsLeft, Unused, Inserters
  <1>3. QED
    BY <1>1, <1>2 DEF IInv, Reactivate, OneLiveToken, LiveSessionHasToken, RowsLinked, Locks,
       Rotations, SignIns, Revocations, Late

LEMMA RevokeCommitKeeps ==
    ASSUME IInv, NEW p \in Procs, RevokeCommit(p) PROVE IInv'
  <1>0. /\ TypeOK /\ OneLiveToken /\ LiveSessionHasToken /\ RowsLinked /\ Locks /\ Rotations
        /\ SignIns /\ Revocations /\ Late /\ RowsLeft /\ Sound(p) /\ End(p)
    BY IsSound DEF IInv, RevokeCommit
  <1>1. /\ ProcTypes' /\ Others(p) /\ pc'[p] = "idle"
        /\ held'[p] = {} /\ want'[p] = {} /\ goal'[p] = {} /\ ends'[p] = {}
    BY <1>0, EndFacts
  <1>2. /\ tok' \in [Tokens -> {"none", "live", "rotated", "revoked"}]
        /\ \A t \in Tokens : tok'[t] = tok[t] \/ (t \in held[p] /\ tok[t] = "live" /\ tok'[t] = "revoked")
        /\ \A t \in held[p] : tok'[t] # "live"
    BY <1>0 DEF RevokeCommit, TypeOK
  <1>3. /\ sess' \in [Families -> States]
        /\ \A f \in Families : f \notin ends[p] => sess'[f] = sess[f]
        /\ \A f \in ends[p] : sess'[f] = "revoked" /\ sess[f] # "none"
    BY <1>0 DEF RevokeCommit, TypeOK, Sound, States
  <1>4. \A f \in Families : /\ sess'[f] = "none" <=> sess[f] = "none"
                            /\ sess[f] = "revoked" => sess'[f] = "revoked"
    BY <1>3
  <1>5. TypeOK'
    <2>1. suspended' \in BOOLEAN /\ device' \in BOOLEAN /\ stale' \in SUBSET Procs
      BY <1>0 DEF RevokeCommit, TypeOK, Overtaken
    <2>2. QED
      BY <1>0, <1>1, <1>2, <1>3, <2>1 DEF RevokeCommit, TypeOK, ProcTypes
  <1>6. OneLiveToken'
    BY <1>0, <1>2 DEF OneLiveToken, RevokeCommit
  <1>7. LiveSessionHasToken'
    <2> SUFFICES ASSUME NEW f \in Families, sess'[f] \in {"live", "idle", "over"}
                 PROVE  \E t \in Tokens : fam[t] = f /\ tok'[t] = "live"
      BY DEF LiveSessionHasToken, RevokeCommit
    <2>1. f \notin ends[p] /\ sess[f] \in {"live", "idle", "over"}
      BY <1>3
    <2>2. PICK t \in Tokens : fam[t] = f /\ tok[t] = "live"
      BY <1>0, <2>1 DEF LiveSessionHasToken
    <2>3. t \notin held[p]
      BY <1>0, <2>1, <2>2 DEF Sound, RevokeCommit
    <2>4. QED
      BY <1>2, <2>2, <2>3
  <1>8. RowsLinked'
    BY <1>0, <1>2, <1>4 DEF RowsLinked, RevokeCommit, TypeOK
  <1>9. Locks'
    BY <1>0, <1>1 DEF Locks, Others
  <1>10. Rotations'
    <2> SUFFICES ASSUME NEW q \in Procs, pc'[q] \in {"check", "write"}
                 PROVE  \E t \in Tokens : held'[q] = {t} /\ tok'[t] = "live" /\ goal'[q] = {fam'[t]}
      BY DEF Rotations
    <2>1. q # p /\ pc'[q] = pc[q] /\ held'[q] = held[q] /\ goal'[q] = goal[q]
      BY <1>1 DEF Others
    <2>2. PICK t \in Tokens : held[q] = {t} /\ tok[t] = "live" /\ goal[q] = {fam[t]}
      BY <1>0, <2>1 DEF Rotations
    <2>3. t \notin held[p]
      BY <1>0, <2>1, <2>2 DEF Locks
    <2>4. QED
      BY <1>2, <2>1, <2>2, <2>3 DEF RevokeCommit
  <1>11. SignIns'
    BY <1>0, <1>1, <1>4 DEF SignIns, Others
  <1>12. Revocations'
    <2> SUFFICES ASSUME NEW q \in Procs, q # p
                 PROVE  /\ \A f \in ends[q] : sess'[f] # "none"
                        /\ pc[q] \in {"tokens", "devices", "commit"} =>
                             \A t \in held[q] \cup want[q] : fam[t] \in goal[q]
                        /\ pc[q] \in {"devices", "commit"} =>
                             \A t \in held[q] : fam[t] \in ends[q] \/ sess'[fam[t]] = "revoked"
      BY <1>1 DEF Revocations, Others, RevokeCommit
    <2>1. ends[q] \subseteq Families /\ goal[q] \subseteq Families
      BY <1>0 DEF TypeOK
    <2>2. QED
      BY <1>0, <1>4, <2>1 DEF Revocations
  <1>13. Late'
    BY <1>0, <1>1, <1>4 DEF Late, Others, RevokeCommit
  <1>14. RowsLeft'
    <2>1. Unused' = Unused /\ Inserters' \subseteq Inserters
      BY <1>1, <1>2 DEF Unused, Inserters, Others
    <2>2. Cardinality(Inserters') <= Cardinality(Inserters) /\ Cardinality(Inserters') \in Nat
      BY <2>1, Finite, FS_Subset, FS_CardinalityType
    <2>3. QED
      BY <1>0, <2>1, <2>2, Finite DEF RowsLeft
  <1>15. QED
    BY <1>5, <1>6, <1>7, <1>8, <1>9, <1>10, <1>11, <1>12, <1>13, <1>14 DEF IInv

(* A request that inserts its row leaves one to every other.               *)
LEMMA RowsLeftUsed ==
    ASSUME IInv, NEW p \in Procs, pc[p] \in {"check", "write", "verified"}, Others(p), pc'[p] = "idle",
           Unused' = Unused \ {NewToken}
    PROVE  RowsLeft'
  <1>1. NewToken \in Unused /\ p \in Inserters
    BY NewTokenUnused DEF IInv, Unused, Inserters
  <1>2. Inserters' = Inserters \ {p}
    BY <1>1 DEF Inserters, Others
  <1>3. Cardinality(Unused') = Cardinality(Unused) - 1
    BY <1>1, Finite, FS_RemoveElement
  <1>4. Cardinality(Inserters') = Cardinality(Inserters) - 1
    BY <1>1, <1>2, Finite, FS_RemoveElement
  <1>5. QED
    BY <1>3, <1>4, Finite DEF IInv, RowsLeft

LEMMA RefreshCommitKeeps ==
    ASSUME IInv, NEW p \in Procs, RefreshCommit(p) PROVE IInv'
  <1> DEFINE n == NewToken
  <1>0. /\ TypeOK /\ OneLiveToken /\ LiveSessionHasToken /\ RowsLinked /\ Locks /\ Rotations
        /\ SignIns /\ Revocations /\ Late /\ RowsLeft /\ Sound(p) /\ End(p) /\ pc[p] = "write"
    BY IsSound DEF IInv, RefreshCommit
  <1>1. /\ ProcTypes' /\ Others(p) /\ pc'[p] = "idle"
        /\ held'[p] = {} /\ want'[p] = {} /\ goal'[p] = {} /\ ends'[p] = {}
    BY <1>0, EndFacts
  <1>2. PICK t0 \in Tokens : held[p] = {t0} /\ tok[t0] = "live" /\ goal[p] = {fam[t0]}
    BY <1>0 DEF Rotations
  <1> DEFINE f == fam[t0]
  <1>3. f \in Families /\ f # "none" /\ sess[f] # "none"
    <2>1. fam[t0] # "none"
      BY <1>0, <1>2 DEF RowsLinked
    <2>2. QED
      BY <1>0, <2>1 DEF RowsLinked, TypeOK
  <1>4. n \in Tokens /\ tok[n] = "none" /\ fam[n] = "none" /\ n # t0
    BY <1>0, <1>2, NewTokenUnused DEF RowsLinked
  <1>5. /\ fam' = [fam EXCEPT ![n] = f]
        /\ tok' = [t \in Tokens |-> IF t = n THEN "live" ELSE IF t \in held[p] THEN "rotated" ELSE tok[t]]
        /\ late' = IF sess[f] = "revoked" THEN [late EXCEPT ![f] = @ + 1] ELSE late
        /\ UNCHANGED <<sess, suspended, device, stale, changes, aborts>>
    <2>1. PICK g \in goal[p] :
            /\ Insert(n, g)
            /\ tok' = [t \in Tokens |-> IF t = n THEN "live" ELSE IF t \in held[p] THEN "rotated" ELSE tok[t]]
            /\ late' = IF sess[g] = "revoked" THEN [late EXCEPT ![g] = @ + 1] ELSE late
      BY Zenon DEF RefreshCommit
    <2>2. g = f
      BY <1>2, <2>1
    <2>3. QED
      BY <2>1, <2>2, Zenon DEF RefreshCommit, Insert
  <1> HIDE DEF n
  <1>6. /\ fam' \in [Tokens -> Families \cup {"none"}]
        /\ fam'[n] = f /\ \A t \in Tokens : t # n => fam'[t] = fam[t]
    BY <1>0, <1>3, <1>4, <1>5 DEF TypeOK
  <1>7. /\ tok' \in [Tokens -> {"none", "live", "rotated", "revoked"}]
        /\ tok'[n] = "live" /\ tok'[t0] = "rotated"
        /\ \A t \in Tokens : t # n /\ t # t0 => tok'[t] = tok[t]
    BY <1>0, <1>2, <1>4, <1>5 DEF TypeOK
  <1>8. /\ late' \in [Families -> Nat] /\ (\A g \in Families : g # f => late'[g] = late[g])
        /\ late[f] = 0 /\ (sess[f] = "revoked" => late'[f] = 1) /\ (sess[f] # "revoked" => late'[f] = 0)
    <2>1. late[f] = 0
      BY <1>0, <1>2, <1>3 DEF Late, Sound
    <2>2. QED
      BY <1>0, <1>3, <1>5, <2>1 DEF TypeOK
  <1>9. TypeOK'
    BY <1>0, <1>1, <1>5, <1>6, <1>7, <1>8 DEF TypeOK, ProcTypes
  <1>10. OneLiveToken'
    BY <1>0, <1>2, <1>6, <1>7 DEF OneLiveToken
  <1>11. LiveSessionHasToken'
    <2> SUFFICES ASSUME NEW g \in Families, sess[g] \in {"live", "idle", "over"}
                 PROVE  \E t \in Tokens : fam'[t] = g /\ tok'[t] = "live"
      BY <1>5 DEF LiveSessionHasToken
    <2>1. CASE g = f
      BY <1>4, <1>6, <1>7, <2>1
    <2>2. CASE g # f
      <3>1. PICK t \in Tokens : fam[t] = g /\ tok[t] = "live"
        BY <1>0 DEF LiveSessionHasToken
      <3>2. t # t0 /\ t # n
        BY <2>2, <3>1, <1>4
      <3>3. QED
        BY <1>6, <1>7, <3>1, <3>2
    <2>3. QED
      BY <2>1, <2>2
  <1>12. RowsLinked'
    BY <1>0, <1>2, <1>3, <1>5, <1>6, <1>7 DEF RowsLinked
  <1>13. Locks'
    BY <1>0, <1>1 DEF Locks, Others
  <1>14. \A q \in Procs : q # p => t0 \notin held[q]
    BY <1>0, <1>2 DEF Locks
  <1>15. Rotations'
    <2> SUFFICES ASSUME NEW q \in Procs, pc'[q] \in {"check", "write"}
                 PROVE  \E t \in Tokens : held'[q] = {t} /\ tok'[t] = "live" /\ goal'[q] = {fam'[t]}
      BY DEF Rotations
    <2>1. q # p /\ pc'[q] = pc[q] /\ held'[q] = held[q] /\ goal'[q] = goal[q]
      BY <1>1 DEF Others
    <2>2. PICK t \in Tokens : held[q] = {t} /\ tok[t] = "live" /\ goal[q] = {fam[t]}
      BY <1>0, <2>1 DEF Rotations
    <2>3. t # t0 /\ t # n
      BY <1>4, <1>14, <2>1, <2>2
    <2>4. QED
      BY <1>6, <1>7, <2>1, <2>2, <2>3
  <1>16. SignIns'
    BY <1>0, <1>1, <1>5 DEF SignIns, Others
  <1>17. Revocations'
    <2> SUFFICES ASSUME NEW q \in Procs, q # p
                 PROVE  /\ \A g \in ends[q] : sess[g] # "none"
                        /\ pc[q] \in {"tokens", "devices", "commit"} =>
                             \A t \in held[q] \cup want[q] : fam'[t] \in goal[q]
                        /\ pc[q] \in {"devices", "commit"} =>
                             \A t \in held[q] : fam'[t] \in ends[q] \/ sess[fam'[t]] = "revoked"
      BY <1>1, <1>5 DEF Revocations, Others
    <2>1. /\ held[q] \subseteq Tokens /\ want[q] \subseteq Tokens /\ "none" \notin goal[q]
      BY <1>0, SessionsAssumption DEF TypeOK
    <2>2. pc[q] \in {"tokens", "devices", "commit"} => n \notin held[q] \cup want[q]
      BY <1>0, <1>4, <2>1 DEF Revocations
    <2>3. QED
      BY <1>0, <1>6, <2>1, <2>2 DEF Revocations
  <1>18. Late'
    <2>1. \A q \in Procs : pc'[q] = "write" => f \notin goal'[q]
      <3> SUFFICES ASSUME NEW q \in Procs, q # p, pc[q] = "write", f \in goal[q] PROVE FALSE
        BY <1>1 DEF Others
      <3>1. PICK t \in Tokens : held[q] = {t} /\ tok[t] = "live" /\ goal[q] = {fam[t]}
        BY <1>0 DEF Rotations
      <3>2. t = t0
        BY <1>0, <1>2, <3>1 DEF OneLiveToken
      <3>3. QED
        BY <1>14, <3>1, <3>2
    <2>2. QED
      BY <1>0, <1>1, <1>5, <1>8, <2>1 DEF Late, Others
  <1>19. RowsLeft'
    <2>1. Unused' = Unused \ {n}
      BY <1>2, <1>7 DEF Unused
    <2>2. QED
      BY <1>0, <1>1, <2>1, RowsLeftUsed DEF n
  <1>20. QED
    BY <1>9, <1>10, <1>11, <1>12, <1>13, <1>15, <1>16, <1>17, <1>18, <1>19 DEF IInv

LEMMA LoginIssueKeeps ==
    ASSUME IInv, NEW p \in Procs, LoginIssue(p) PROVE IInv'
  <1> DEFINE n == NewToken
  <1>0. /\ TypeOK /\ OneLiveToken /\ LiveSessionHasToken /\ RowsLinked /\ Locks /\ Rotations
        /\ SignIns /\ Revocations /\ Late /\ RowsLeft /\ End(p) /\ pc[p] = "verified"
    BY DEF IInv, LoginIssue
  <1>1. /\ ProcTypes' /\ Others(p) /\ pc'[p] = "idle"
        /\ held'[p] = {} /\ want'[p] = {} /\ goal'[p] = {} /\ ends'[p] = {}
    BY <1>0, EndFacts
  <1>2. PICK f \in Families : goal[p] = {f} /\ sess[f] = "none"
    BY <1>0 DEF SignIns
  <1>3. n \in Tokens /\ tok[n] = "none" /\ fam[n] = "none"
    BY <1>0, NewTokenUnused DEF RowsLinked
  <1>4. /\ fam' = [fam EXCEPT ![n] = f] /\ tok' = [tok EXCEPT ![n] = "live"]
        /\ sess' = [sess EXCEPT ![f] = "live"]
        /\ UNCHANGED <<suspended, device, stale, late, changes, aborts>>
    BY <1>2 DEF LoginIssue, Insert
  <1> HIDE DEF n
  <1>5. /\ fam' \in [Tokens -> Families \cup {"none"}]
        /\ fam'[n] = f /\ \A t \in Tokens : t # n => fam'[t] = fam[t]
    BY <1>0, <1>3, <1>4 DEF TypeOK
  <1>6. /\ tok' \in [Tokens -> {"none", "live", "rotated", "revoked"}]
        /\ tok'[n] = "live" /\ \A t \in Tokens : t # n => tok'[t] = tok[t]
    BY <1>0, <1>3, <1>4 DEF TypeOK
  <1>7. /\ sess' \in [Families -> States]
        /\ sess'[f] = "live" /\ \A g \in Families : g # f => sess'[g] = sess[g]
    BY <1>0, <1>4 DEF TypeOK, States
  <1>8. \A t \in Tokens : fam[t] # f
    BY <1>0, <1>2, SessionsAssumption DEF RowsLinked
  <1>9. TypeOK'
    BY <1>0, <1>1, <1>4, <1>5, <1>6, <1>7 DEF TypeOK, ProcTypes
  <1>10. OneLiveToken'
    BY <1>0, <1>5, <1>6, <1>8 DEF OneLiveToken
  <1>11. LiveSessionHasToken'
    <2> SUFFICES ASSUME NEW g \in Families, sess'[g] \in {"live", "idle", "over"}
                 PROVE  \E t \in Tokens : fam'[t] = g /\ tok'[t] = "live"
      BY DEF LiveSessionHasToken
    <2>1. CASE g = f
      BY <1>3, <1>5, <1>6, <2>1
    <2>2. CASE g # f
      <3>1. PICK t \in Tokens : fam[t] = g /\ tok[t] = "live"
        BY <1>0, <1>7, <2>2 DEF LiveSessionHasToken
      <3>2. QED
        BY <1>3, <1>5, <1>6, <3>1
    <2>3. QED
      BY <2>1, <2>2
  <1>12. RowsLinked'
    BY <1>0, <1>5, <1>6, <1>7, <1>8, SessionsAssumption DEF RowsLinked, TypeOK
  <1>13. Locks'
    BY <1>0, <1>1 DEF Locks, Others
  <1>14. Rotations'
    <2> SUFFICES ASSUME NEW q \in Procs, pc'[q] \in {"check", "write"}
                 PROVE  \E t \in Tokens : held'[q] = {t} /\ tok'[t] = "live" /\ goal'[q] = {fam'[t]}
      BY DEF Rotations
    <2>1. q # p /\ pc'[q] = pc[q] /\ held'[q] = held[q] /\ goal'[q] = goal[q]
      BY <1>1 DEF Others
    <2>2. PICK t \in Tokens : held[q] = {t} /\ tok[t] = "live" /\ goal[q] = {fam[t]}
      BY <1>0, <2>1 DEF Rotations
    <2>3. QED
      BY <1>3, <1>5, <1>6, <2>1, <2>2
  <1>15. SignIns'
    <2>1. \A q \in Procs : q # p /\ pc[q] = "verified" => f \notin goal[q]
      BY <1>0, <1>2 DEF SignIns
    <2>2. \A q \in Procs : q # p /\ pc[q] = "verified" =>
             kind[q] = "login" /\ \E g \in Families : goal[q] = {g} /\ sess'[g] = "none"
      BY <1>0, <1>7, <2>1 DEF SignIns
    <2>3. QED
      BY <1>0, <1>1, <2>2 DEF SignIns, Others
  <1>16. Revocations'
    <2> SUFFICES ASSUME NEW q \in Procs, q # p
                 PROVE  /\ \A g \in ends[q] : sess'[g] # "none"
                        /\ pc[q] \in {"tokens", "devices", "commit"} =>
                             \A t \in held[q] \cup want[q] : fam'[t] \in goal[q]
                        /\ pc[q] \in {"devices", "commit"} =>
                             \A t \in held[q] : fam'[t] \in ends[q] \/ sess'[fam'[t]] = "revoked"
      BY <1>1 DEF Revocations, Others
    <2>1. /\ held[q] \subseteq Tokens /\ want[q] \subseteq Tokens /\ "none" \notin goal[q]
          /\ ends[q] \subseteq Families /\ goal[q] \subseteq Families
      BY <1>0, SessionsAssumption DEF TypeOK
    <2>2. pc[q] \in {"tokens", "devices", "commit"} => n \notin held[q] \cup want[q]
      BY <1>0, <1>3, <2>1 DEF Revocations
    <2>3. \A g \in ends[q] : sess'[g] # "none"
      BY <1>0, <1>7, <2>1 DEF Revocations
    <2>4. pc[q] \in {"tokens", "devices", "commit"} => \A t \in held[q] \cup want[q] : fam'[t] \in goal[q]
      BY <1>0, <1>5, <2>1, <2>2 DEF Revocations
    <2>5. ASSUME pc[q] \in {"devices", "commit"}, NEW t \in held[q]
          PROVE  fam'[t] \in ends[q] \/ sess'[fam'[t]] = "revoked"
      <3>1. fam'[t] = fam[t] /\ fam[t] \in Families /\ fam[t] # f
        BY <1>0, <1>5, <1>8, <2>1, <2>2, <2>4, <2>5
      <3>2. QED
        BY <1>0, <1>7, <2>5, <3>1 DEF Revocations
    <2>6. QED
      BY <2>3, <2>4, <2>5
  <1>17. Late'
    BY <1>0, <1>1, <1>2, <1>4, <1>7 DEF Late, Others
  <1>18. RowsLeft'
    <2>1. Unused' = Unused \ {n}
      BY <1>6 DEF Unused
    <2>2. QED
      BY <1>0, <1>1, <2>1, RowsLeftUsed DEF n
  <1>19. QED
    BY <1>9, <1>10, <1>11, <1>12, <1>13, <1>14, <1>15, <1>16, <1>17, <1>18 DEF IInv

-----------------------------------------------------------------------------
LEMMA ArriveKeeps == ASSUME IInv, NEW p \in Procs, Arrive(p) PROVE IInv'
  <1>0. /\ changes \in 0..MaxChanges /\ (Change => changes' \in 0..MaxChanges)
    BY SessionsAssumption DEF IInv, TypeOK, Change
  <1>1. Families \in SUBSET Families
    OBVIOUS
  <1>2. CASE \E t \in Tokens : RefreshLock(p, t)
    BY <1>2, RefreshLockKeeps
  <1>3. CASE \E f \in Families : LoginVerify(p, f)
    BY <1>3, LoginVerifyKeeps
  <1>4. CASE \E f \in Families : Guard(p, f)
    BY <1>4, GuardKeeps
  <1>5. CASE \E f \in Families : RevokeFamily(p, f)
    <2>1. PICK f \in Families : RevokeFamily(p, f)
      BY <1>5
    <2>2. "family" \in Kinds /\ {f} \in SUBSET Families
      BY DEF Kinds
    <2>3. QED
      BY <1>0, <2>1, <2>2, RevokeKeeps DEF RevokeFamily
  <1>7. CASE RevokeUser(p)
    <2>1. "user" \in Kinds
      BY DEF Kinds
    <2>2. QED
      BY <1>0, <1>1, <1>7, <2>1, RevokeKeeps DEF RevokeUser
  <1>8. CASE ChangePassword(p)
    <2>1. "password" \in Kinds
      BY DEF Kinds
    <2>2. QED
      BY <1>0, <1>1, <1>8, <2>1, RevokeKeeps DEF ChangePassword
  <1>9. CASE Suspend(p)
    <2>1. "organisation" \in Kinds
      BY DEF Kinds
    <2>2. QED
      BY <1>0, <1>1, <1>9, <2>1, RevokeKeeps DEF Suspend
  <1>10. QED
    BY <1>2, <1>3, <1>4, <1>5, <1>7, <1>8, <1>9 DEF Arrive

LEMMA StepKeeps == ASSUME IInv, NEW p \in Procs, Step(p) PROVE IInv'
  <1>0. /\ suspended \in BOOLEAN /\ device \in BOOLEAN /\ changes \in 0..MaxChanges /\ aborts \in 0..MaxAborts
        /\ stale \in SUBSET Procs
    BY DEF IInv, TypeOK
  <1>1. CASE RefreshCheck(p)
    BY <1>1, RefreshCheckKeeps
  <1>2. CASE RefreshCommit(p)
    BY <1>2, RefreshCommitKeeps
  <1>3. CASE LoginIssue(p)
    BY <1>3, LoginIssueKeeps
  <1>4. CASE Register(p)
    BY <1>0, <1>4, LeavingKeeps DEF Register, rows
  <1>5. CASE ReuseDetected(p)
    <2>1. "family" \in Kinds /\ goal[p] \in SUBSET Families
      BY DEF Kinds, IInv, TypeOK
    <2>2. QED
      BY <1>0, <1>5, <2>1, RevokeKeeps DEF ReuseDetected
  <1>6. CASE \E t \in Tokens : LockToken(p, t)
    BY <1>6, LockTokenKeeps
  <1>7. CASE RevokeSessions(p)
    BY <1>7, RevokeSessionsKeeps
  <1>8. CASE RevokeDevices(p)
    BY <1>8, RevokeDevicesKeeps
  <1>9. CASE RevokeCommit(p)
    BY <1>9, RevokeCommitKeeps
  <1>10. CASE Victim(p)
    BY <1>0, <1>10, LeavingKeeps DEF Victim, rows
  <1>11. CASE GuardBump(p) \/ GuardPass(p)
    BY <1>11, GuardPassKeeps
  <1>12. CASE GuardConflict(p)
    BY <1>12, GuardConflictKeeps
  <1>13. CASE Visit(p)
    BY <1>0, <1>13, LeavingKeeps DEF Visit, rows
  <1>14. CASE Logout(p) \/ RevokeOthers(p)
    <2>1. /\ {"logout", "others"} \subseteq Kinds
          /\ goal[p] \in SUBSET Families /\ Families \ goal[p] \in SUBSET Families
      BY DEF Kinds, IInv, TypeOK
    <2>2. QED
      BY <1>0, <1>14, <2>1, RevokeKeeps DEF Logout, RevokeOthers
  <1>15. QED
    BY <1>1, <1>2, <1>3, <1>4, <1>5, <1>6, <1>7, <1>8, <1>9, <1>10, <1>11, <1>12, <1>13, <1>14
    DEF Step

LEMMA NextKeeps == IInv /\ [Next]_vars => IInv'
  <1> SUFFICES ASSUME IInv, [Next]_vars PROVE IInv'
    OBVIOUS
  <1>1. CASE \E p \in Procs : Arrive(p)
    BY <1>1, ArriveKeeps
  <1>2. CASE \E p \in Procs : Step(p)
    BY <1>2, StepKeeps
  <1>3. CASE \E p \in Procs : Abort(p)
    <2>1. PICK p \in Procs : Abort(p)
      BY <1>3
    <2>2. aborts' \in 0..MaxAborts /\ stale' \in SUBSET Procs
      BY <2>1, SessionsAssumption DEF Abort, IInv, TypeOK
    <2>3. QED
      BY <2>1, <2>2, LeavingKeeps DEF Abort, IInv, TypeOK, rows
  <1>4. CASE \E f \in Families : Expire(f) \/ PassDeadline(f)
    BY <1>4, ExpireKeeps
  <1>5. CASE Reactivate
    BY <1>5, ReactivateKeeps
  <1>6. CASE UNCHANGED vars
    <2>1. RowsLeft'
      BY <1>6 DEF IInv, vars, rows, procs, RowsLeft, Unused, Inserters
    <2>2. QED
      BY <1>6, <2>1 DEF vars, rows, procs, IInv, TypeOK, OneLiveToken, LiveSessionHasToken,
         RowsLinked, Locks, Rotations, SignIns, Revocations, Late
  <1>7. QED
    BY <1>1, <1>2, <1>3, <1>4, <1>5, <1>6 DEF Next

(* The invariant behind the others holds in every state that requests,     *)
(* aborts and deadlocks of RefreshTokenService reach.                      *)
THEOREM SessionsInductive == Spec => []IInv
  BY InitIInv, NextKeeps, PTL DEF Spec

(* Every variable keeps its type.                                          *)
THEOREM SessionsTypes == Spec => []TypeOK
  <1>1. IInv => TypeOK
    BY DEF IInv
  <1>2. QED
    BY <1>1, SessionsInductive, PTL

(* However many requests rotate and revoke at once, a login never has two  *)
(* refresh tokens that both work (RefreshTokenService.rotate).             *)
THEOREM OneTokenPerLogin == Spec => []OneLiveToken
  <1>1. IInv => OneLiveToken
    BY DEF IInv
  <1>2. QED
    BY <1>1, SessionsInductive, PTL

(* No revocation that fails or races leaves a session without the token    *)
(* that keeps it alive.                                                    *)
THEOREM SessionsKeepTheirToken == Spec => []LiveSessionHasToken
  <1>1. IInv => LiveSessionHasToken
    BY DEF IInv
  <1>2. QED
    BY <1>1, SessionsInductive, PTL

(* Whatever the number of requests under way when a login is revoked, at   *)
(* most one of them mints a token afterwards.                              *)
THEOREM OneSlipsThrough == Spec => []OneRotationSlipsThrough
  <1>1. IInv => OneRotationSlipsThrough
    BY DEF IInv, Late, OneRotationSlipsThrough
  <1>2. QED
    BY <1>1, SessionsInductive, PTL

(* Whatever requests, revocations and deadlines cross, only a guard that   *)
(* began before an idle deadline and was not overtaken by another write of *)
(* the session row undoes that deadline (SessionValidityService).          *)
THEOREM EndedSessionsStayEnded == Spec => EndedStaysEnded
  <1> DEFINE A == \A f \in Families : Ended(f) => Ended(f)'
  <1>1. ASSUME IInv, [Next]_vars PROVE A
    <2>0. TypeOK /\ SignIns
      BY <1>1 DEF IInv
    <2> SUFFICES ASSUME NEW f \in Families, Ended(f) PROVE Ended(f)'
      OBVIOUS
    <2> DEFINE Fresh(p) == p \notin stale /\ pc[p] = "guard" /\ f \in goal[p]
    <2>1. ASSUME sess'[f] = sess[f] \/ sess'[f] \in {"revoked", "over"},
                 sess[f] = "idle" => \A p \in Procs : Fresh(p)' => Fresh(p)
          PROVE  Ended(f)'
      BY <2>1 DEF Ended
    <2>2. ASSUME NEW p \in Procs, LoginIssue(p) PROVE Ended(f)'
      <3>1. PICK g \in Families : goal[p] = {g} /\ sess[g] = "none"
        BY <2>0, <2>2 DEF SignIns, LoginIssue
      <3>2. sess' = [sess EXCEPT ![g] = "live"] /\ End(p) /\ UNCHANGED stale
        BY <2>2, <3>1 DEF LoginIssue
      <3>3. sess'[f] = sess[f]
        BY <2>0, <3>1, <3>2 DEF TypeOK, Ended
      <3>4. QED
        BY <2>0, <2>1, <3>2, <3>3, EndFacts DEF Others
    <2>3. ASSUME NEW p \in Procs, RevokeCommit(p) PROVE Ended(f)'
      BY <2>0, <2>1, <2>3, EndFacts DEF RevokeCommit, Others
    <2>4. ASSUME NEW p \in Procs, GuardBump(p) PROVE Ended(f)'
      <3>1. sess[f] = "idle" => f \notin goal[p]
        BY <2>4 DEF GuardBump, Ended
      <3>2. sess'[f] = sess[f]
        BY <2>4, <3>1 DEF GuardBump, Bump, Bumped
      <3>3. pc' = [pc EXCEPT ![p] = "handle"] /\ goal' = goal /\ stale \ {p} \subseteq stale'
        BY <2>4 DEF GuardBump, Bump, Goto
      <3>4. QED
        BY <2>0, <2>1, <3>2, <3>3 DEF TypeOK
    <2>5. ASSUME NEW p \in Procs, NEW g \in Families, Guard(p, g) PROVE Ended(f)'
      <3>1. sess[f] = "idle" => f # g
        BY <2>5 DEF Guard, Authorises
      <3>2. pc' = [pc EXCEPT ![p] = "guard"] /\ goal' = [goal EXCEPT ![p] = {g}]
        BY <2>5 DEF Guard, Begin
      <3>3. stale' = stale \ {p} /\ sess' = sess
        BY <2>5 DEF Guard, rows
      <3>4. QED
        BY <2>0, <2>1, <3>1, <3>2, <3>3 DEF TypeOK
    <2>6. ASSUME NEW p \in Procs, GuardConflict(p), UNCHANGED <<pc, goal>> PROVE Ended(f)'
      <3>1. CASE End(p)
        BY <2>0, <2>1, <2>6, <3>1, EndFacts DEF GuardConflict, Others, rows
      <3>2. CASE \A g \in goal[p] : Authorises(g)
        <4>1. sess[f] = "idle" => f \notin goal[p]
          BY <3>2 DEF Authorises
        <4>2. QED
          BY <2>1, <2>6, <4>1 DEF GuardConflict, rows
      <3>3. QED
        BY <2>6, <3>1, <3>2 DEF GuardConflict
    <2>7. ASSUME NEW p \in Procs, End(p), sess' = sess, stale \ {p} \subseteq stale' PROVE Ended(f)'
      BY <2>0, <2>1, <2>7, EndFacts DEF Others
    <2>8. ASSUME NEW p \in Procs, NEW s, s # "guard", Goto(p, s), UNCHANGED <<sess, goal>>,
                 stale \ {p} \subseteq stale'
          PROVE  Ended(f)'
      BY <2>0, <2>1, <2>8 DEF Goto, TypeOK
    <2>9. ASSUME NEW p \in Procs, NEW s, NEW k, NEW F, s # "guard", Begin(p, s, k, F),
                 UNCHANGED <<sess, stale>>
          PROVE  Ended(f)'
      BY <2>0, <2>1, <2>9 DEF Begin, TypeOK
    <2>10. CASE UNCHANGED <<pc, goal, stale>> /\ (sess'[f] = sess[f] \/ sess'[f] \in {"revoked", "over"})
      BY <2>1, <2>10
    <2>11. ASSUME NEW p \in Procs, NEW k, NEW F, Revoke(p, k, F) PROVE Ended(f)'
      BY <2>9, <2>11 DEF Revoke, rows
    <2>12. ASSUME NEW p \in Procs, Arrive(p) PROVE Ended(f)'
      <3>1. ASSUME NEW t \in Tokens, RefreshLock(p, t) PROVE Ended(f)'
        BY <2>9, <3>1 DEF RefreshLock, rows
      <3>2. ASSUME NEW g \in Families, LoginVerify(p, g) PROVE Ended(f)'
        BY <2>9, <3>2 DEF LoginVerify, rows
      <3>3. QED
        BY <2>5, <2>11, <2>12, <3>1, <3>2
        DEF Arrive, RevokeFamily, RevokeUser, ChangePassword, Suspend
    <2>13. ASSUME NEW p \in Procs, Step(p) PROVE Ended(f)'
      <3>1. CASE RefreshCheck(p)
        BY <2>7, <2>8, <3>1 DEF RefreshCheck, rows
      <3>2. CASE RefreshCommit(p) \/ Visit(p) \/ Register(p) \/ Victim(p)
        BY <2>7, <3>2 DEF RefreshCommit, Visit, Register, Victim, rows
      <3>3. CASE GuardPass(p)
        BY <2>8, <3>3 DEF GuardPass, rows
      <3>4. CASE GuardConflict(p)
        BY <2>6, <2>7, <3>4 DEF GuardConflict, rows
      <3>5. CASE ReuseDetected(p) \/ Logout(p) \/ RevokeOthers(p)
        BY <2>11, <3>5 DEF ReuseDetected, Logout, RevokeOthers
      <3>6. CASE (\E t \in Tokens : LockToken(p, t))
        BY <2>10, <3>6 DEF LockToken, rows
      <3>7. CASE RevokeSessions(p) \/ RevokeDevices(p)
        BY <2>8, <3>7 DEF RevokeSessions, RevokeDevices, rows
      <3>8. QED
        BY <2>2, <2>3, <2>4, <2>13, <3>1, <3>2, <3>3, <3>4, <3>5, <3>6, <3>7 DEF Step
    <2>14. ASSUME NEW p \in Procs, Abort(p) PROVE Ended(f)'
      BY <2>7, <2>14 DEF Abort, rows
    <2>15. ASSUME NEW g \in Families, Expire(g) \/ PassDeadline(g) PROVE Ended(f)'
      BY <2>0, <2>10, <2>15 DEF Expire, PassDeadline, Ended, TypeOK, procs
    <2>16. CASE Reactivate \/ UNCHANGED vars
      BY <2>10, <2>16 DEF Reactivate, vars, rows, procs
    <2>17. QED
      BY <1>1, <2>12, <2>13, <2>14, <2>15, <2>16 DEF Next
  <1>2. IInv /\ [Next]_vars => [A]_vars
    BY <1>1
  <1>3. QED
    BY <1>2, SessionsInductive, PTL DEF Spec, EndedStaysEnded
=============================================================================
