-------------------------------- MODULE Sessions --------------------------------
(***************************************************************************)
(* The sessions of one user: refresh-token rotation, sign-in, and the ways *)
(* a session ends, as concurrent READ COMMITTED transactions.              *)
(*                                                                         *)
(* A statement is one step.  A transaction's writes are applied when it    *)
(* commits; until then it holds the rows it wrote or locked (held, ends,   *)
(* drop), and a statement that needs one of them waits.  An UPDATE of      *)
(* several rows fixes its rows when it starts (want) and locks them one by *)
(* one: a row committed meanwhile is not among them.  The guard of an      *)
(* authenticated request is the exception, a REPEATABLE READ transaction.  *)
(*                                                                         *)
(* A family is one login; its session row has its id.  Hashes, user agents,*)
(* audit rows and the application target are left out, and so are families *)
(* older than core.user_session, which have no session row.                *)
(***************************************************************************)
EXTENDS Naturals, FiniteSets

CONSTANTS
    Families,     \* logins of the user
    Procs,        \* requests being served at once
    MaxTokens,    \* bound: refresh_token rows
    MaxChanges,   \* bound: password changes and suspensions
    MaxAborts     \* bound: requests that die in the middle

ASSUME SessionsAssumption ==
    /\ MaxTokens \in Nat /\ MaxChanges \in Nat /\ MaxAborts \in Nat
    /\ IsFiniteSet(Procs) /\ "none" \notin Families

VARIABLES
    sess,         \* core.user_session: none, live, revoked, or past a deadline: idle
                  \* (idle_expires_at) or over (absolute_expires_at)
    fam,          \* refresh_token.family_id
    tok,          \* none, live, rotated (replaced_by) or revoked
    suspended,    \* organisation.suspended_at is set
    device,       \* the user's push registration is active
    pc,           \* per request: the statement it is about to run
    kind,         \* per request: what it is for
    goal,         \* per request: the families it is about
    want,         \* per request: rows its UPDATE of refresh_token still has to lock
    held,         \* per request: refresh_token rows it has locked
    ends,         \* per request: user_session rows it has revoked, not yet committed
    drop,         \* per request: it has deactivated the registration
    stale,        \* guards whose session row was written since their snapshot
    late,         \* history: tokens minted in a family after its revocation
    changes, aborts

rows  == <<sess, fam, tok>>
procs == <<pc, kind, goal, want, held, ends, drop>>
vars  == <<rows, suspended, device, procs, stale, late, changes, aborts>>

-----------------------------------------------------------------------------
Tokens == 1..MaxTokens
States == {"none", "live", "idle", "over", "revoked"}
Kinds  == {"refresh", "login", "request", "refused", "family", "logout", "others", "user", "password",
           "organisation"}
Steps  == {"idle", "check", "write", "reuse", "verified", "guard", "handle",
           "tokens", "devices", "commit"}

TypeOK ==
    /\ sess \in [Families -> States]
    /\ fam \in [Tokens -> Families \cup {"none"}]
    /\ tok \in [Tokens -> {"none", "live", "rotated", "revoked"}]
    /\ suspended \in BOOLEAN /\ device \in BOOLEAN
    /\ pc \in [Procs -> Steps] /\ kind \in [Procs -> Kinds]
    /\ goal \in [Procs -> SUBSET Families]
    /\ want \in [Procs -> SUBSET Tokens] /\ held \in [Procs -> SUBSET Tokens]
    /\ ends \in [Procs -> SUBSET Families] /\ drop \in [Procs -> BOOLEAN]
    /\ stale \in SUBSET Procs /\ late \in [Families -> Nat]
    /\ changes \in 0..MaxChanges /\ aborts \in 0..MaxAborts

Init ==
    /\ sess = [f \in Families |-> "none"]
    /\ fam = [t \in Tokens |-> "none"]
    /\ tok = [t \in Tokens |-> "none"]
    /\ suspended = FALSE /\ device = FALSE
    /\ pc = [p \in Procs |-> "idle"] /\ kind = [p \in Procs |-> "refresh"]
    /\ goal = [p \in Procs |-> {}]
    /\ want = [p \in Procs |-> {}] /\ held = [p \in Procs |-> {}]
    /\ ends = [p \in Procs |-> {}] /\ drop = [p \in Procs |-> FALSE]
    /\ stale = {} /\ late = [f \in Families |-> 0]
    /\ changes = 0 /\ aborts = 0

-----------------------------------------------------------------------------
(* Rows and locks                                                          *)

(* Mutant: a token is read without FOR UPDATE.                             *)
NeverLocked(t) == TRUE

FreeToken(t)   == \A q \in Procs : t \notin held[q]
FreeDevice(p)  == \A q \in Procs \ {p} : ~drop[q]

(* The row of core."user" is held by a password change from its first      *)
(* statement on, the row of the organisation by a suspension.              *)
Busy(k) == \E q \in Procs : kind[q] = k /\ pc[q] # "idle"

(* A new row: the bound leaves one to every request that may insert one.   *)
Unused == {t \in Tokens : tok[t] = "none"}
Inserters == {q \in Procs : pc[q] \in {"check", "write", "verified"}}
Room == Cardinality(Unused) > Cardinality(Inserters)
NewToken == CHOOSE t \in Unused : TRUE

(* The new row belongs to the login of the token it succeeds.              *)
Insert(n, f) == fam' = [fam EXCEPT ![n] = f]

(* The request ends; what it held is released.                             *)
End(p) ==
    /\ pc' = [pc EXCEPT ![p] = "idle"] /\ kind' = [kind EXCEPT ![p] = "refresh"]
    /\ goal' = [goal EXCEPT ![p] = {}]
    /\ want' = [want EXCEPT ![p] = {}] /\ held' = [held EXCEPT ![p] = {}]
    /\ ends' = [ends EXCEPT ![p] = {}] /\ drop' = [drop EXCEPT ![p] = FALSE]

(* It begins, at step s.                                                   *)
Begin(p, s, k, F) ==
    /\ pc' = [pc EXCEPT ![p] = s] /\ kind' = [kind EXCEPT ![p] = k]
    /\ goal' = [goal EXCEPT ![p] = F]

Goto(p, s) == pc' = [pc EXCEPT ![p] = s]

-----------------------------------------------------------------------------
(* AuthService.refresh and RefreshTokenService.rotate                      *)

(* The client presents token t, the newest or an older one (a retry whose  *)
(* answer was lost, a copy); its row is locked and read.  A token that was *)
(* rotated or revoked ends this transaction, and the next one revokes the  *)
(* family.                                                                 *)
RefreshLock(p, t) ==
    /\ pc[p] = "idle" /\ tok[t] # "none" /\ FreeToken(t)
    /\ IF tok[t] = "live"
       THEN /\ Room
            /\ Begin(p, "check", "refresh", {fam[t]})
            /\ held' = [held EXCEPT ![p] = {t}]
       ELSE /\ Begin(p, "reuse", "refresh", {fam[t]})
            /\ UNCHANGED held
    /\ UNCHANGED <<rows, suspended, device, want, ends, drop, stale, late,
                   changes, aborts>>

(* Mutant: the session is not looked at.                                   *)
MayRotateRevoked(f) == ~suspended

(* The session, the organisation and the deadlines are read, unlocked.     *)
MayRotate(f) == sess[f] \notin {"revoked", "idle", "over"} /\ ~suspended

RefreshCheck(p) ==
    /\ pc[p] = "check"
    /\ IF \A f \in goal[p] : MayRotate(f)
       THEN Goto(p, "write") /\ UNCHANGED <<kind, goal, want, held, ends, drop>>
       ELSE End(p)
    /\ UNCHANGED <<rows, suspended, device, stale, late, changes, aborts>>

(* The successor is inserted, the presented token marked, and both commit. *)
RefreshCommit(p) ==
    /\ pc[p] = "write"
    /\ \E f \in goal[p], n \in {NewToken} :
          /\ Insert(n, f)
          /\ tok' = [t \in Tokens |-> IF t = n THEN "live"
                                      ELSE IF t \in held[p] THEN "rotated" ELSE tok[t]]
          /\ late' = IF sess[f] = "revoked" THEN [late EXCEPT ![f] = @ + 1] ELSE late
    /\ End(p)
    /\ UNCHANGED <<sess, suspended, device, stale, changes, aborts>>

-----------------------------------------------------------------------------
(* AuthService.login: the credential is verified and the suspension read   *)
(* first; the session is issued in a later transaction, which also writes  *)
(* last_login_at of the user row.                                          *)

LoginVerify(p, f) ==
    /\ pc[p] = "idle" /\ ~suspended /\ Room
    /\ sess[f] = "none" /\ \A q \in Procs : kind[q] = "login" => f \notin goal[q]
    /\ Begin(p, "verified", "login", {f})
    /\ UNCHANGED <<rows, suspended, device, want, held, ends, drop, stale, late,
                   changes, aborts>>

LoginIssue(p) ==
    /\ pc[p] = "verified" /\ ~Busy("password")
    /\ \E f \in goal[p], n \in {NewToken} :
          /\ sess' = [sess EXCEPT ![f] = "live"]
          /\ Insert(n, f) /\ tok' = [tok EXCEPT ![n] = "live"]
    /\ End(p)
    /\ UNCHANGED <<suspended, device, stale, late, changes, aborts>>

-----------------------------------------------------------------------------
(* The guard of an authenticated request (JwtAuthGuard): one REPEATABLE    *)
(* READ transaction, whose now() is its start.  The handler comes later.   *)

(* What assertActive reads on the snapshot.                                *)
Authorises(f) ==
    /\ sess[f] \notin {"none", "revoked", "idle", "over"}
    /\ \E t \in Tokens : fam[t] = f /\ tok[t] = "live"

(* OrganisationSuspendedGuard: the suspension is read on the snapshot, too,*)
(* and refuses the request after the bump, unless it is a logout.          *)
Admitted == IF suspended THEN "refused" ELSE "request"

Guard(p, f) ==
    /\ pc[p] = "idle" /\ Authorises(f)
    /\ Begin(p, "guard", Admitted, {f})
    /\ stale' = stale \ {p}
    /\ UNCHANGED <<rows, suspended, device, want, held, ends, drop, late,
                   changes, aborts>>

(* The guards under way whose snapshot no longer has the rows of F.        *)
Overtaken(F) == {q \in Procs : pc[q] = "guard" /\ goal[q] \cap F # {}}

(* The bump of last_seen_at moves idle_expires_at on from the start of the *)
(* transaction, never beyond absolute_expires_at (LEAST): the idle         *)
(* deadline may have passed since the snapshot.  revoked_at is not written.*)
Bumped(s) == IF s = "idle" THEN "live" ELSE s

Bump(p) ==
    /\ \A q \in Procs : ends[q] \cap goal[p] = {}
    /\ sess' = [f \in Families |-> IF f \in goal[p] THEN Bumped(sess[f]) ELSE sess[f]]
    /\ stale' = (stale \cup Overtaken(goal[p])) \ {p}
    /\ Goto(p, "handle")
    /\ UNCHANGED <<fam, tok, suspended, device, kind, goal, want, held, ends, drop,
                   late, changes, aborts>>

(* Mutant: the guard runs READ COMMITTED and finds no conflict.            *)
GuardReadCommitted(p) == pc[p] = "guard" /\ Bump(p)

(* The row is as the snapshot has it: the UPDATE succeeds and commits.     *)
GuardBump(p) == pc[p] = "guard" /\ p \notin stale /\ Bump(p)

(* Nothing to write: seen less than five minutes ago, or polling.          *)
GuardPass(p) ==
    /\ pc[p] = "guard" /\ Goto(p, "handle")
    /\ stale' = stale \ {p}
    /\ UNCHANGED <<rows, suspended, device, kind, goal, want, held, ends, drop,
                   late, changes, aborts>>

(* SQLSTATE 40001: once more on a new snapshot, or the request fails: it   *)
(* is refused, or this was the third attempt.                              *)
GuardConflict(p) ==
    /\ pc[p] = "guard" /\ p \in stale
    /\ stale' = stale \ {p}
    /\ \/ /\ \A f \in goal[p] : Authorises(f)
          /\ kind' = [kind EXCEPT ![p] = Admitted]
          /\ UNCHANGED <<pc, goal, want, held, ends, drop>>
       \/ End(p)
    /\ UNCHANGED <<rows, suspended, device, late, changes, aborts>>

(* The request is refused, or its handler changes nothing here.            *)
Visit(p) ==
    /\ pc[p] = "handle" /\ End(p)
    /\ UNCHANGED <<rows, suspended, device, stale, late, changes, aborts>>

(* No activity until idle_expires_at.                                      *)
Expire(f) ==
    /\ sess[f] = "live"
    /\ sess' = [sess EXCEPT ![f] = "idle"]
    /\ UNCHANGED <<fam, tok, suspended, device, procs, stale, late, changes, aborts>>

(* The session reaches absolute_expires_at, which nothing moves.           *)
PassDeadline(f) ==
    /\ sess[f] \in {"live", "idle"}
    /\ sess' = [sess EXCEPT ![f] = "over"]
    /\ UNCHANGED <<fam, tok, suspended, device, procs, stale, late, changes, aborts>>

(* PushDeviceService.register, authorised by the guard, writes.            *)
Register(p) ==
    /\ pc[p] = "handle" /\ kind[p] = "request" /\ FreeDevice(p)
    /\ device' = TRUE
    /\ End(p)
    /\ UNCHANGED <<rows, suspended, stale, late, changes, aborts>>

-----------------------------------------------------------------------------
(* revokeFamily, revokeAllForUser, revokeAllForUserExcept and              *)
(* revokeAllForOrganisation: their UPDATE of refresh_token starts.  Only   *)
(* the last one leaves out rows already revoked.                           *)
Revoke(p, k, F) ==
    /\ Begin(p, "tokens", k, F)
    /\ want' = [want EXCEPT ![p] = {t \in Tokens : fam[t] \in F
                                     /\ (k = "organisation" => tok[t] = "live")}]
    /\ UNCHANGED <<rows, suspended, device, held, ends, drop, stale, late, aborts>>

Change == changes < MaxChanges /\ changes' = changes + 1

(* A device signed out from the list, a superseded web session, a logout   *)
(* that names no push device.                                              *)
RevokeFamily(p, f) ==
    pc[p] = "idle" /\ sess[f] # "none" /\ Revoke(p, "family", {f}) /\ UNCHANGED changes

(* A logout that names its push device; a suspension does not refuse it.   *)
Logout(p) ==
    pc[p] = "handle" /\ Revoke(p, "logout", goal[p]) /\ UNCHANGED changes

(* Mutant: the reuse is refused and the session left alone.                *)
ReuseRefused(p) ==
    /\ pc[p] = "reuse" /\ End(p)
    /\ UNCHANGED <<rows, suspended, device, stale, late, changes, aborts>>

ReuseDetected(p) ==
    pc[p] = "reuse" /\ Revoke(p, "family", goal[p]) /\ UNCHANGED changes

RevokeOthers(p) ==
    /\ pc[p] = "handle" /\ kind[p] = "request"
    /\ Revoke(p, "others", Families \ goal[p]) /\ UNCHANGED changes

RevokeUser(p) == pc[p] = "idle" /\ Revoke(p, "user", Families) /\ UNCHANGED changes

(* setPassword, resetPassword.                                             *)
ChangePassword(p) ==
    pc[p] = "idle" /\ ~Busy("password") /\ Change /\ Revoke(p, "password", Families)

Suspend(p) ==
    /\ pc[p] = "idle" /\ ~suspended /\ ~Busy("organisation") /\ Change
    /\ Revoke(p, "organisation", Families)

Reactivate ==
    /\ suspended /\ suspended' = FALSE
    /\ UNCHANGED <<rows, device, procs, stale, late, changes, aborts>>

LockToken(p, t) ==
    /\ pc[p] = "tokens" /\ t \in want[p] /\ FreeToken(t)
    /\ want' = [want EXCEPT ![p] = @ \ {t}]
    /\ held' = [held EXCEPT ![p] = @ \cup {t}]
    /\ UNCHANGED <<rows, suspended, device, pc, kind, goal, ends, drop,
                   stale, late, changes, aborts>>

(* Mutant: a session past its deadline is not revoked.                     *)
LiveSessions(p) == {f \in goal[p] : sess[f] = "live"}

(* The sessions with revoked_at IS NULL.                                   *)
OpenSessions(p) == {f \in goal[p] : sess[f] \in {"live", "idle", "over"}}

(* The UPDATE of user_session, on a snapshot of its own.                   *)
RevokeSessions(p) ==
    /\ pc[p] = "tokens" /\ want[p] = {}
    /\ \A q \in Procs : ends[q] \cap OpenSessions(p) = {}
    /\ ends' = [ends EXCEPT ![p] = OpenSessions(p)]
    /\ Goto(p, IF kind[p] = "others" THEN "commit" ELSE "devices")
    /\ UNCHANGED <<rows, suspended, device, kind, goal, want, held, drop,
                   stale, late, changes, aborts>>

(* deactivatePushDevicesIfNoLiveSession sees the sessions this transaction *)
(* revoked and what others have committed; the other deactivations, the    *)
(* one of a device the client names included, do not look.                 *)
NoLiveSession(p) == \A f \in Families \ ends[p] : sess[f] # "live"

RevokeDevices(p) ==
    /\ pc[p] = "devices"
    /\ LET go == device /\ (kind[p] = "family" => NoLiveSession(p)) IN
          /\ go => FreeDevice(p)
          /\ drop' = [drop EXCEPT ![p] = go]
    /\ Goto(p, "commit")
    /\ UNCHANGED <<rows, suspended, device, kind, goal, want, held, ends,
                   stale, late, changes, aborts>>

RevokeCommit(p) ==
    /\ pc[p] = "commit"
    /\ tok' = [t \in Tokens |-> IF t \in held[p] /\ tok[t] = "live" THEN "revoked" ELSE tok[t]]
    /\ sess' = [f \in Families |-> IF f \in ends[p] THEN "revoked" ELSE sess[f]]
    /\ device' = (device /\ ~drop[p])
    /\ suspended' = (suspended \/ kind[p] = "organisation")
    /\ stale' = stale \cup Overtaken(ends[p])
    /\ End(p)
    /\ UNCHANGED <<fam, late, changes, aborts>>

-----------------------------------------------------------------------------
(* The process dies and its transaction rolls back.                        *)
Abort(p) ==
    /\ pc[p] # "idle" /\ aborts < MaxAborts
    /\ aborts' = aborts + 1 /\ stale' = stale \ {p}
    /\ End(p)
    /\ UNCHANGED <<rows, suspended, device, late, changes>>

(* Two UPDATEs that lock the same rows in different orders: PostgreSQL     *)
(* ends one of them.                                                       *)
Victim(p) ==
    /\ \E q \in Procs : want[p] \cap held[q] # {} /\ want[q] \cap held[p] # {}
    /\ End(p)
    /\ UNCHANGED <<rows, suspended, device, stale, late, changes, aborts>>

Step(p) ==
    \/ RefreshCheck(p) \/ RefreshCommit(p) \/ LoginIssue(p) \/ ReuseDetected(p)
    \/ GuardBump(p) \/ GuardPass(p) \/ GuardConflict(p)
    \/ Visit(p) \/ Register(p) \/ Logout(p) \/ RevokeOthers(p)
    \/ \E t \in Tokens : LockToken(p, t)
    \/ RevokeSessions(p) \/ RevokeDevices(p) \/ RevokeCommit(p) \/ Victim(p)

Arrive(p) ==
    \/ \E t \in Tokens : RefreshLock(p, t)
    \/ \E f \in Families : LoginVerify(p, f) \/ Guard(p, f) \/ RevokeFamily(p, f)
    \/ RevokeUser(p) \/ ChangePassword(p) \/ Suspend(p)

Next ==
    \/ \E p \in Procs : Arrive(p) \/ Step(p) \/ Abort(p)
    \/ \E f \in Families : Expire(f) \/ PassDeadline(f)
    \/ Reactivate

(* A request that is being served goes on, and PostgreSQL grants a row lock *)
(* in the order of arrival, so none waits for ever while others come and   *)
(* go; nobody is forced to send one.                                       *)
Spec     == Init /\ [][Next]_vars
FairSpec == Spec /\ \A p \in Procs : SF_vars(Step(p))

-----------------------------------------------------------------------------
(* Properties                                                              *)

(* Concurrent refreshes of one token, or a refresh beside a revocation,    *)
(* never leave a family with two tokens that both work: the lock of        *)
(* RefreshTokenService.rotate and the mark of the presented token.         *)
OneLiveToken ==
    \A s, t \in Tokens : tok[s] = "live" /\ tok[t] = "live" /\ fam[s] = fam[t] => s = t

(* A session that is listed as usable has a token that keeps it alive: no  *)
(* transaction revokes the tokens of a session and leaves the session.     *)
LiveSessionHasToken ==
    \A f \in Families : sess[f] \in {"live", "idle", "over"} =>
        \E t \in Tokens : fam[t] = f /\ tok[t] = "live"

(* The UPDATE of revokeFamily does not see a successor that a concurrent   *)
(* rotation inserts, and the rotation does not see the revocation.  What   *)
(* slips through is one rotation: the one that had read the session before *)
(* the revocation committed.                                               *)
OneRotationSlipsThrough == \A f \in Families : late[f] <= 1

(* The session is over for good: revoked, past its absolute deadline, or   *)
(* idle with no guard under way that saw it in time and the row as it is.  *)
Ended(f) ==
    \/ sess[f] \in {"revoked", "over"}
    \/ sess[f] = "idle" /\ ~ \E p \in Procs \ stale : pc[p] = "guard" /\ f \in goal[p]

(* "A dead session is never bumped" (session-validity.service.ts:91-93).   *)
(* What can undo an idle expiry is a guard that began before it and that   *)
(* no other write of the row overtook; the bump of one such guard takes    *)
(* the chance from all the others, and no later request gets one.          *)
EndedStaysEnded == [][\A f \in Families : Ended(f) => Ended(f)']_vars

(* A refresh token presented a second time ends its session, unless a      *)
(* request died on the way or revocations deadlock one another for ever:   *)
(* the revocation of refresh() runs in a transaction of its own, after the *)
(* one that detected the reuse, and may lose to another that ends the same *)
(* session.                                                                *)
ReuseEndsSession ==
    \/ []<><<\E p \in Procs : Victim(p)>>_vars
    \/ \A p \in Procs, f \in Families :
          (pc[p] = "reuse" /\ f \in goal[p]) ~> (sess[f] = "revoked" \/ aborts > 0)

(* What push-device-deactivation.ts says of a revocation: once the account *)
(* has no session left, its registrations are gone.  Checked while nothing *)
(* is in flight.                                                           *)
DevicesEndWithSessions ==
    (\A p \in Procs : pc[p] = "idle") /\ (\A f \in Families : sess[f] \in {"none", "revoked"})
        => ~device
================================================================================
