---------------------------- MODULE IdentityService ----------------------------
(***************************************************************************)
(* The identity provider of internal/relay/identity/provider.go over its   *)
(* two databases, the session registry and the audit ledger, which share   *)
(* no transaction; and the recovery of both by RestoreCoordinator          *)
(* (internal/relay/runtime/recovery.go).  A request is a sequence of       *)
(* transactions on one database or the other, interleaved with the other   *)
(* requests, with crashes and restarts, and with a wall clock that may be  *)
(* set back.  An answer of a database can be lost: the transaction then    *)
(* took effect or did not, and its caller sees an error.                   *)
(***************************************************************************)
EXTENDS SessionRegistry, AuditTrail

CONSTANTS
  Request,        \* calls of the provider, each made once
  Revocation,     \* operation IDs of revocations
  MaxLifetime,    \* maxSessionLifetime
  ProofSkew,      \* how far ahead of the relay's clock a proof may be dated
  MaxAttempts,    \* maxGenerationAttempts
  MaxTime,        \* bound on the clock
  MaxFault,       \* bound on lost answers, crashes and clock setbacks together
  MaxBackupTime,  \* bound on the clock in behaviours with a backup
  MaxManifest,    \* bound on the number of recovery manifests
  SetBack         \* the amounts by which the clock is ever set back

ASSUME ServiceAssumption ==
  /\ MaxLifetime \in Nat \ {0}
  /\ ProofSkew \in Nat
  /\ MaxAttempts \in Nat \ {0}
  /\ MaxTime \in Nat /\ MaxFault \in Nat \ {0} /\ MaxBackupTime \in 0..MaxTime /\ MaxManifest \in Nat
  /\ SetBack \subseteq Nat

\* Operation IDs are never shared by a revocation and another request.
ASSUME OperationsDistinct == (Session \cup Request) \cap Revocation = {}

VARIABLES
  now,        \* the wall clock
  db,         \* the registry
  trail,      \* the audit ledger
  opened,     \* the databases the process has open
  unfenced,   \* the databases restored from a backup and not yet fenced
  owed,       \* whether the registry was restored and not yet completed
  iat,        \* iat[p]: {} or the time proof p is dated
  req,        \* req[r]: {} or the one state of request r
  backup,     \* {} or the backup of both databases
  manifests,  \* the signed recovery manifests
  recovery,   \* {} or the state of the running recovery
  faults, era \* faults and restores so far

vars == <<now, db, trail, opened, unfenced, owed, iat, req, backup, manifests,
          recovery, faults, era>>

requestVars == <<now, opened, unfenced, owed, backup, manifests, recovery, era>>

Both == {"identity", "audit"}

Up == opened = Both

\* The record of an operation.  Its time is kept where a retry can change it.
Recovered(n) == <<"restore", n>>

ClockReceipt == <<"clock", 0>>

KeyInstalled == <<"key", 0>>

Operation == Session \cup Request \cup Revocation
               \cup {<<"collision", r>> : r \in Request}
               \cup {Recovered(n) : n \in 1..MaxManifest} \cup {KeyInstalled}

Record == [op: Operation, at: Nat,
           what: {"allow", "deny", "unavailable", "collision", "revoked", "restored", "installed"}]

Entry(op, what) == [op |-> op, what |-> what, at |-> 0]

Manifest == [ref: Nat, backup: Nat, size: Nat, high: Nat,
             floors: [Principal -> Nat]]

\* What is known of a request: the step it is at, how it ended, and the
\* session and the proof it is about.
State == [step: {"reserve", "collision", "audit_allow", "activate", "authenticate",
                 "audit_admit", "fail", "revoke", "audit_revoke", "end"},
          answer: {"none", "issued", "admitted", "denied", "unavailable", "revoked"},
          op: Operation, what: {"none", "deny", "unavailable"},
          session: SUBSET Session, principal: SUBSET Principal,
          proof: SUBSET Proof, expires: Nat, epoch: Nat, attempt: 1..MaxAttempts,
          reserved: BOOLEAN, era: Nat]

TypeOK ==
  /\ now \in Nat
  /\ db \in Database(Operation \cup {ClockReceipt}, 1..MaxManifest, Revocation)
  /\ \A s \in Session : \A r \in db.sessions[s] : WellFormedRow(r)
  /\ trail \in Trail(Record, 1..MaxManifest, Operation)
  /\ opened \subseteq Both /\ unfenced \subseteq Both /\ owed \in BOOLEAN
  /\ iat \in [Proof -> SUBSET Nat]
  /\ req \in [Request -> SUBSET State]
  /\ manifests \subseteq Manifest

Init ==
  /\ now = 0
  /\ db = NewDatabase(0)
  /\ trail = [NewTrail EXCEPT !.records = {Entry(KeyInstalled, "installed")}]
  /\ opened = Both /\ unfenced = {} /\ owed = FALSE
  /\ iat = [p \in Proof |-> {}]
  /\ req = [r \in Request |-> {}]
  /\ backup = {} /\ manifests = {} /\ recovery = {}
  /\ faults = 0 /\ era = 0

(***************************************************************************)
(* Transactions                                                            *)
(***************************************************************************)
\* One fault is left for after the restore.
FaultBound == IF era = 0 THEN MaxFault - 1 ELSE MaxFault

Fault == faults < FaultBound /\ faults' = faults + 1

Lost(res) == Fault /\ res = "unavailable"

RegistryTx(tx, res) ==
  /\ \/ res = tx.res /\ db' = tx.db /\ UNCHANGED faults
     \/ Lost(res) /\ db' \in {db, tx.db}
  /\ UNCHANGED trail

TrailTx(tx, res) ==
  /\ \/ res = tx.res /\ trail' = tx.ledger /\ UNCHANGED faults
     \/ Lost(res) /\ trail' \in {trail, tx.ledger}
  /\ UNCHANGED db

RegistryAnswer == {"ok", "again", "fenced", "rollback", "invalid", "conflict",
                   "exhausted", "replay", "not_found", "unavailable"}

TrailAnswer == {"ok", "conflict", "unavailable"}

(***************************************************************************)
(* Requests                                                                *)
(***************************************************************************)
Become(r, q) == req' = [req EXCEPT ![r] = {q}] /\ UNCHANGED <<requestVars, iat>>

Goto(r, q, step) == Become(r, [q EXCEPT !.step = step])

End(r, q, answer) ==
  Become(r, [q EXCEPT !.step = "end", !.answer = answer, !.expires = 0, !.attempt = 1])

Blank(r) ==
  [step |-> "end", answer |-> "none", op |-> r, what |-> "none", session |-> {},
   principal |-> {}, proof |-> {}, expires |-> 0, epoch |-> 0, attempt |-> 1,
   reserved |-> FALSE, era |-> era]

\* The failure record is written before the caller hears of the failure.
Failing(r, op, what) == [Blank(r) EXCEPT !.step = "fail", !.op = op, !.what = what]

Fail(r, op, what) == Become(r, Failing(r, op, what))

Begin(r, q) ==
  /\ Up
  /\ req[r] = {}
  /\ req' = [req EXCEPT ![r] = {q}]
  /\ UNCHANGED <<requestVars, db, trail, faults>>

\* The DPoP verifier accepts the date of a proof by the wall clock.  A proof
\* is dated when it is first presented, by a clock that may be ahead, and may
\* be presented again later.
Fresh(t) == t <= now + ProofSkew /\ t >= now - ProofWindow

Present(p, t) ==
  /\ IF iat[p] = {} THEN t \in now..(now + ProofSkew) ELSE iat[p] = {t}
  /\ iat' = [iat EXCEPT ![p] = {t}]

Verified(r, q, p, t) ==
  /\ Present(p, t)
  /\ Begin(r, IF Fresh(t) THEN q ELSE Failing(r, r, "deny"))

\* A token or a proof that is refused for any other reason, or that cannot be
\* verified for want of keys.
VerificationFails(r, what) ==
  /\ Begin(r, Failing(r, r, what))
  /\ UNCHANGED iat

Bootstrap(r, a, p, t, e) ==
  /\ e \in (now + 1)..(now + MaxLifetime)
  /\ Verified(r, [Blank(r) EXCEPT !.step = "reserve", !.principal = {a}, !.proof = {p},
                                  !.expires = e], p, t)

\* The token was given to the client.
Issued(s) == \E r \in Request : \E q \in req[r] : q.answer = "issued" /\ q.session = {s}

AuthenticateRequest(r, s, p, t) ==
  /\ Issued(s)
  /\ Verified(r, [Blank(r) EXCEPT !.step = "authenticate", !.session = {s}, !.proof = {p}], p, t)

\* An administrator revokes a session, or retries the revocation.
RevokeRequest(r, s, o) ==
  /\ Up
  /\ db.sessions[s] # {}
  /\ \A q \in req[r] : q.step = "end" /\ q.op = o /\ q.session = {s} /\ q.answer # "revoked"
  /\ Become(r, [Blank(r) EXCEPT !.step = "revoke", !.session = {s}, !.op = o])
  /\ UNCHANGED <<db, trail, faults>>

RegistryFailure(r, op, res) ==
  Fail(r, op, IF res \in {"replay", "not_found", "conflict"} THEN "deny" ELSE "unavailable")

\* Generated material is new, unless it collides with a stored session.
Generated(s) == \/ db.sessions[s] # {}
                \/ \A r \in Request : \A q \in req[r] : q.op # s

ReserveStep(r, q, s) ==
  /\ q.step = "reserve"
  /\ Generated(s)
  /\ \E a \in q.principal, p \in q.proof : \E t \in iat[p], res \in RegistryAnswer :
       /\ RegistryTx(ReserveBootstrap(db, now, [session |-> s, principal |-> a, proof |-> p,
                                                iat |-> t, expires |-> q.expires]), res)
       /\ \/ /\ res = "ok"
             /\ Become(r, [q EXCEPT !.step = "audit_allow", !.op = s, !.session = {s},
                                    !.epoch = db'.epochs[a], !.reserved = TRUE])
          \/ res = "conflict" /\ Goto(r, q, "collision")
          \/ res \notin {"ok", "conflict"} /\ RegistryFailure(r, s, res)

\* A collision is recorded before new material is drawn.
CollisionStep(r, q) ==
  /\ q.step = "collision"
  /\ \E res \in TrailAnswer :
       /\ TrailTx(Append(trail, Entry(<<"collision", r>>, "collision")), res)
       /\ \/ res # "ok" /\ End(r, q, "unavailable")
          \/ /\ res = "ok" /\ q.attempt < MaxAttempts
             /\ Become(r, [q EXCEPT !.step = "reserve", !.attempt = @ + 1])
          \/ res = "ok" /\ q.attempt = MaxAttempts /\ Fail(r, r, "unavailable")

AuditAllowStepIgnoringAnswer(r, q) ==
  /\ q.step = "audit_allow"
  /\ \E res \in TrailAnswer :
       /\ TrailTx(Append(trail, Entry(q.op, "allow")), res)
       /\ Goto(r, q, "activate")

AuditAllowStep(r, q) ==
  /\ q.step = "audit_allow"
  /\ \E res \in TrailAnswer :
       /\ TrailTx(Append(trail, Entry(q.op, "allow")), res)
       /\ IF res = "ok" THEN Goto(r, q, "activate") ELSE End(r, q, "unavailable")

\* The token leaves the provider only after the activation was answered.
ActivateStep(r, q) ==
  /\ q.step = "activate"
  /\ \E s \in q.session, res \in RegistryAnswer :
       /\ RegistryTx(ActivateBootstrap(db, now, s, q.op), res)
       /\ End(r, q, IF res = "ok" THEN "issued" ELSE "unavailable")

AuthenticateStep(r, q) ==
  /\ q.step = "authenticate"
  /\ \E s \in q.session, p \in q.proof : \E t \in iat[p], res \in RegistryAnswer :
       /\ RegistryTx(Authenticate(db, now, s, p, t), res)
       /\ \/ res = "ok" /\ Become(r, [q EXCEPT !.step = "audit_admit", !.reserved = TRUE])
          \/ res # "ok" /\ RegistryFailure(r, r, res)

AuditAdmitStep(r, q) ==
  /\ q.step = "audit_admit"
  /\ \E res \in TrailAnswer :
       /\ TrailTx(Append(trail, Entry(r, "allow")), res)
       /\ End(r, q, IF res = "ok" THEN "admitted" ELSE "unavailable")

FailStepUnrecorded(r, q) ==
  /\ q.step = "fail"
  /\ End(r, q, IF q.what = "deny" THEN "denied" ELSE "unavailable")
  /\ UNCHANGED <<db, trail, faults>>

FailStep(r, q) ==
  /\ q.step = "fail"
  /\ \E res \in TrailAnswer :
       /\ TrailTx(Append(trail, Entry(q.op, q.what)), res)
       /\ End(r, q, IF res = "ok" /\ q.what = "deny" THEN "denied" ELSE "unavailable")

RevokeStep(r, q) ==
  /\ q.step = "revoke"
  /\ \E s \in q.session, res \in RegistryAnswer :
       /\ RegistryTx(Revoke(db, now, s, q.op), res)
       /\ IF res \in {"ok", "again"} THEN Goto(r, q, "audit_revoke") ELSE End(r, q, "unavailable")

AuditRevokeStep(r, q) ==
  /\ q.step = "audit_revoke"
  /\ \E res \in TrailAnswer :
       /\ TrailTx(Append(trail, [op |-> q.op, what |-> "revoked", at |-> now]), res)
       /\ End(r, q, IF res = "ok" THEN "revoked" ELSE "unavailable")

(***************************************************************************)
(* The registry's own maintenance                                          *)
(***************************************************************************)
\* Nobody acts on the answer, so that it makes no difference if it is lost.
Maintain(tx) ==
  /\ Up
  /\ db' = tx.db
  /\ UNCHANGED <<requestVars, iat, req, trail, faults>>

\* Bound: once there is a backup, a pass with nothing to do, which only
\* observes the clock, is left to the requests.
ObservesAlone == backup = {}

Cleanup ==
  \E X \in SUBSET db.proofs :
    /\ X # {} \/ ObservesAlone
    /\ FirstDeletable(Observed(db, now), X)
    /\ Maintain(CleanupProofs(db, now, X))

ExpiryLoop ==
  \E S \in SUBSET Session :
    /\ S # {} \/ ObservesAlone
    /\ FirstDue(Observed(db, now), S)
    /\ Maintain(ExpireDue(db, now, S))

ClockRecovery ==
  /\ db.fence = "clock_fenced"
  /\ \E t \in db.high..MaxTime : Maintain(RecoverClock(db, t, ClockReceipt))

Tick ==
  /\ now < (IF backup = {} THEN MaxTime ELSE MaxBackupTime)
  /\ now' = now + 1
  /\ UNCHANGED <<db, trail, opened, unfenced, owed, iat, req, backup, manifests, recovery,
                 faults, era>>

SetClockBack ==
  /\ Fault
  /\ \E d \in SetBack : d <= now /\ now' = now - d
  /\ UNCHANGED <<db, trail, opened, unfenced, owed, iat, req, backup, manifests, recovery, era>>

(***************************************************************************)
(* Backups, crashes and restarts                                           *)
(***************************************************************************)
Idle == \A r \in Request : \A q \in req[r] : q.step = "end"

\* Writes are frozen while both files are copied.
Backup ==
  /\ Up /\ Idle
  /\ backup = {} /\ now <= MaxBackupTime
  /\ db.fence = "admitted" /\ trail.fence = "admitted"
  /\ backup' = {[db |-> db, trail |-> trail]}
  /\ UNCHANGED <<now, db, trail, opened, unfenced, owed, iat, req, manifests, recovery,
                 faults, era>>

\* A manifest for the backup, with the registry's snapshot of the moment.
CreateManifest ==
  /\ Up
  /\ Cardinality(manifests) < MaxManifest
  /\ db.fence = "admitted" /\ trail.fence = "admitted"
  /\ \E b \in backup :
       manifests' = manifests \cup
         {[ref |-> Cardinality(manifests) + 1, backup |-> 1, size |-> Cardinality(b.trail.records),
           high |-> Snapshot(db).high, floors |-> Snapshot(db).floors]}
  /\ UNCHANGED <<now, db, trail, opened, unfenced, owed, iat, req, backup, recovery,
                 faults, era>>

\* The process stops: requests and a running recovery are lost.
Crash ==
  /\ Fault
  /\ opened # {}
  /\ opened' = {} /\ recovery' = {}
  /\ req' = [r \in Request |-> {[q EXCEPT !.step = "end"] : q \in req[r]}]
  /\ UNCHANGED <<now, db, trail, unfenced, owed, iat, backup, manifests, era>>

\* The files are replaced by those of the backup.
Restore ==
  /\ opened = {} /\ manifests # {} /\ era = 0
  /\ \E b \in backup : db' = b.db /\ trail' = b.trail
  /\ unfenced' = Both /\ owed' = TRUE /\ era' = 1
  /\ UNCHANGED <<now, opened, iat, req, backup, manifests, recovery, faults>>

\* Open and OpenRestored of the registry.
OpenIdentity ==
  /\ "identity" \notin opened
  /\ LET tx == Startup(db, now, "identity" \in unfenced)
     IN  tx.res = "ok" /\ db' = tx.db
  /\ opened' = opened \cup {"identity"}
  /\ unfenced' = unfenced \ {"identity"}
  /\ UNCHANGED <<now, trail, owed, iat, req, backup, manifests, recovery, faults, era>>

\* Open and OpenRestored of the ledger.
OpenAudit ==
  /\ "audit" \notin opened
  /\ IF "audit" \in unfenced
     THEN FenceRestored(trail, 1).res = "ok" /\ trail' = FenceRestored(trail, 1).ledger
     ELSE UNCHANGED trail
  /\ opened' = opened \cup {"audit"}
  /\ unfenced' = unfenced \ {"audit"}
  /\ UNCHANGED <<now, db, owed, iat, req, backup, manifests, recovery, faults, era>>

(***************************************************************************)
(* RestoreCoordinator.Recover                                              *)
(***************************************************************************)
recoverFrame == <<now, opened, unfenced, iat, req, backup, manifests, era>>

Recover(m) ==
  /\ Up
  /\ recovery = {}
  /\ ValidateRestore(trail, m)
  /\ recovery' = {[step |-> "accepted", manifest |-> m, receipt |-> {}]}
  /\ UNCHANGED <<recoverFrame, db, trail, faults, owed>>

Proceed(v, res, step) ==
  recovery' = IF res = "ok" THEN {[v EXCEPT !.step = step]} ELSE {}

AcceptedStepUnstaged(v) ==
  /\ v.step = "accepted"
  /\ LET known == AcceptedRestore(trail, v.manifest)
     IN  recovery' = {[v EXCEPT !.step = IF known # {} THEN "complete" ELSE "commit",
                                !.receipt = known]}
  /\ UNCHANGED <<recoverFrame, db, trail, faults, owed>>

\* The accepted manifest's receipt, if the ledger has crossed the boundary.
AcceptedStep(v) ==
  /\ v.step = "accepted"
  /\ LET known == AcceptedRestore(trail, v.manifest)
     IN  recovery' = IF known # {}
                     THEN {[v EXCEPT !.step = "complete", !.receipt = known]}
                     ELSE {[v EXCEPT !.step = "stage"]}
  /\ UNCHANGED <<recoverFrame, db, trail, faults, owed>>

StageStep(v) ==
  /\ v.step = "stage"
  /\ \E res \in RegistryAnswer :
       /\ RegistryTx(StageRestoreFloors(db, now, v.manifest), res)
       /\ Proceed(v, res, "commit")
  /\ UNCHANGED <<recoverFrame, owed>>

CommitStep(v) ==
  /\ v.step = "commit"
  /\ \E res \in TrailAnswer :
       /\ TrailTx(CommitRestore(trail, v.manifest, Entry(Recovered(v.manifest.ref), "restored")), res)
       /\ recovery' = IF res = "ok"
                      THEN {[v EXCEPT !.step = "complete",
                                      !.receipt = AcceptedRestore(trail', v.manifest)]}
                      ELSE {}
  /\ UNCHANGED <<recoverFrame, owed>>

CompleteStep(v) ==
  /\ v.step = "complete"
  /\ \E receipt \in v.receipt, res \in RegistryAnswer :
       LET tx == CompleteRestore(db, v.manifest.ref, receipt)
       IN  /\ RegistryTx(tx, res)
           /\ owed' = (owed /\ (db' # tx.db \/ tx.res # "ok"))
  /\ recovery' = {}
  /\ UNCHANGED recoverFrame

(***************************************************************************)
(* Specification                                                           *)
(***************************************************************************)
Step(r, q) ==
  \/ \E s \in Session : ReserveStep(r, q, s)
  \/ CollisionStep(r, q)
  \/ AuditAllowStep(r, q)
  \/ ActivateStep(r, q)
  \/ AuthenticateStep(r, q)
  \/ AuditAdmitStep(r, q)
  \/ FailStep(r, q)
  \/ RevokeStep(r, q)
  \/ AuditRevokeStep(r, q)

Date == 0..(MaxTime + ProofSkew)

Next ==
  \/ \E r \in Request, a \in Principal, p \in Proof, t \in Date, e \in 1..(MaxTime + MaxLifetime) :
       Bootstrap(r, a, p, t, e)
  \/ \E r \in Request, s \in Session, p \in Proof, t \in Date : AuthenticateRequest(r, s, p, t)
  \/ \E r \in Request, what \in {"deny", "unavailable"} : VerificationFails(r, what)
  \/ \E r \in Request, s \in Session, o \in Revocation : RevokeRequest(r, s, o)
  \/ Up /\ \E r \in Request : \E q \in req[r] : Step(r, q)
  \/ Cleanup \/ ExpiryLoop \/ ClockRecovery
  \/ Tick \/ SetClockBack
  \/ Backup \/ CreateManifest \/ Crash \/ Restore \/ OpenIdentity \/ OpenAudit
  \/ \E m \in manifests : Recover(m)
  \/ Up /\ \E v \in recovery : AcceptedStep(v) \/ StageStep(v) \/ CommitStep(v) \/ CompleteStep(v)

Spec == Init /\ [][Next]_vars
(***************************************************************************)
(* Properties                                                              *)
(***************************************************************************)
\* A session is usable only behind a durable audit record: every active row
\* names the receipt of the allow record of its own bootstrap, and no other
\* outcome is recorded under that operation (Provider.Bootstrap reserves,
\* records and only then activates, across two databases).
ActiveIsAudited ==
  \A s \in Session : \A row \in db.sessions[s] :
    row.receipt # {} => /\ row.receipt = {s}
                        /\ {x \in trail.records : x.op = s} = {Entry(s, "allow")}

Outcome(q) ==
  CASE q.answer \in {"issued", "admitted"} -> "allow"
    [] q.answer = "denied" -> "deny"
    [] q.answer = "revoked" -> "revoked"

\* Whatever the provider told a caller, other than that it is unavailable, is
\* on record under the operation of that call; only the loss of the ledger to
\* a restore can take the record away.
AnswerIsAudited ==
  \A r \in Request : \A q \in req[r] :
    q.answer \in {"issued", "admitted", "denied", "revoked"} /\ q.era = era =>
      \E x \in trail.records : x.op = q.op /\ x.what = Outcome(q)

Holders(p) == {r \in Request : \E q \in req[r] : q.reserved /\ q.proof = {p} /\ q.era = era}

\* A proof is accepted at most once while it is within its validity window by
\* the registry's own clock, through restarts, expiry of its session, cleanup
\* of the replay table and a clock that is set back (reserveProof and
\* CleanupProofs).
ProofUsedOnce ==
  [][\A p \in Proof : Holders(p) # {} /\ Holders(p)' # Holders(p) /\ era' = era =>
       \A t \in iat[p] : db'.high > t + ProofWindow]_vars

\* Two bootstraps of a principal never share an epoch.  After a restore, the
\* epochs that may come back are those above the floor of the manifest that
\* was accepted (allocateEpoch, StageRestoreFloors, CompleteRestore).  A
\* registry whose restore is still owed is RestoreFenceHolds' business.
EpochsNeverReused ==
  \A r1, r2 \in Request : \A q1 \in req[r1], q2 \in req[r2] :
    /\ r1 # r2 /\ q1.epoch > 0 /\ q1.epoch = q2.epoch /\ q1.principal = q2.principal
    => \/ owed
       \/ /\ q1.era # q2.era
          /\ \A m \in manifests, a \in trail.accepted, p \in q1.principal :
               m.ref = a.ref => q1.epoch > m.floors[p]

\* Once the ledger has accepted a manifest the registry holds that manifest's
\* floors, so that completing the restore remains possible after any crash
\* (RestoreCoordinator.Recover stages, commits, completes).
AcceptedIsStaged ==
  \A a \in trail.accepted :
    trail.fence = "admitted" /\ db.fence = "restore_fenced" => StagedFor(db, a.ref)

\* "CompleteRestore is the sole identity admission transition"
\* (registry.go:649): a restored registry stays fenced until then.
RestoreFenceHolds == owed /\ unfenced = {} => db.fence # "admitted"
=============================================================================
