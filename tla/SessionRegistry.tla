---------------------------- MODULE SessionRegistry ----------------------------
(***************************************************************************)
(* The durable identity registry of internal/relay/identity/sqlite.  Every *)
(* operation of it is one immediate transaction on one database, so it is  *)
(* written here as an operator from the database, the wall clock and the   *)
(* request to [res, db]: the answer and the database the commit leaves.  A *)
(* transaction that answers an error is rolled back, except that a clock   *)
(* rollback commits its fence.  Whether the commit itself is answered is   *)
(* the caller's business.                                                  *)
(***************************************************************************)
EXTENDS Integers, FiniteSets

CONSTANTS
  Principal,       \* (tenant, principal) pairs
  Session,         \* generated material: operation, participant and token
  Proof,           \* (thumbprint, jti) pairs
  ClockTolerance,  \* clockTolerance
  ProofWindow,     \* proofPastWindow
  MaxEpoch,        \* maxJSONSafeInt
  CleanupBatch     \* cleanupBatch

ASSUME RegistryAssumption ==
  /\ ClockTolerance \in Nat
  /\ ProofWindow \in Nat \ {0}
  /\ MaxEpoch \in Nat \ {0}
  /\ CleanupBatch \in Nat \ {0}

\* A row of sessions.  receipt and revocation are nullable columns.
SessionRow(Receipt, Op) ==
  [principal: Principal, epoch: Nat, expires: Nat,
   state: {"pending", "active", "revoked", "expired", "abandoned"},
   receipt: SUBSET Receipt, revocation: SUBSET Op]

\* The CHECK constraint of the sessions table.
WellFormedRow(r) ==
  /\ r.state \in {"pending", "abandoned"} <=> r.receipt = {}
  /\ r.state = "revoked" <=> r.revocation # {}

\* An epoch of 0 is a principal without a row, as is a floor of 0, which has
\* no recovery reference.
Database(Receipt, Ref, Op) ==
  [fence: {"admitted", "restore_fenced", "clock_fenced"},
   receipt: SUBSET Receipt,
   high: Nat,
   epochs: [Principal -> 0..MaxEpoch],
   floors: [Principal -> 0..MaxEpoch],
   refs: [Principal -> SUBSET Ref],
   sessions: [Session -> SUBSET SessionRow(Receipt, Op)],
   proofs: SUBSET [proof: Proof, retain: Nat]]

NewDatabase(t) ==
  [fence |-> "admitted", receipt |-> {}, high |-> t,
   epochs |-> [p \in Principal |-> 0],
   floors |-> [p \in Principal |-> 0],
   refs |-> [p \in Principal |-> {}],
   sessions |-> [s \in Session |-> {}],
   proofs |-> {}]

Larger(a, b) == IF a >= b THEN a ELSE b

Reject(db, error) == [res |-> error, db |-> db]

Committed(db) == [res |-> "ok", db |-> db]

RowIs(db, s, P(_)) == \E r \in db.sessions[s] : P(r)

SetRow(db, s, r) == [db EXCEPT !.sessions[s] = {r}]

(***************************************************************************)
(* observeClock and finishClockFailure                                     *)
(***************************************************************************)
ClockRefused(db, t) == db.fence # "admitted" \/ t < db.high - ClockTolerance

ClockFailure(db) ==
  IF db.fence # "admitted" THEN Reject(db, "fenced")
  ELSE [res |-> "rollback", db |-> [db EXCEPT !.fence = "clock_fenced"]]

\* The high-water mark is the time the rest of the transaction uses.
Observed(db, t) == [db EXCEPT !.high = Larger(@, t)]

(***************************************************************************)
(* startup                                                                 *)
(***************************************************************************)
AbandonPending(db) ==
  [db EXCEPT !.sessions =
     [s \in Session |-> {[r EXCEPT !.state = IF @ = "pending" THEN "abandoned" ELSE @]
                         : r \in db.sessions[s]}]]

Startup(db, t, restored) ==
  IF \E s \in Session : RowIs(db, s, LAMBDA r : r.state = "revoked" <=> r.revocation = {})
  THEN Reject(db, "unavailable")
  ELSE Committed(AbandonPending(
         IF restored THEN [db EXCEPT !.fence = "restore_fenced", !.receipt = {}]
         ELSE IF t < db.high - ClockTolerance
         THEN [db EXCEPT !.fence = "clock_fenced", !.receipt = {}]
         ELSE Observed(db, t)))

(***************************************************************************)
(* Sessions and proofs                                                     *)
(***************************************************************************)
Reserved(db, p) == \E x \in db.proofs : x.proof = p

ReserveProofWithoutWindow(db, p, iat) ==
  [db EXCEPT !.proofs = @ \cup {[proof |-> p, retain |-> iat]}]

\* reserveProof: the row outlives the proof's validity by one unit.
ReserveProof(db, p, iat) ==
  [db EXCEPT !.proofs = @ \cup {[proof |-> p, retain |-> iat + ProofWindow + 1]}]

LastEpochIgnoringFloor(db, p) == db.epochs[p]

\* allocateEpoch starts above the live counter and the restored floor.
LastEpoch(db, p) == Larger(db.epochs[p], db.floors[p])

ReserveBootstrap(db, t, q) ==
  LET d == Observed(db, t)
      epoch == LastEpoch(db, q.principal) + 1
  IN  IF ClockRefused(db, t) THEN ClockFailure(db)
      ELSE IF q.expires <= d.high THEN Reject(db, "invalid")
      ELSE IF db.sessions[q.session] # {} THEN Reject(db, "conflict")
      ELSE IF epoch > MaxEpoch THEN Reject(db, "exhausted")
      ELSE IF Reserved(db, q.proof) THEN Reject(db, "replay")
      ELSE Committed(
             SetRow([ReserveProof(d, q.proof, q.iat) EXCEPT !.epochs[q.principal] = epoch],
                    q.session,
                    [principal |-> q.principal, epoch |-> epoch, expires |-> q.expires,
                     state |-> "pending", receipt |-> {}, revocation |-> {}]))

\* An exact retry of an activation succeeds, also after the expiry.
ActivateBootstrap(db, t, s, receipt) ==
  LET d == Observed(db, t)
  IN  IF ClockRefused(db, t) THEN ClockFailure(db)
      ELSE IF RowIs(db, s, LAMBDA r : r.state = "pending" /\ r.expires > d.high)
      THEN Committed([d EXCEPT !.sessions[s] =
             {[r EXCEPT !.state = "active", !.receipt = {receipt}] : r \in @}])
      ELSE IF RowIs(db, s, LAMBDA r : r.state = "active" /\ r.receipt = {receipt})
      THEN Committed(d)
      ELSE Reject(db, "conflict")

\* The proof's key is the one the session is bound to; any other key finds
\* no session, as an unknown token does.
Authenticate(db, t, s, p, iat) ==
  LET d == Observed(db, t)
  IN  IF ClockRefused(db, t) THEN ClockFailure(db)
      ELSE IF ~RowIs(db, s, LAMBDA r : r.state = "active" /\ r.expires > d.high)
      THEN Reject(db, "not_found")
      ELSE IF Reserved(db, p) THEN Reject(db, "replay")
      ELSE Committed(ReserveProof(d, p, iat))

\* Revoke with operation op; "again" is the answer to an exact retry, which
\* signals nobody.
Revoke(db, t, s, op) ==
  LET d == Observed(db, t)
  IN  IF ClockRefused(db, t) THEN ClockFailure(db)
      ELSE IF RowIs(db, s, LAMBDA r : r.state = "active" /\ r.expires > d.high)
      THEN Committed([d EXCEPT !.sessions[s] =
             {[r EXCEPT !.state = "revoked", !.revocation = {op}] : r \in @}])
      ELSE IF RowIs(db, s, LAMBDA r : r.state = "revoked" /\ r.revocation = {op})
      THEN [res |-> "again", db |-> d]
      ELSE Reject(db, "conflict")

\* The sessions whose time is up at the high-water mark.
Due(db) == {s \in Session :
              RowIs(db, s, LAMBDA r : r.state = "active" /\ r.expires <= db.high)}

Expire(db, S) ==
  [db EXCEPT !.sessions =
     [s \in Session |-> IF s \in S
                        THEN {[r EXCEPT !.state = "expired"] : r \in db.sessions[s]}
                        ELSE db.sessions[s]]]

IsActive(db, t, s) ==
  LET d == Expire(Observed(db, t), {s} \cap Due(Observed(db, t)))
  IN  IF ClockRefused(db, t) THEN ClockFailure(db)
      ELSE IF db.sessions[s] = {} THEN Reject(db, "not_found")
      ELSE [res |-> IF RowIs(d, s, LAMBDA r : r.state = "active") THEN "ok" ELSE "inactive",
            db |-> d]

\* One pass of the expiry loop: the sessions of S, the earliest ones due, or
\* none, which still observes the clock.
FirstDue(db, S) ==
  /\ S \subseteq Due(db)
  /\ \/ Cardinality(S) = CleanupBatch
     \/ S = Due(db) /\ Cardinality(S) < CleanupBatch
  /\ \A s \in S, u \in Due(db) \ S : \A r \in db.sessions[s], q \in db.sessions[u] :
       r.expires <= q.expires

ExpireDue(db, t, S) ==
  IF ClockRefused(db, t) THEN ClockFailure(db) ELSE Committed(Expire(Observed(db, t), S))

\* CleanupProofs deletes the rows X: the earliest of those whose retention is
\* over, at most a batch.
Deletable(db) == {x \in db.proofs : x.retain < db.high}

FirstDeletable(db, X) ==
  /\ X \subseteq Deletable(db)
  /\ \/ Cardinality(X) = CleanupBatch
     \/ X = Deletable(db) /\ Cardinality(X) < CleanupBatch
  /\ \A x \in X, y \in Deletable(db) \ X : x.retain <= y.retain

CleanupProofs(db, t, X) ==
  IF ClockRefused(db, t) THEN ClockFailure(db)
  ELSE Committed([Observed(db, t) EXCEPT !.proofs = @ \ X])

RecoverClock(db, t, receipt) ==
  IF db.fence # "clock_fenced" \/ t < db.high THEN Reject(db, "fenced")
  ELSE Committed([db EXCEPT !.fence = "admitted", !.high = t, !.receipt = {receipt}])

(***************************************************************************)
(* Recovery                                                                *)
(***************************************************************************)
\* RecoverySnapshot: the floor of every principal the registry ever saw, and 0
\* for a principal the snapshot does not list.
Snapshot(db) ==
  [high |-> db.high,
   floors |-> [p \in Principal |-> LastEpoch(db, p)]]

Staged(db, m) ==
  [db EXCEPT
     !.high = Larger(@, m.high),
     !.floors = [p \in Principal |-> IF m.floors[p] > 0 THEN m.floors[p] ELSE @[p]],
     !.refs = [p \in Principal |-> IF m.floors[p] > 0 THEN {m.ref} ELSE @[p]]]

\* Everything staged belongs to one manifest, and covers every principal.
StagedFor(db, ref) ==
  \A p \in Principal : /\ db.refs[p] \subseteq {ref}
                       /\ db.epochs[p] > 0 => db.refs[p] # {}

StageRestoreFloors(db, t, m) ==
  IF db.fence # "restore_fenced" THEN Reject(db, "fenced")
  ELSE IF m.high < db.high THEN Reject(db, "invalid")
  ELSE IF t < m.high - ClockTolerance THEN Reject(db, "rollback")
  ELSE IF \/ \E p \in Principal : m.floors[p] > 0 /\ m.floors[p] < LastEpoch(db, p)
          \/ \E p \in Principal : m.floors[p] = 0 /\ db.epochs[p] > 0
          \/ ~StagedFor(Staged(db, m), m.ref)
  THEN Reject(db, "invalid")
  ELSE Committed(Staged(db, m))

CompleteRestore(db, ref, receipt) ==
  IF db.fence = "admitted" /\ db.receipt = {receipt} THEN Committed(db)
  ELSE IF db.fence # "restore_fenced" THEN Reject(db, "fenced")
  ELSE IF ~StagedFor(db, ref) THEN Reject(db, "invalid")
  ELSE Committed([db EXCEPT !.fence = "admitted", !.receipt = {receipt}])
=============================================================================
