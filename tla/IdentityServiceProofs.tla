----------------------- MODULE IdentityServiceProofs ------------------------
(***************************************************************************)
(* The identity provider over its two databases, for every set of          *)
(* requests, sessions, principals and proofs, every clock and every bound  *)
(* of IdentityService: usable sessions and answers are on record, epochs   *)
(* and proofs are not used twice, and an accepted restore stays            *)
(* completable.                                                            *)
(*                                                                         *)
(* The module states the inductive invariant, shows what the transactions  *)
(* of the registry and of the ledger keep of it, then goes through the     *)
(* steps: of a recovery, of crashes, restores and maintenance, and of a    *)
(* request.  The theorems are at the end.                                  *)
(***************************************************************************)
EXTENDS IdentityService, FiniteSetTheorems, TLAPS

(***************************************************************************)
(* The inductive invariant                                                 *)
(***************************************************************************)
Registry == Database(Operation \cup {ClockReceipt}, 1..MaxManifest, Revocation)

Ledger == Trail(Record, 1..MaxManifest, Operation)

\* A session has at most one row, which satisfies the table's constraint.
RowsWellFormed(d) ==
  \A s \in Session : \A row \in d.sessions[s] :
    WellFormedRow(row) /\ \A other \in d.sessions[s] : other = row

\* A row with a receipt has the allow record of its own bootstrap in the ledger.
RowsAudited(d, l) ==
  \A s \in Session : \A row \in d.sessions[s] :
    row.receipt # {} => row.receipt = {s} /\ Entry(s, "allow") \in l.records

\* The backup was taken before any restore.
BackupInv ==
  \A b \in backup :
    /\ b.db \in Registry /\ RowsWellFormed(b.db)
    /\ b.trail \in Ledger
    /\ RowsAudited(b.db, b.trail)
    /\ b.trail.backup = {} /\ b.trail.accepted = {} /\ b.trail.fence = "admitted"
    /\ b.db.receipt \subseteq {ClockReceipt} /\ b.db.fence = "admitted"

\* Manifests are numbered in the order they are made.
ManifestInv ==
  /\ IsFiniteSet(manifests) /\ Cardinality(manifests) \in 0..MaxManifest
  /\ \A m \in manifests : /\ m.ref \in 1..Cardinality(manifests) /\ m.backup = 1
                          /\ m.floors \in [Principal -> 0..MaxEpoch]
  /\ \A m, n \in manifests : m.ref = n.ref => m = n
  /\ manifests # {} => backup # {}

\* What the number of restores says of the two databases.
EraInv ==
  /\ era \in {0, 1} /\ faults \in Nat
  /\ opened \cap unfenced = {}
  /\ era = 0 => /\ unfenced = {} /\ ~owed
                /\ trail.accepted = {} /\ trail.backup = {} /\ trail.fence = "admitted"
                /\ db.fence # "restore_fenced"
  /\ era = 1 => backup # {}
  /\ unfenced # {} => owed /\ trail.accepted = {}
  /\ "audit" \in unfenced => trail.fence = "admitted" /\ trail.backup = {}
  /\ era = 1 /\ ~owed => trail.fence = "admitted"
  /\ era = 0 \/ owed => db.receipt \subseteq {ClockReceipt}
  /\ db.fence = "restore_fenced" => owed

\* The registry holds the floors of the manifest m.
AboveFloors(m) == \A p \in Principal : db.floors[p] >= m.floors[p]

\* A restored registry from which no request was served: it is not yet open,
\* or still fenced.
Unserved == "identity" \in unfenced \/ db.fence = "restore_fenced"

\* The accepted manifest is staged until the restore is completed, and its
\* floors are there from then on.
AcceptedInv ==
  \A a \in trail.accepted :
    /\ trail.fence = "admitted"
    /\ a.ref \in 1..Cardinality(manifests) /\ a.receipt = Recovered(a.ref)
    /\ db.fence = "restore_fenced" => StagedFor(db, a.ref)
    /\ db.fence = "restore_fenced" \/ ~owed =>
         \A m \in manifests : m.ref = a.ref => AboveFloors(m)

\* What the step of the running recovery says of the two databases.
RecoveryStep(v) ==
  /\ v \in [step: {"accepted", "stage", "commit", "complete"},
            manifest: manifests, receipt: SUBSET Operation]
  /\ v.step = "accepted" =>
       \/ trail.fence = "restore_fenced"
       \/ trail.fence = "admitted" /\ \E a \in trail.accepted : a.ref = v.manifest.ref
  /\ v.step \in {"stage", "commit"} => trail.fence = "restore_fenced"
  /\ v.step = "commit" => /\ db.fence = "restore_fenced"
                          /\ StagedFor(db, v.manifest.ref)
                          /\ AboveFloors(v.manifest)
  /\ v.step = "complete" => v.receipt \subseteq AcceptedRestore(trail, v.manifest)

RecoveryInv ==
  /\ recovery # {} => Up
  /\ \A v \in recovery : RecoveryStep(v)

\* The replay row of a proof p dated t.
HasRow(d, p, t) == \E x \in d.proofs : x.proof = p /\ x.retain = t + ProofWindow + 1

\* The row of an accepted proof is there, or the high-water mark has passed
\* its retention.
Kept(p, t) ==
  \/ HasRow(db, p, t)
  \/ db.high > t + ProofWindow + 1

DatesInv == \A p \in Proof : \A t, u \in iat[p] : t = u

\* What the step of a request says of its operation, its session and its
\* records.
StepInv(r, q) ==
  /\ q.era <= era
  /\ \A a, b \in q.principal : a = b
  /\ \A o, p \in q.proof : o = p
  /\ q.step # "end" => Up /\ q.era = era /\ q.answer = "none"
  /\ q.step \in {"reserve", "collision", "authenticate", "fail", "revoke", "audit_revoke"} =>
       ~q.reserved /\ q.epoch = 0
  /\ q.step \in {"audit_allow", "activate"} => q.op \in Session /\ q.session = {q.op}
  /\ q.step = "activate" => Entry(q.op, "allow") \in trail.records
  /\ q.step \in {"authenticate", "audit_admit"} => q.op = r
  /\ q.step \in {"revoke", "audit_revoke"} => q.op \in Revocation
  /\ q.step = "fail" => q.what # "none"
  /\ q.reserved => q.op \notin Revocation

\* An answer other than unavailable is on record.
AnswerInv(q) ==
  q.answer \in {"issued", "admitted", "denied", "revoked"} /\ q.era = era =>
    \E x \in trail.records : x.op = q.op /\ x.what = Outcome(q)

\* A request that reserved a proof.
ProofInv(q) ==
  q.reserved /\ q.era = era =>
    \A p \in q.proof : iat[p] # {} /\ \A t \in iat[p] : Kept(p, t)

\* An epoch is counted in the registry that gave it out, and is above the
\* accepted floors if that registry was restored completely.
EpochInv(q) ==
  q.epoch > 0 =>
    /\ q.principal # {}
    /\ q.era = era => \A p \in q.principal : q.epoch <= db.epochs[p]
    /\ q.era = 1 => /\ ~Unserved
                    /\ ~owed => \A m \in manifests, a \in trail.accepted, p \in q.principal :
                                  m.ref = a.ref => q.epoch > m.floors[p]

RequestInv(r, q) == StepInv(r, q) /\ AnswerInv(q) /\ ProofInv(q) /\ EpochInv(q)

\* Within one era, two requests have different epochs.
EpochsDiffer ==
  \A r1, r2 \in Request : \A q1 \in req[r1], q2 \in req[r2] :
    r1 # r2 /\ q1.epoch > 0 /\ q1.epoch = q2.epoch /\ q1.principal = q2.principal =>
      q1.era # q2.era

\* The two databases, the backup, the manifests and the running recovery.
WorldTypeOK ==
  /\ now \in Nat
  /\ db \in Registry /\ RowsWellFormed(db)
  /\ trail \in Ledger
  /\ opened \subseteq Both /\ unfenced \subseteq Both /\ owed \in BOOLEAN
  /\ iat \in [Proof -> SUBSET Nat]
  /\ manifests \subseteq Manifest

World ==
  /\ WorldTypeOK
  /\ RowsAudited(db, trail)
  /\ BackupInv /\ ManifestInv /\ EraInv /\ AcceptedInv /\ RecoveryInv /\ DatesInv

\* The requests.
Requests ==
  /\ req \in [Request -> SUBSET State]
  /\ \A r \in Request : \A q, o \in req[r] : q = o
  /\ \A r \in Request : \A q \in req[r] : RequestInv(r, q)
  /\ EpochsDiffer

ServiceInv == World /\ Requests

\* A ledger has finitely many records, and no two of one operation.
Keyed(l) ==
  /\ IsFiniteSet(l.records)
  /\ \A x, y \in l.records : x.op = y.op => x = y

KeyedInv == Keyed(trail) /\ \A b \in backup : Keyed(b.trail)

(***************************************************************************)
(* Registries                                                              *)
(***************************************************************************)
Row == SessionRow(Operation \cup {ClockReceipt}, Revocation)

ReplayRow == [proof: Proof, retain: Nat]

\* A registry, field by field.
LEMMA RegistryFields ==
  ASSUME NEW d \in Registry
  PROVE  /\ d.fence \in {"admitted", "restore_fenced", "clock_fenced"}
         /\ d.receipt \subseteq Operation \cup {ClockReceipt}
         /\ d.high \in Nat
         /\ d.epochs \in [Principal -> 0..MaxEpoch]
         /\ d.floors \in [Principal -> 0..MaxEpoch]
         /\ d.refs \in [Principal -> SUBSET (1..MaxManifest)]
         /\ d.sessions \in [Session -> SUBSET Row]
         /\ d.proofs \subseteq ReplayRow
  BY Zenon DEF Registry, Database, Row, ReplayRow

\* A write of the fence only.
LEMMA SetFence ==
  ASSUME NEW d \in Registry, NEW f \in {"admitted", "restore_fenced", "clock_fenced"}
  PROVE  LET e == [d EXCEPT !.fence = f]
         IN  /\ e \in Registry
             /\ e.fence = f /\ e.receipt = d.receipt /\ e.high = d.high
             /\ e.epochs = d.epochs /\ e.floors = d.floors /\ e.refs = d.refs
             /\ e.sessions = d.sessions /\ e.proofs = d.proofs
  BY Zenon DEF Registry, Database

\* A write of the high-water mark only.
LEMMA SetHigh ==
  ASSUME NEW d \in Registry, NEW h \in Nat
  PROVE  LET e == [d EXCEPT !.high = h]
         IN  /\ e \in Registry
             /\ e.fence = d.fence /\ e.receipt = d.receipt /\ e.high = h
             /\ e.epochs = d.epochs /\ e.floors = d.floors /\ e.refs = d.refs
             /\ e.sessions = d.sessions /\ e.proofs = d.proofs
  BY Zenon DEF Registry, Database

\* A write of the receipt only.
LEMMA SetReceipt ==
  ASSUME NEW d \in Registry, NEW X \in SUBSET (Operation \cup {ClockReceipt})
  PROVE  LET e == [d EXCEPT !.receipt = X]
         IN  /\ e \in Registry
             /\ e.fence = d.fence /\ e.receipt = X /\ e.high = d.high
             /\ e.epochs = d.epochs /\ e.floors = d.floors /\ e.refs = d.refs
             /\ e.sessions = d.sessions /\ e.proofs = d.proofs
  BY Zenon DEF Registry, Database

\* A write of the epochs only.
LEMMA SetEpochs ==
  ASSUME NEW d \in Registry, NEW f \in [Principal -> 0..MaxEpoch]
  PROVE  LET e == [d EXCEPT !.epochs = f]
         IN  /\ e \in Registry
             /\ e.fence = d.fence /\ e.receipt = d.receipt /\ e.high = d.high
             /\ e.epochs = f /\ e.floors = d.floors /\ e.refs = d.refs
             /\ e.sessions = d.sessions /\ e.proofs = d.proofs
  BY Zenon DEF Registry, Database

\* A write of the sessions only.
LEMMA SetSessions ==
  ASSUME NEW d \in Registry, NEW f \in [Session -> SUBSET Row]
  PROVE  LET e == [d EXCEPT !.sessions = f]
         IN  /\ e \in Registry
             /\ e.fence = d.fence /\ e.receipt = d.receipt /\ e.high = d.high
             /\ e.epochs = d.epochs /\ e.floors = d.floors /\ e.refs = d.refs
             /\ e.sessions = f /\ e.proofs = d.proofs
  BY Zenon DEF Registry, Database, Row

\* A write of the replay rows only.
LEMMA SetProofs ==
  ASSUME NEW d \in Registry, NEW X \in SUBSET ReplayRow
  PROVE  LET e == [d EXCEPT !.proofs = X]
         IN  /\ e \in Registry
             /\ e.fence = d.fence /\ e.receipt = d.receipt /\ e.high = d.high
             /\ e.epochs = d.epochs /\ e.floors = d.floors /\ e.refs = d.refs
             /\ e.sessions = d.sessions /\ e.proofs = X
  BY Zenon DEF Registry, Database, ReplayRow

(***************************************************************************)
(* What the registry's transactions keep                                   *)
(***************************************************************************)
\* What every transaction keeps that is not part of a restore.
Ordinary(d, e) ==
  /\ e \in Registry /\ RowsWellFormed(e)
  /\ e.high >= d.high
  /\ \A p \in Principal : e.epochs[p] >= d.epochs[p]
  /\ e.floors = d.floors
  /\ \A x \in d.proofs : x \in e.proofs \/ e.high > x.retain
  /\ e.fence = "restore_fenced" =>
       d.fence = "restore_fenced" /\ e.epochs = d.epochs /\ e.refs = d.refs
  /\ e.receipt \subseteq d.receipt \cup {ClockReceipt}

\* A running process leaves a restored registry alone.
Running(d, e) == d.fence = "restore_fenced" => e = d

SameReceipts(d, e) ==
  \A s \in Session : \A row \in e.sessions[s] :
    row.receipt # {} => \E old \in d.sessions[s] : old.receipt = row.receipt

Proceeds(d, e) == Ordinary(d, e) /\ Running(d, e) /\ SameReceipts(d, e)

\* The registry's constants.
LEMMA RegistryConstants ==
  /\ ClockTolerance \in Nat /\ ProofWindow \in Nat /\ MaxEpoch \in Nat /\ MaxEpoch > 0
  BY RegistryAssumption

\* Nothing changes.
LEMMA Unchanged ==
  ASSUME NEW d \in Registry, RowsWellFormed(d)
  PROVE  Proceeds(d, d)
<1>. d.high \in Nat /\ d.epochs \in [Principal -> 0..MaxEpoch]
  BY RegistryFields, Zenon
<1>. d.high >= d.high /\ \A p \in Principal : d.epochs[p] >= d.epochs[p]
  BY RegistryConstants
<1>. QED
  BY Zenon DEF Proceeds, Ordinary, Running, SameReceipts

\* A write of the fence, the high-water mark and the receipt only.
LEMMA ClockWrite ==
  ASSUME NEW d \in Registry, RowsWellFormed(d), NEW e \in Registry,
         e.high >= d.high, e.epochs = d.epochs, e.floors = d.floors, e.refs = d.refs,
         e.sessions = d.sessions, e.proofs = d.proofs,
         e.fence = "restore_fenced" => d.fence = "restore_fenced",
         d.fence # "restore_fenced",
         e.receipt \subseteq d.receipt \cup {ClockReceipt}
  PROVE  Proceeds(d, e)
<1>. \A p \in Principal : e.epochs[p] >= d.epochs[p]
  BY RegistryFields, RegistryConstants
<1>. RowsWellFormed(e)
  BY Zenon DEF RowsWellFormed
<1>. QED
  BY Zenon DEF Proceeds, Ordinary, Running, SameReceipts

\* finishClockFailure commits the clock fence, or nothing.
LEMMA ClockFailureFacts ==
  ASSUME NEW d \in Registry, RowsWellFormed(d)
  PROVE  /\ Proceeds(d, ClockFailure(d).db)
         /\ ClockFailure(d).res \in {"fenced", "rollback"}
<1>1. CASE d.fence # "admitted"
  BY <1>1, Unchanged, Zenon DEF ClockFailure, Reject
<1>2. CASE d.fence = "admitted"
  <2>. PICK e \in Registry : e = [d EXCEPT !.fence = "clock_fenced"]
    BY SetFence, Zenon
  <2>. /\ e.fence = "clock_fenced" /\ e.receipt = d.receipt /\ e.high = d.high
       /\ e.epochs = d.epochs /\ e.floors = d.floors /\ e.refs = d.refs
       /\ e.sessions = d.sessions /\ e.proofs = d.proofs
    BY SetFence, Zenon
  <2>. e.high >= d.high
    BY RegistryFields
  <2>. Proceeds(d, e)
    BY <1>2, ClockWrite, Zenon
  <2>. QED
    BY <1>2, Zenon DEF ClockFailure
<1>. QED
  BY <1>1, <1>2, Zenon

\* observeClock, where the registry is admitted, raises the high-water mark.
LEMMA ObservedFacts ==
  ASSUME NEW d \in Registry, RowsWellFormed(d), NEW t \in Nat, NEW o, o = Observed(d, t)
  PROVE  /\ o \in Registry /\ RowsWellFormed(o)
         /\ o.high >= d.high /\ o.high >= t
         /\ o.fence = d.fence /\ o.receipt = d.receipt
         /\ o.epochs = d.epochs /\ o.floors = d.floors /\ o.refs = d.refs
         /\ o.sessions = d.sessions /\ o.proofs = d.proofs
<1>1. d.high \in Nat
  BY RegistryFields, Zenon
<1>. PICK h \in Nat : h = Larger(d.high, t) /\ h >= d.high /\ h >= t
  BY <1>1 DEF Larger
<1>2. o = [d EXCEPT !.high = h]
  BY Zenon DEF Observed
<1>. /\ o \in Registry /\ o.high = h /\ o.fence = d.fence /\ o.receipt = d.receipt
     /\ o.epochs = d.epochs /\ o.floors = d.floors /\ o.refs = d.refs
     /\ o.sessions = d.sessions /\ o.proofs = d.proofs
  BY <1>2, SetHigh
<1>. RowsWellFormed(o)
  BY Zenon DEF RowsWellFormed
<1>. QED
  BY Zenon

\* An admitted registry that observes the clock and does not change otherwise.
LEMMA ObservedProceeds ==
  ASSUME NEW d \in Registry, RowsWellFormed(d), NEW t \in Nat, ~ClockRefused(d, t)
  PROVE  Proceeds(d, Observed(d, t))
<1>. PICK o : o = Observed(d, t)
  BY Zenon
<1>. d.fence = "admitted"
  BY Zenon DEF ClockRefused
<1>. QED
  BY ObservedFacts, ClockWrite

\* The replay table gets the row of a proof.
LEMMA ReserveProofFacts ==
  ASSUME NEW d \in Registry, NEW p \in Proof, NEW i \in Nat
  PROVE  LET e == ReserveProof(d, p, i)
         IN  /\ e \in Registry
             /\ e.fence = d.fence /\ e.receipt = d.receipt /\ e.high = d.high
             /\ e.epochs = d.epochs /\ e.floors = d.floors /\ e.refs = d.refs
             /\ e.sessions = d.sessions /\ d.proofs \subseteq e.proofs
             /\ HasRow(e, p, i)
<1>1. PICK e : e = ReserveProof(d, p, i)
  BY Zenon
<1>2. PICK u \in Nat : u = i + ProofWindow + 1
  BY RegistryConstants
<1>3. PICK x \in ReplayRow : x = [proof |-> p, retain |-> u]
  BY Zenon DEF ReplayRow
<1>4. x.proof = p /\ x.retain = u
  BY <1>3, Zenon
<1>. PICK X \in SUBSET ReplayRow : X = d.proofs \cup {x}
  BY RegistryFields, Zenon
<1>5. e = [d EXCEPT !.proofs = X]
  BY <1>1, <1>2, <1>3, Zenon DEF ReserveProof
<1>. /\ e \in Registry
     /\ e.fence = d.fence /\ e.receipt = d.receipt /\ e.high = d.high
     /\ e.epochs = d.epochs /\ e.floors = d.floors /\ e.refs = d.refs
     /\ e.sessions = d.sessions /\ e.proofs = X
  BY <1>5, SetProofs
<1>. x \in e.proofs /\ d.proofs \subseteq e.proofs
  BY Zenon
<1>. QED
  BY <1>1, <1>2, <1>4, Zenon DEF HasRow

\* A transaction on an admitted registry that observes the clock, keeps the
\* receipts of the rows and loses only replay rows whose retention is over.
LEMMA AdmittedProceeds ==
  ASSUME NEW d \in Registry, d.fence = "admitted",
         NEW e \in Registry, RowsWellFormed(e), SameReceipts(d, e),
         e.fence = "admitted", e.receipt = d.receipt, e.high >= d.high,
         \A p \in Principal : e.epochs[p] >= d.epochs[p], e.floors = d.floors,
         \A x \in d.proofs : x \in e.proofs \/ e.high > x.retain
  PROVE  Proceeds(d, e)
  BY Zenon DEF Proceeds, Ordinary, Running

\* ReserveBootstrap gives out an epoch above the counter and the floor, and
\* only for a proof without a row.
LEMMA ReserveBootstrapFacts ==
  ASSUME NEW d \in Registry, RowsWellFormed(d), NEW t \in Nat,
         NEW s \in Session, NEW a \in Principal, NEW p \in Proof, NEW i \in Nat, NEW x \in Nat,
         NEW tx, tx = ReserveBootstrap(d, t, [session |-> s, principal |-> a, proof |-> p,
                                              iat |-> i, expires |-> x])
  PROVE  /\ Proceeds(d, tx.db)
         /\ tx.res = "ok" =>
              /\ d.fence = "admitted" /\ tx.db.fence = "admitted"
              /\ ~Reserved(d, p)
              /\ HasRow(tx.db, p, i)
              /\ tx.db.epochs[a] > d.epochs[a] /\ tx.db.epochs[a] > d.floors[a]
<1> DEFINE q == [session |-> s, principal |-> a, proof |-> p, iat |-> i, expires |-> x]
<1>1. q.session = s /\ q.principal = a /\ q.proof = p /\ q.iat = i /\ q.expires = x
  BY Zenon
<1>2. tx = ReserveBootstrap(d, t, q)
  BY Zenon
<1> HIDE DEF q
<1>3. CASE ClockRefused(d, t)
  <2>. tx = ClockFailure(d)
    BY <1>2, <1>3, Zenon DEF ReserveBootstrap
  <2>. QED
    BY ClockFailureFacts, Zenon
<1>4. CASE ~ClockRefused(d, t) /\ tx.res # "ok" /\ tx.db = d
  BY <1>4, Unchanged, Zenon
<1>5. CASE /\ ~ClockRefused(d, t) /\ d.sessions[s] = {} /\ ~Reserved(d, p)
           /\ LastEpoch(d, a) + 1 <= MaxEpoch
           /\ tx = Committed(
                SetRow([ReserveProof(Observed(d, t), p, i) EXCEPT !.epochs[a] = LastEpoch(d, a) + 1],
                       s, [principal |-> a, epoch |-> LastEpoch(d, a) + 1, expires |-> x,
                           state |-> "pending", receipt |-> {}, revocation |-> {}]))
  <2>. USE <1>5
  <2>1. PICK o : o = Observed(d, t)
    BY Zenon
  <2>. /\ o \in Registry /\ RowsWellFormed(o)
       /\ o.high >= d.high /\ o.fence = d.fence /\ o.receipt = d.receipt
       /\ o.epochs = d.epochs /\ o.floors = d.floors
       /\ o.sessions = d.sessions /\ o.proofs = d.proofs
    BY <2>1, ObservedFacts
  <2>2. PICK v : v = ReserveProof(o, p, i)
    BY Zenon
  <2>. /\ v \in Registry
       /\ v.high = o.high /\ v.fence = o.fence /\ v.receipt = o.receipt
       /\ v.epochs = o.epochs /\ v.floors = o.floors
       /\ v.sessions = o.sessions /\ o.proofs \subseteq v.proofs
       /\ HasRow(v, p, i)
    BY <2>2, ReserveProofFacts
  <2>3. d.epochs[a] \in Nat /\ d.floors[a] \in Nat
    BY RegistryFields, RegistryConstants
  <2>. PICK n \in 1..MaxEpoch : n = LastEpoch(d, a) + 1 /\ n > d.epochs[a] /\ n > d.floors[a]
    BY <2>3, RegistryConstants DEF LastEpoch, Larger
  <2>4. PICK f \in [Principal -> 0..MaxEpoch] : f = [v.epochs EXCEPT ![a] = n]
    <3>. v.epochs \in [Principal -> 0..MaxEpoch] /\ n \in 0..MaxEpoch
      BY RegistryFields, RegistryConstants
    <3>. QED
      BY Zenon
  <2>5. f[a] = n /\ \A b \in Principal : f[b] >= d.epochs[b]
    BY <2>3, <2>4, RegistryFields, RegistryConstants
  <2>6. PICK w : w = [v EXCEPT !.epochs = f]
    BY Zenon
  <2>7. w = [v EXCEPT !.epochs[a] = n]
    BY <2>4, <2>6, Zenon DEF Registry, Database
  <2>. /\ w \in Registry
       /\ w.high = v.high /\ w.fence = v.fence /\ w.receipt = v.receipt
       /\ w.epochs = f /\ w.floors = v.floors
       /\ w.sessions = v.sessions /\ w.proofs = v.proofs
    BY <2>6, SetEpochs
  <2>8. PICK row \in Row : row = [principal |-> a, epoch |-> n, expires |-> x,
                                  state |-> "pending", receipt |-> {}, revocation |-> {}]
    <3>. n \in Nat
      BY RegistryConstants
    <3>. [principal |-> a, epoch |-> n, expires |-> x,
          state |-> "pending", receipt |-> {}, revocation |-> {}] \in Row
      BY Zenon DEF Row, SessionRow
    <3>. QED
      BY Zenon
  <2>9. row.receipt = {} /\ WellFormedRow(row)
    BY <2>8, Zenon DEF WellFormedRow
  <2>10. PICK g \in [Session -> SUBSET Row] : g = [w.sessions EXCEPT ![s] = {row}]
    BY RegistryFields, Zenon
  <2>11. PICK e : e = [w EXCEPT !.sessions = g]
    BY Zenon
  <2>12. e = SetRow(w, s, row)
    BY <2>10, <2>11, Zenon DEF SetRow, Registry, Database
  <2>. /\ e \in Registry
       /\ e.high = w.high /\ e.fence = w.fence /\ e.receipt = w.receipt
       /\ e.epochs = w.epochs /\ e.floors = w.floors
       /\ e.sessions = g /\ e.proofs = w.proofs
    BY <2>11, SetSessions
  <2>13. \A u \in Session : g[u] = {row} \/ g[u] = d.sessions[u]
    BY <2>10, RegistryFields
  <2>14. RowsWellFormed(e) /\ SameReceipts(d, e)
    BY <2>9, <2>13 DEF RowsWellFormed, SameReceipts
  <2>15. tx = Committed(e)
    BY <2>1, <2>2, <2>7, <2>8, <2>12, Zenon
  <2>. d.fence = "admitted"
    BY Zenon DEF ClockRefused
  <2>. Proceeds(d, e)
    BY <2>5, <2>14, AdmittedProceeds
  <2>. QED
    BY <2>5, <2>15 DEF Committed, HasRow
<1>. QED
  <2>. \/ ClockRefused(d, t)
       \/ ~ClockRefused(d, t) /\ \E m \in {"invalid", "conflict", "exhausted", "replay"} : tx = Reject(d, m)
       \/ /\ ~ClockRefused(d, t) /\ d.sessions[s] = {} /\ ~Reserved(d, p)
          /\ ~(LastEpoch(d, a) + 1 > MaxEpoch)
          /\ tx = Committed(
               SetRow([ReserveProof(Observed(d, t), p, i) EXCEPT !.epochs[a] = LastEpoch(d, a) + 1],
                      s, [principal |-> a, epoch |-> LastEpoch(d, a) + 1, expires |-> x,
                          state |-> "pending", receipt |-> {}, revocation |-> {}]))
    BY <1>1, <1>2, Zenon DEF ReserveBootstrap
  <2>. ~(LastEpoch(d, a) + 1 > MaxEpoch) => LastEpoch(d, a) + 1 <= MaxEpoch
    BY RegistryFields, RegistryConstants DEF LastEpoch, Larger
  <2>. QED
    BY <1>3, <1>4, <1>5 DEF Reject

\* A row is the only one of its session.
LEMMA OneRow ==
  ASSUME NEW d \in Registry, RowsWellFormed(d), NEW s \in Session, NEW row \in d.sessions[s]
  PROVE  row \in Row /\ WellFormedRow(row) /\ d.sessions[s] = {row}
<1>1. row \in Row
  BY RegistryFields, Zenon
<1>. WellFormedRow(row) /\ \A other \in d.sessions[s] : other = row
  BY Zenon DEF RowsWellFormed
<1>. d.sessions[s] = {row}
  BY Zenon
<1>. QED
  BY <1>1, Zenon

\* The row of a session is replaced.
LEMMA RewriteRow ==
  ASSUME NEW d \in Registry, RowsWellFormed(d), NEW s \in Session, NEW new \in Row,
         WellFormedRow(new)
  PROVE  LET e == SetRow(d, s, new)
         IN  /\ e \in Registry /\ RowsWellFormed(e)
             /\ e.fence = d.fence /\ e.receipt = d.receipt /\ e.high = d.high
             /\ e.epochs = d.epochs /\ e.floors = d.floors /\ e.proofs = d.proofs
             /\ \A u \in Session : e.sessions[u] = IF u = s THEN {new} ELSE d.sessions[u]
<1>1. PICK g \in [Session -> SUBSET Row] : g = [d.sessions EXCEPT ![s] = {new}]
  BY RegistryFields, Zenon
<1>2. PICK e : e = [d EXCEPT !.sessions = g]
  BY Zenon
<1>3. e = SetRow(d, s, new)
  BY <1>1, <1>2, Zenon DEF SetRow, Registry, Database
<1>. /\ e \in Registry
     /\ e.fence = d.fence /\ e.receipt = d.receipt /\ e.high = d.high
     /\ e.epochs = d.epochs /\ e.floors = d.floors /\ e.proofs = d.proofs
     /\ e.sessions = g
  BY <1>2, SetSessions, Zenon
<1>. \A u \in Session : e.sessions[u] = IF u = s THEN {new} ELSE d.sessions[u]
  BY <1>1, RegistryFields, Zenon
<1>. RowsWellFormed(e)
  BY Zenon DEF RowsWellFormed
<1>. QED
  BY <1>3, Zenon

\* From d to e, only the row of session s may get a receipt: the one for c.
ReceiptFor(d, e, s, c) ==
  \A u \in Session : \A row \in e.sessions[u] :
    (u = s /\ row.receipt = {c}) \/ row \in d.sessions[u]

\* ActivateBootstrap puts the receipt in the row of its own session only.
LEMMA ActivateFacts ==
  ASSUME NEW d \in Registry, RowsWellFormed(d), NEW t \in Nat, NEW s \in Session,
         NEW c \in Operation, NEW tx, tx = ActivateBootstrap(d, t, s, c)
  PROVE  Ordinary(d, tx.db) /\ Running(d, tx.db) /\ ReceiptFor(d, tx.db, s, c)
<1>1. CASE ClockRefused(d, t)
  <2>. tx = ClockFailure(d)
    BY <1>1, Zenon DEF ActivateBootstrap
  <2>. tx.db.sessions = d.sessions
    BY DEF ClockFailure, Reject, Registry, Database
  <2>. QED
    BY ClockFailureFacts, Zenon DEF Proceeds, ReceiptFor
<1>2. CASE tx.db = d
  BY <1>2, Unchanged, Zenon DEF Proceeds, ReceiptFor
<1>3. PICK o : o = Observed(d, t)
  BY Zenon
<1>. /\ o \in Registry /\ RowsWellFormed(o) /\ o.high >= d.high /\ o.fence = d.fence
     /\ o.receipt = d.receipt /\ o.epochs = d.epochs /\ o.floors = d.floors
     /\ o.sessions = d.sessions /\ o.proofs = d.proofs
  BY <1>3, ObservedFacts
<1>4. CASE ~ClockRefused(d, t) /\ tx.db = o
  BY <1>3, <1>4, ObservedProceeds, Zenon DEF Proceeds, ReceiptFor
<1>5. ASSUME ~ClockRefused(d, t), NEW row \in d.sessions[s], row.state = "pending",
             tx.db = [o EXCEPT !.sessions[s] =
                        {[r EXCEPT !.state = "active", !.receipt = {c}] : r \in @}]
      PROVE  Ordinary(d, tx.db) /\ Running(d, tx.db) /\ ReceiptFor(d, tx.db, s, c)
  <2>1. row \in Row /\ WellFormedRow(row) /\ o.sessions[s] = {row}
    BY <1>5, OneRow, Zenon
  <2>2. PICK new : new = [row EXCEPT !.state = "active", !.receipt = {c}]
    BY Zenon
  <2>3. new \in Row /\ new.receipt = {c} /\ WellFormedRow(new)
    BY <1>5, <2>1, <2>2, Zenon DEF Row, SessionRow, WellFormedRow
  <2>4. PICK e : e = tx.db /\ e = SetRow(o, s, new)
    BY <1>5, <2>1, <2>2 DEF SetRow
  <2>. /\ e \in Registry /\ RowsWellFormed(e)
       /\ e.fence = o.fence /\ e.receipt = o.receipt /\ e.high = o.high
       /\ e.epochs = o.epochs /\ e.floors = o.floors /\ e.proofs = o.proofs
       /\ \A u \in Session : e.sessions[u] = IF u = s THEN {new} ELSE o.sessions[u]
    BY <2>3, <2>4, RewriteRow
  <2>5. d.fence = "admitted"
    BY <1>5, Zenon DEF ClockRefused
  <2>. \A p \in Principal : e.epochs[p] >= d.epochs[p]
    BY RegistryFields, RegistryConstants
  <2>. Ordinary(d, e) /\ Running(d, e)
    BY <2>5, Zenon DEF Ordinary, Running
  <2>. QED
    BY <2>3, <2>4, Zenon DEF ReceiptFor
<1>. QED
  <2>. \/ ClockRefused(d, t)
       \/ /\ ~ClockRefused(d, t)
          /\ \/ tx.db = d \/ tx.db = o
             \/ /\ \E row \in d.sessions[s] : row.state = "pending"
                /\ tx.db = [o EXCEPT !.sessions[s] =
                              {[r EXCEPT !.state = "active", !.receipt = {c}] : r \in @}]
    BY <1>3, Zenon DEF ActivateBootstrap, Committed, Reject, RowIs
  <2>. QED
    BY <1>1, <1>2, <1>4, <1>5, Zenon

\* Authenticate spends a proof that has no row.
LEMMA AuthenticateFacts ==
  ASSUME NEW d \in Registry, RowsWellFormed(d), NEW t \in Nat, NEW s \in Session,
         NEW p \in Proof, NEW i \in Nat, NEW tx, tx = Authenticate(d, t, s, p, i)
  PROVE  /\ Proceeds(d, tx.db)
         /\ tx.res = "ok" => ~Reserved(d, p) /\ HasRow(tx.db, p, i)
<1>1. CASE ClockRefused(d, t)
  <2>. tx = ClockFailure(d)
    BY <1>1, Zenon DEF Authenticate
  <2>. QED
    BY ClockFailureFacts, Zenon
<1>2. CASE tx.db = d /\ tx.res # "ok"
  BY <1>2, Unchanged, Zenon
<1>3. CASE ~ClockRefused(d, t) /\ ~Reserved(d, p) /\ tx = Committed(ReserveProof(Observed(d, t), p, i))
  <2>. USE <1>3
  <2>1. PICK o : o = Observed(d, t)
    BY Zenon
  <2>. /\ o \in Registry /\ RowsWellFormed(o)
       /\ o.high >= d.high /\ o.fence = d.fence /\ o.receipt = d.receipt
       /\ o.epochs = d.epochs /\ o.floors = d.floors
       /\ o.sessions = d.sessions /\ o.proofs = d.proofs
    BY <2>1, ObservedFacts
  <2>2. PICK e : e = ReserveProof(o, p, i)
    BY Zenon
  <2>. /\ e \in Registry
       /\ e.high = o.high /\ e.fence = o.fence /\ e.receipt = o.receipt
       /\ e.epochs = o.epochs /\ e.floors = o.floors
       /\ e.sessions = o.sessions /\ o.proofs \subseteq e.proofs
       /\ HasRow(e, p, i)
    BY <2>2, ReserveProofFacts, Zenon
  <2>3. d.fence = "admitted"
    BY Zenon DEF ClockRefused
  <2>4. RowsWellFormed(e) /\ SameReceipts(d, e)
    BY Zenon DEF RowsWellFormed, SameReceipts
  <2>5. \A b \in Principal : e.epochs[b] >= d.epochs[b]
    BY RegistryFields, RegistryConstants
  <2>. Proceeds(d, e)
    BY <2>3, <2>4, <2>5, AdmittedProceeds, Zenon
  <2>. tx = Committed(e)
    BY <2>1, <2>2, Zenon
  <2>. QED
    BY DEF Committed
<1>. QED
  BY <1>1, <1>2, <1>3, Zenon DEF Authenticate, Reject

\* Revoke keeps the receipt of the row it revokes.
LEMMA RevokeFacts ==
  ASSUME NEW d \in Registry, RowsWellFormed(d), NEW t \in Nat, NEW s \in Session,
         NEW c \in Revocation, NEW tx, tx = Revoke(d, t, s, c)
  PROVE  Proceeds(d, tx.db)
<1>1. CASE ClockRefused(d, t)
  BY <1>1, ClockFailureFacts, Zenon DEF Revoke
<1>2. CASE tx.db = d
  BY <1>2, Unchanged, Zenon
<1>3. PICK o : o = Observed(d, t)
  BY Zenon
<1>4. /\ o \in Registry /\ RowsWellFormed(o) /\ o.high >= d.high /\ o.fence = d.fence
      /\ o.receipt = d.receipt /\ o.epochs = d.epochs /\ o.floors = d.floors
      /\ o.sessions = d.sessions /\ o.proofs = d.proofs
  BY <1>3, ObservedFacts
<1>5. CASE ~ClockRefused(d, t) /\ tx.db = o
  BY <1>3, <1>5, ObservedProceeds, Zenon
<1>6. ASSUME ~ClockRefused(d, t), NEW row \in d.sessions[s], row.state = "active",
             tx.db = [o EXCEPT !.sessions[s] =
                        {[r EXCEPT !.state = "revoked", !.revocation = {c}] : r \in @}]
      PROVE  Proceeds(d, tx.db)
  <2>1. row \in Row /\ WellFormedRow(row) /\ o.sessions[s] = {row}
    BY <1>4, <1>6, OneRow, Zenon
  <2>2. PICK new : new = [row EXCEPT !.state = "revoked", !.revocation = {c}]
    BY Zenon
  <2>3. new \in Row /\ new.receipt = row.receipt /\ WellFormedRow(new)
    BY <1>6, <2>1, <2>2, Zenon DEF Row, SessionRow, WellFormedRow
  <2>4. PICK e : e = tx.db /\ e = SetRow(o, s, new)
    BY <1>6, <2>1, <2>2 DEF SetRow
  <2>. /\ e \in Registry /\ RowsWellFormed(e)
       /\ e.fence = o.fence /\ e.receipt = o.receipt /\ e.high = o.high
       /\ e.epochs = o.epochs /\ e.floors = o.floors /\ e.proofs = o.proofs
       /\ \A u \in Session : e.sessions[u] = IF u = s THEN {new} ELSE o.sessions[u]
    BY <1>4, <2>3, <2>4, RewriteRow
  <2>5. d.fence = "admitted"
    BY <1>6, Zenon DEF ClockRefused
  <2>6. \A p \in Principal : e.epochs[p] >= d.epochs[p]
    BY <1>4, RegistryFields, RegistryConstants
  <2>. SameReceipts(d, e)
    BY <1>4, <1>6, <2>3, Zenon DEF SameReceipts
  <2>. Proceeds(d, e)
    BY <1>4, <2>5, <2>6, AdmittedProceeds, Zenon
  <2>. QED
    BY <2>4, Zenon
<1>. QED
  <2>. \/ ClockRefused(d, t)
       \/ /\ ~ClockRefused(d, t)
          /\ \/ tx.db = d \/ tx.db = o
             \/ /\ \E row \in d.sessions[s] : row.state = "active"
                /\ tx.db = [o EXCEPT !.sessions[s] =
                              {[r EXCEPT !.state = "revoked", !.revocation = {c}] : r \in @}]
    BY <1>3, Zenon DEF Revoke, Committed, Reject, RowIs
  <2>. QED
    BY <1>1, <1>2, <1>5, <1>6, Zenon

\* Expired rows keep their receipt.
LEMMA ExpireFacts ==
  ASSUME NEW d \in Registry, RowsWellFormed(d), NEW S \in SUBSET Due(d)
  PROVE  LET e == Expire(d, S)
         IN  /\ e \in Registry /\ RowsWellFormed(e) /\ SameReceipts(d, e)
             /\ e.fence = d.fence /\ e.receipt = d.receipt /\ e.high = d.high
             /\ e.epochs = d.epochs /\ e.floors = d.floors /\ e.proofs = d.proofs
<1>1. d.sessions \in [Session -> SUBSET Row]
  BY RegistryFields, Zenon
<1>2. PICK g : g = [s \in Session |-> IF s \in S
                                      THEN {[r EXCEPT !.state = "expired"] : r \in d.sessions[s]}
                                      ELSE d.sessions[s]]
  BY Zenon
<1>3. ASSUME NEW s \in Session
      PROVE  \/ g[s] = d.sessions[s]
             \/ \E row \in d.sessions[s], new \in Row :
                  g[s] = {new} /\ new.receipt = row.receipt /\ WellFormedRow(new)
  <2>1. CASE s \notin S
    BY <1>2, <2>1, Zenon
  <2>2. CASE s \in S
    <3>1. PICK row \in d.sessions[s] : row.state = "active"
      BY <2>2, Zenon DEF Due, RowIs
    <3>. row \in Row /\ WellFormedRow(row) /\ d.sessions[s] = {row}
      BY OneRow, Zenon
    <3>. PICK new : new = [row EXCEPT !.state = "expired"]
      BY Zenon
    <3>. new \in Row /\ new.receipt = row.receipt /\ WellFormedRow(new)
      BY <3>1, Zenon DEF Row, SessionRow, WellFormedRow
    <3>. g[s] = {new}
      BY <1>2, <2>2, Zenon
    <3>. QED
      BY Zenon
  <2>. QED
    BY <2>1, <2>2, Zenon
<1>4. g \in [Session -> SUBSET Row]
  <2>. \A s \in Session : g[s] \in SUBSET Row
    BY <1>1, <1>3, Zenon
  <2>. QED
    BY <1>2, Zenon
<1>. PICK e : e = [d EXCEPT !.sessions = g]
  BY Zenon
<1>5. e = Expire(d, S)
  BY <1>2, Zenon DEF Expire
<1>. /\ e \in Registry /\ e.sessions = g
     /\ e.fence = d.fence /\ e.receipt = d.receipt /\ e.high = d.high
     /\ e.epochs = d.epochs /\ e.floors = d.floors /\ e.proofs = d.proofs
  BY <1>4, SetSessions, Zenon
<1>. RowsWellFormed(e) /\ SameReceipts(d, e)
  BY <1>3 DEF RowsWellFormed, SameReceipts
<1>. QED
  BY <1>5, Zenon

\* One pass of the expiry loop.
LEMMA ExpireDueFacts ==
  ASSUME NEW d \in Registry, RowsWellFormed(d), NEW t \in Nat,
         NEW S \in SUBSET Due(Observed(d, t))
  PROVE  Proceeds(d, ExpireDue(d, t, S).db)
<1>1. CASE ClockRefused(d, t)
  BY <1>1, ClockFailureFacts, Zenon DEF ExpireDue
<1>2. CASE ~ClockRefused(d, t)
  <2>. PICK o : o = Observed(d, t)
    BY Zenon
  <2>. /\ o \in Registry /\ RowsWellFormed(o) /\ o.high >= d.high /\ o.fence = d.fence
       /\ o.receipt = d.receipt /\ o.epochs = d.epochs /\ o.floors = d.floors
       /\ o.sessions = d.sessions /\ o.proofs = d.proofs
    BY ObservedFacts
  <2>1. PICK e : e = Expire(o, S)
    BY Zenon
  <2>. /\ e \in Registry /\ RowsWellFormed(e) /\ SameReceipts(o, e)
       /\ e.fence = o.fence /\ e.receipt = o.receipt /\ e.high = o.high
       /\ e.epochs = o.epochs /\ e.floors = o.floors /\ e.proofs = o.proofs
    BY <2>1, ExpireFacts, Zenon
  <2>2. d.fence = "admitted"
    BY <1>2, Zenon DEF ClockRefused
  <2>3. SameReceipts(d, e)
    BY DEF SameReceipts
  <2>. \A p \in Principal : e.epochs[p] >= d.epochs[p]
    BY RegistryFields, RegistryConstants
  <2>. Proceeds(d, e)
    BY <2>2, <2>3, AdmittedProceeds, Zenon
  <2>. QED
    BY <1>2, <2>1, Zenon DEF ExpireDue, Committed
<1>. QED
  BY <1>1, <1>2, Zenon

\* CleanupProofs deletes rows whose retention the high-water mark has passed.
LEMMA CleanupFacts ==
  ASSUME NEW d \in Registry, RowsWellFormed(d), NEW t \in Nat,
         NEW X \in SUBSET Deletable(Observed(d, t))
  PROVE  Proceeds(d, CleanupProofs(d, t, X).db)
<1>1. CASE ClockRefused(d, t)
  BY <1>1, ClockFailureFacts, Zenon DEF CleanupProofs
<1>2. CASE ~ClockRefused(d, t)
  <2>. PICK o : o = Observed(d, t)
    BY Zenon
  <2>. /\ o \in Registry /\ RowsWellFormed(o) /\ o.high >= d.high /\ o.fence = d.fence
       /\ o.receipt = d.receipt /\ o.epochs = d.epochs /\ o.floors = d.floors
       /\ o.sessions = d.sessions /\ o.proofs = d.proofs
    BY ObservedFacts
  <2>1. PICK Y \in SUBSET ReplayRow : Y = o.proofs \ X
    BY RegistryFields, Zenon
  <2>2. PICK e : e = [o EXCEPT !.proofs = Y]
    BY Zenon
  <2>. /\ e \in Registry
       /\ e.fence = o.fence /\ e.receipt = o.receipt /\ e.high = o.high
       /\ e.epochs = o.epochs /\ e.floors = o.floors /\ e.sessions = o.sessions
       /\ e.proofs = Y
    BY <2>2, SetProofs
  <2>3. d.fence = "admitted"
    BY <1>2, Zenon DEF ClockRefused
  <2>4. RowsWellFormed(e) /\ SameReceipts(d, e)
    BY Zenon DEF RowsWellFormed, SameReceipts
  <2>5. \A p \in Principal : e.epochs[p] >= d.epochs[p]
    BY RegistryFields, RegistryConstants
  <2>. \A x \in d.proofs : x \in e.proofs \/ e.high > x.retain
    <3>. ASSUME NEW x \in X  PROVE o.high > x.retain
      <4>. x \in ReplayRow /\ x.retain < o.high
        BY RegistryFields, Zenon DEF Deletable
      <4>. QED
        BY RegistryFields, Zenon DEF ReplayRow
    <3>. QED
      BY <2>1, Zenon
  <2>. Proceeds(d, e)
    BY <2>3, <2>4, <2>5, AdmittedProceeds, Zenon
  <2>. QED
    BY <1>2, <2>1, <2>2, Zenon DEF CleanupProofs, Committed
<1>. QED
  BY <1>1, <1>2, Zenon

\* RecoverClock lowers the clock fence, never that of a restore.
LEMMA RecoverClockFacts ==
  ASSUME NEW d \in Registry, RowsWellFormed(d), NEW t \in Nat
  PROVE  Proceeds(d, RecoverClock(d, t, ClockReceipt).db)
<1>1. CASE d.fence # "clock_fenced" \/ t < d.high
  BY <1>1, Unchanged, Zenon DEF RecoverClock, Reject
<1>2. CASE d.fence = "clock_fenced" /\ ~(t < d.high)
  <2>. USE <1>2
  <2>. PICK e : e = [d EXCEPT !.fence = "admitted", !.high = t, !.receipt = {ClockReceipt}]
    BY Zenon
  <2>. /\ e \in Registry
       /\ e.fence = "admitted" /\ e.receipt = {ClockReceipt} /\ e.high = t
       /\ e.epochs = d.epochs /\ e.floors = d.floors /\ e.refs = d.refs
       /\ e.sessions = d.sessions /\ e.proofs = d.proofs
    BY Zenon DEF Registry, Database
  <2>. e.high >= d.high
    BY RegistryFields
  <2>. Proceeds(d, e)
    BY ClockWrite, Zenon
  <2>. QED
    BY Zenon DEF RecoverClock, Committed
<1>. QED
  BY <1>1, <1>2, Zenon

\* Abandoning the pending rows keeps everything else.
LEMMA AbandonFacts ==
  ASSUME NEW d \in Registry, RowsWellFormed(d)
  PROVE  LET e == AbandonPending(d)
         IN  /\ e \in Registry /\ RowsWellFormed(e) /\ SameReceipts(d, e)
             /\ e.fence = d.fence /\ e.receipt = d.receipt /\ e.high = d.high
             /\ e.epochs = d.epochs /\ e.floors = d.floors /\ e.refs = d.refs
             /\ e.proofs = d.proofs
<1>1. d.sessions \in [Session -> SUBSET Row]
  BY RegistryFields, Zenon
<1>2. PICK g : g = [s \in Session |->
                      {[r EXCEPT !.state = IF @ = "pending" THEN "abandoned" ELSE @]
                       : r \in d.sessions[s]}]
  BY Zenon
<1>3. ASSUME NEW s \in Session
      PROVE  \/ g[s] = {} /\ d.sessions[s] = {}
             \/ \E row \in d.sessions[s], new \in Row :
                  g[s] = {new} /\ new.receipt = row.receipt /\ WellFormedRow(new)
  <2>1. CASE d.sessions[s] = {}
    BY <1>2, <2>1, Zenon
  <2>. ASSUME NEW row \in d.sessions[s]
       PROVE  \E new \in Row : g[s] = {new} /\ new.receipt = row.receipt /\ WellFormedRow(new)
    <3>. row \in Row /\ WellFormedRow(row) /\ d.sessions[s] = {row}
      BY OneRow, Zenon
    <3>. PICK new : new = [row EXCEPT !.state = IF @ = "pending" THEN "abandoned" ELSE @]
      BY Zenon
    <3>. new \in Row /\ new.receipt = row.receipt /\ WellFormedRow(new)
      BY Zenon DEF Row, SessionRow, WellFormedRow
    <3>. g[s] = {new}
      BY <1>2, Zenon
    <3>. QED
      BY Zenon
  <2>. QED
    BY <2>1, Zenon
<1>4. g \in [Session -> SUBSET Row]
  <2>. \A s \in Session : g[s] \in SUBSET Row
    BY <1>1, <1>3, Zenon
  <2>. QED
    BY <1>2, Zenon
<1>. PICK e : e = [d EXCEPT !.sessions = g]
  BY Zenon
<1>5. e = AbandonPending(d)
  BY <1>2, Zenon DEF AbandonPending
<1>. /\ e \in Registry /\ e.sessions = g
     /\ e.fence = d.fence /\ e.receipt = d.receipt /\ e.high = d.high
     /\ e.epochs = d.epochs /\ e.floors = d.floors /\ e.refs = d.refs /\ e.proofs = d.proofs
  BY <1>4, SetSessions, Zenon
<1>. RowsWellFormed(e) /\ SameReceipts(d, e)
  BY <1>3 DEF RowsWellFormed, SameReceipts
<1>. QED
  BY <1>5, Zenon

\* What startup writes before it abandons the pending rows.
Reopened(d, t, restored) ==
  IF restored THEN [d EXCEPT !.fence = "restore_fenced", !.receipt = {}]
  ELSE IF t < d.high - ClockTolerance
  THEN [d EXCEPT !.fence = "clock_fenced", !.receipt = {}]
  ELSE Observed(d, t)

\* A restored registry is fenced as it is opened.
Fenced(d, e) ==
  /\ e \in Registry /\ RowsWellFormed(e)
  /\ e.fence = "restore_fenced" /\ e.receipt = {}
  /\ e.high = d.high /\ e.epochs = d.epochs /\ e.floors = d.floors
  /\ e.refs = d.refs /\ e.proofs = d.proofs

\* startup fences a restored registry, and otherwise keeps what ordinary
\* transactions keep.
LEMMA StartupFacts ==
  ASSUME NEW d \in Registry, RowsWellFormed(d), NEW t \in Nat, NEW restored \in BOOLEAN,
         NEW tx, tx = Startup(d, t, restored), tx.res = "ok"
  PROVE  /\ SameReceipts(d, tx.db)
         /\ ~restored => Ordinary(d, tx.db)
         /\ restored => Fenced(d, tx.db)
<1>. PICK o : o = Reopened(d, t, restored)
  BY Zenon
<1>1. tx.db = AbandonPending(o)
  BY Zenon DEF Startup, Reopened, Reject, Committed
<1>. /\ o \in Registry
     /\ o.high >= d.high /\ o.epochs = d.epochs /\ o.floors = d.floors /\ o.refs = d.refs
     /\ o.sessions = d.sessions /\ o.proofs = d.proofs
     /\ restored => o.fence = "restore_fenced" /\ o.receipt = {} /\ o.high = d.high
     /\ ~restored => /\ o.fence = "restore_fenced" => d.fence = "restore_fenced"
                     /\ o.receipt \subseteq d.receipt
  <2>1. d.high \in Nat /\ d.high >= d.high
    BY RegistryFields
  <2>2. CASE restored
    <3>. o = [d EXCEPT !.fence = "restore_fenced", !.receipt = {}]
      BY <2>2, Zenon DEF Reopened
    <3>. QED
      BY <2>1, <2>2, Zenon DEF Registry, Database
  <2>3. CASE ~restored /\ t < d.high - ClockTolerance
    <3>. o = [d EXCEPT !.fence = "clock_fenced", !.receipt = {}]
      BY <2>3, Zenon DEF Reopened
    <3>. QED
      BY <2>1, <2>3, Zenon DEF Registry, Database
  <2>4. CASE ~restored /\ ~(t < d.high - ClockTolerance)
    <3>. o = Observed(d, t)
      BY <2>4, Zenon DEF Reopened
    <3>. QED
      BY <2>4, ObservedFacts
  <2>. QED
    BY <2>2, <2>3, <2>4, Zenon
<1>2. RowsWellFormed(o)
  BY Zenon DEF RowsWellFormed
<1>3. PICK e : e = AbandonPending(o)
  BY Zenon
<1>. /\ e \in Registry /\ RowsWellFormed(e) /\ SameReceipts(o, e)
     /\ e.fence = o.fence /\ e.receipt = o.receipt /\ e.high = o.high
     /\ e.epochs = o.epochs /\ e.floors = o.floors /\ e.refs = o.refs
     /\ e.proofs = o.proofs
  BY <1>2, <1>3, AbandonFacts, Zenon
<1>4. SameReceipts(d, e)
  BY DEF SameReceipts
<1>5. \A p \in Principal : e.epochs[p] >= d.epochs[p]
  BY RegistryFields, RegistryConstants
<1>6. ASSUME ~restored  PROVE Ordinary(d, e)
  BY <1>5, <1>6, Zenon DEF Ordinary
<1>7. ASSUME restored  PROVE Fenced(d, e)
  BY <1>7, Zenon DEF Fenced
<1>. QED
  BY <1>1, <1>3, <1>4, <1>6, <1>7, Zenon

\* StageRestoreFloors only raises floors, up to those of the manifest.
LEMMA StageFacts ==
  ASSUME NEW d \in Registry, RowsWellFormed(d), NEW t \in Nat,
         NEW m, m.ref \in 1..MaxManifest, m.high \in Nat, m.floors \in [Principal -> 0..MaxEpoch],
         NEW tx, tx = StageRestoreFloors(d, t, m)
  PROVE  /\ tx.res # "ok" => tx.db = d
         /\ tx.res = "ok" =>
              /\ d.fence = "restore_fenced"
              /\ tx.db \in Registry /\ RowsWellFormed(tx.db)
              /\ tx.db.fence = d.fence /\ tx.db.receipt = d.receipt /\ tx.db.high >= d.high
              /\ tx.db.epochs = d.epochs /\ tx.db.sessions = d.sessions /\ tx.db.proofs = d.proofs
              /\ StagedFor(tx.db, m.ref)
              /\ \A p \in Principal : /\ tx.db.floors[p] >= d.floors[p]
                                      /\ tx.db.floors[p] >= m.floors[p]
<1>1. CASE tx.res # "ok" /\ tx.db = d
  BY <1>1, Zenon
<1>2. CASE /\ d.fence = "restore_fenced"
           /\ \A p \in Principal : ~(m.floors[p] > 0 /\ m.floors[p] < LastEpoch(d, p))
           /\ StagedFor(Staged(d, m), m.ref)
           /\ tx = Committed(Staged(d, m))
  <2>. d.high \in Nat /\ \A p \in Principal : d.floors[p] \in 0..MaxEpoch /\ d.epochs[p] \in 0..MaxEpoch
    BY RegistryFields, Zenon
  <2>1. PICK h \in Nat : h = Larger(d.high, m.high) /\ h >= d.high
    BY DEF Larger
  <2>. PICK f : f = [p \in Principal |-> IF m.floors[p] > 0 THEN m.floors[p] ELSE d.floors[p]]
    BY Zenon
  <2>2. f \in [Principal -> 0..MaxEpoch]
    BY Zenon
  <2>3. \A p \in Principal : f[p] >= d.floors[p] /\ f[p] >= m.floors[p]
    BY <1>2, RegistryConstants DEF LastEpoch, Larger
  <2>4. PICK g : g = [p \in Principal |-> IF m.floors[p] > 0 THEN {m.ref} ELSE d.refs[p]]
    BY Zenon
  <2>5. g \in [Principal -> SUBSET (1..MaxManifest)]
    BY <2>4, RegistryFields, Zenon
  <2>. PICK e : e = Staged(d, m)
    BY Zenon
  <2>6. e = [d EXCEPT !.high = h, !.floors = f, !.refs = g]
    BY <2>1, <2>4, Zenon DEF Staged
  <2>. /\ e \in Registry /\ e.floors = f /\ e.high = h
       /\ e.fence = d.fence /\ e.receipt = d.receipt /\ e.epochs = d.epochs
       /\ e.sessions = d.sessions /\ e.proofs = d.proofs
    BY <2>2, <2>5, <2>6, Zenon DEF Registry, Database
  <2>. RowsWellFormed(e)
    BY Zenon DEF RowsWellFormed
  <2>. QED
    BY <1>2, <2>1, <2>3 DEF Committed
<1>. QED
  BY <1>1, <1>2, Zenon DEF StageRestoreFloors, Reject

\* CompleteRestore admits a registry that is staged for the manifest, or finds
\* that it already has.
LEMMA CompleteFacts ==
  ASSUME NEW d \in Registry, RowsWellFormed(d), NEW ref, NEW c \in Operation,
         NEW tx, tx = CompleteRestore(d, ref, c)
  PROVE  \/ tx.res # "ok" /\ tx.db = d
         \/ tx.res = "ok" /\ tx.db = d /\ d.fence = "admitted" /\ d.receipt = {c}
         \/ /\ tx.res = "ok" /\ d.fence = "restore_fenced"
            /\ tx.db \in Registry /\ RowsWellFormed(tx.db) /\ tx.db.fence = "admitted"
            /\ tx.db.receipt = {c} /\ tx.db.high = d.high
            /\ tx.db.epochs = d.epochs /\ tx.db.floors = d.floors
            /\ tx.db.sessions = d.sessions /\ tx.db.proofs = d.proofs
<1>1. CASE \/ tx.res # "ok" /\ tx.db = d
           \/ tx.res = "ok" /\ tx.db = d /\ d.fence = "admitted" /\ d.receipt = {c}
  BY <1>1, Zenon
<1>2. CASE /\ d.fence = "restore_fenced"
           /\ tx = Committed([d EXCEPT !.fence = "admitted", !.receipt = {c}])
  <2>1. PICK X \in SUBSET (Operation \cup {ClockReceipt}) : X = {c}
    BY Zenon
  <2>2. PICK v : v = [d EXCEPT !.fence = "admitted"]
    BY Zenon
  <2>3. /\ v \in Registry /\ v.fence = "admitted" /\ v.high = d.high
        /\ v.epochs = d.epochs /\ v.floors = d.floors
        /\ v.sessions = d.sessions /\ v.proofs = d.proofs
    BY <2>2, SetFence, Zenon
  <2>4. PICK e : e = [v EXCEPT !.receipt = X]
    BY Zenon
  <2>. /\ e \in Registry /\ e.fence = "admitted" /\ e.receipt = X /\ e.high = d.high
       /\ e.epochs = d.epochs /\ e.floors = d.floors
       /\ e.sessions = d.sessions /\ e.proofs = d.proofs
    <3>. /\ e \in Registry
         /\ e.fence = v.fence /\ e.receipt = X /\ e.high = v.high
         /\ e.epochs = v.epochs /\ e.floors = v.floors
         /\ e.sessions = v.sessions /\ e.proofs = v.proofs
      BY <2>3, <2>4, SetReceipt, Zenon
    <3>. QED
      BY <2>3, Zenon
  <2>5. RowsWellFormed(e)
    BY Zenon DEF RowsWellFormed
  <2>. tx = Committed(e)
    BY <1>2, <2>1, <2>2, <2>4, Zenon
  <2>. tx.res = "ok" /\ tx.db = e
    BY DEF Committed
  <2>. QED
    BY <1>2, <2>1, <2>5, Zenon
<1>. QED
  BY <1>1, <1>2, Zenon DEF CompleteRestore, Reject, Committed

(***************************************************************************)
(* Ledgers                                                                 *)
(***************************************************************************)
\* What an append keeps.
Grows(l, m) ==
  /\ m \in Ledger
  /\ l.records \subseteq m.records
  /\ m.fence = l.fence /\ m.backup = l.backup /\ m.accepted = l.accepted

\* A ledger, field by field.
LEMMA LedgerFields ==
  ASSUME NEW l \in Ledger
  PROVE  /\ l.fence \in {"admitted", "restore_fenced"}
         /\ l.backup \subseteq Nat
         /\ l.accepted \subseteq [ref: 1..MaxManifest, receipt: Operation]
         /\ l.records \subseteq Record
  BY Zenon DEF Ledger, Trail

Acceptance == [ref: 1..MaxManifest, receipt: Operation]

Accepting(l, f, A) == [l EXCEPT !.fence = f, !.accepted = A]

\* A write of the fence and the accepted manifest only.
LEMMA SetAccepted ==
  ASSUME NEW l \in Ledger, NEW f \in {"admitted", "restore_fenced"}, NEW A \in SUBSET Acceptance
  PROVE  LET m == Accepting(l, f, A)
         IN  /\ m \in Ledger /\ m.fence = f /\ m.accepted = A
             /\ m.records = l.records /\ m.backup = l.backup
  BY Zenon DEF Accepting, Ledger, Trail, Acceptance

\* The record of an operation.
LEMMA EntryIsRecord ==
  ASSUME NEW op \in Operation,
         NEW what \in {"allow", "deny", "unavailable", "collision", "revoked", "restored", "installed"}
  PROVE  /\ Entry(op, what) \in Record
         /\ Entry(op, what).op = op /\ Entry(op, what).what = what
  BY Zenon DEF Entry, Record

\* appendRecord leaves its record in the ledger if it answers.
LEMMA AppendRecordFacts ==
  ASSUME NEW l \in Ledger, NEW x \in Record,
         NEW tx, tx = AppendRecord(l, x)
  PROVE  /\ Grows(l, tx.ledger)
         /\ tx.res = "ok" => x \in tx.ledger.records
         /\ tx.res # "ok" => tx.ledger = l
<1>1. CASE tx.ledger = l /\ (tx.res = "ok" => x \in l.records)
  BY <1>1, Zenon DEF Grows
<1>2. CASE tx = Done([l EXCEPT !.records = @ \cup {x}])
  <2>. PICK X \in SUBSET Record : X = l.records \cup {x}
    BY LedgerFields, Zenon
  <2>. PICK m : m = [l EXCEPT !.records = X]
    BY Zenon
  <2>. /\ m \in Ledger /\ m.records = X
       /\ m.fence = l.fence /\ m.backup = l.backup /\ m.accepted = l.accepted
    BY Zenon DEF Ledger, Trail
  <2>. tx.res = "ok" /\ tx.ledger = m
    BY <1>2 DEF Done
  <2>. QED
    BY Zenon DEF Grows
<1>. QED
  BY <1>1, <1>2, Zenon DEF AppendRecord, Done, Refused

\* Append is refused behind the fence.
LEMMA AppendFacts ==
  ASSUME NEW l \in Ledger, NEW x \in Record,
         NEW tx, tx = Append(l, x)
  PROVE  /\ Grows(l, tx.ledger)
         /\ tx.res = "ok" => x \in tx.ledger.records
<1>1. CASE l.fence # "admitted"
  <2>. tx.ledger = l /\ tx.res = "unavailable"
    BY <1>1, Zenon DEF Append, Refused
  <2>. QED
    BY Zenon DEF Grows
<1>2. CASE l.fence = "admitted"
  <2>. tx = AppendRecord(l, x)
    BY <1>2, Zenon DEF Append
  <2>. QED
    BY AppendRecordFacts, Zenon
<1>. QED
  BY <1>1, <1>2, Zenon

\* FenceRestored raises the fence of a ledger that was restored.
LEMMA FenceFacts ==
  ASSUME NEW l \in Ledger, l.fence = "admitted", NEW m, m = FenceRestored(l, 1).ledger
  PROVE  /\ m \in Ledger /\ m.records = l.records
         /\ m.fence = "restore_fenced" /\ m.accepted = {}
<1>1. m = [l EXCEPT !.fence = "restore_fenced", !.backup = {1}, !.accepted = {}]
  BY Zenon DEF FenceRestored, Done
<1>2. PICK v : v = [l EXCEPT !.backup = {1}]
  BY Zenon
<1>3. v \in Ledger /\ v.records = l.records
  BY <1>2 DEF Ledger, Trail
<1>4. m = Accepting(v, "restore_fenced", {})
  BY <1>1, <1>2, <1>3, Zenon DEF Accepting, Ledger, Trail
<1>. QED
  BY <1>3, <1>4, SetAccepted

\* CommitRestore lowers the fence with the manifest it accepts.
LEMMA CommitFacts ==
  ASSUME NEW l \in Ledger, l.fence = "restore_fenced",
         NEW m, m.ref \in 1..MaxManifest, NEW x \in Record,
         NEW tx, tx = CommitRestore(l, m, x)
  PROVE  /\ tx.res # "ok" => tx.ledger = l
         /\ tx.res = "ok" =>
              /\ tx.ledger \in Ledger
              /\ l.records \subseteq tx.ledger.records
              /\ tx.ledger.fence = "admitted"
              /\ tx.ledger.accepted = {[ref |-> m.ref, receipt |-> x.op]}
<1>1. CASE tx.res # "ok" /\ tx.ledger = l
  BY <1>1, Zenon
<1>2. PICK a : a = AppendRecord(l, x)
  BY Zenon
<1>3. CASE /\ a.res = "ok"
           /\ tx = Done([a.ledger EXCEPT !.fence = "admitted",
                           !.accepted = {[ref |-> m.ref, receipt |-> x.op]}])
  <2>1. Grows(l, a.ledger)
    BY <1>2, AppendRecordFacts, Zenon
  <2>2. x.op \in Operation
    BY Zenon DEF Record
  <2>3. PICK A \in SUBSET Acceptance : A = {[ref |-> m.ref, receipt |-> x.op]}
    <3>. [ref |-> m.ref, receipt |-> x.op] \in Acceptance
      BY <2>2, Zenon DEF Acceptance
    <3>. QED
      BY Zenon
  <2>. PICK v : v = a.ledger /\ v \in Ledger
    BY <2>1, Zenon DEF Grows
  <2>. PICK e : e = Accepting(v, "admitted", A)
    BY Zenon
  <2>. /\ e \in Ledger /\ e.records = v.records /\ e.fence = "admitted" /\ e.accepted = A
    BY SetAccepted
  <2>. tx.res = "ok" /\ tx.ledger = e
    BY <1>3, <2>3 DEF Done, Accepting
  <2>. QED
    BY <2>1, <2>3, Zenon DEF Grows
<1>. AcceptedRestore(l, m) = {}
  BY Zenon DEF AcceptedRestore
<1>. QED
  BY <1>1, <1>2, <1>3, Zenon DEF CommitRestore, Refused, Done

(***************************************************************************)
(* The databases under the requests                                        *)
(***************************************************************************)
\* A transaction of a request or of the registry's maintenance, and an append,
\* keep what is known of the databases.
LEMMA WorldKept ==
  ASSUME World, UNCHANGED requestVars,
         Ordinary(db, db'), Running(db, db'), Grows(trail, trail'),
         RowsAudited(db', trail'), faults' \in Nat,
         iat' \in [Proof -> SUBSET Nat], DatesInv'
  PROVE  World'
<1>. /\ now' = now /\ opened' = opened /\ unfenced' = unfenced /\ owed' = owed
     /\ backup' = backup /\ manifests' = manifests /\ recovery' = recovery /\ era' = era
  BY Zenon DEF requestVars
<1>1. WorldTypeOK'
  BY Zenon DEF World, WorldTypeOK, Ordinary, Grows
<1>2. BackupInv' /\ ManifestInv'
  BY Zenon DEF World, BackupInv, ManifestInv
<1>3. EraInv'
  BY Zenon DEF World, EraInv, Ordinary, Grows
<1>4. AcceptedInv'
  <2>1. SUFFICES ASSUME NEW a \in trail.accepted
                 PROVE  /\ trail'.fence = "admitted"
                        /\ a.ref \in 1..Cardinality(manifests') /\ a.receipt = Recovered(a.ref)
                        /\ db'.fence = "restore_fenced" => StagedFor(db', a.ref)
                        /\ db'.fence = "restore_fenced" \/ ~owed' =>
                             \A m \in manifests' : m.ref = a.ref => AboveFloors(m)'
    BY Zenon DEF AcceptedInv, Grows
  <2>. /\ trail.fence = "admitted"
       /\ a.ref \in 1..Cardinality(manifests) /\ a.receipt = Recovered(a.ref)
       /\ db.fence = "restore_fenced" => StagedFor(db, a.ref)
       /\ db.fence = "restore_fenced" \/ ~owed =>
            \A m \in manifests : m.ref = a.ref => AboveFloors(m)
    BY <2>1, Zenon DEF World, AcceptedInv
  <2>2. db'.fence = "restore_fenced" => StagedFor(db', a.ref)
    BY Zenon DEF Ordinary, StagedFor
  <2>. \A m : AboveFloors(m) => AboveFloors(m)'
    BY Zenon DEF AboveFloors, Ordinary
  <2>. db'.fence = "restore_fenced" => db.fence = "restore_fenced"
    BY Zenon DEF Ordinary
  <2>. QED
    BY <2>2, Zenon DEF Grows
<1>. RecoveryInv'
  <2>1. recovery' # {} => Up'
    BY Zenon DEF World, RecoveryInv, Up
  <2>. ASSUME NEW v \in recovery  PROVE RecoveryStep(v)'
    <3>. RecoveryStep(v)
      BY Zenon DEF World, RecoveryInv
    <3>1. AcceptedRestore(trail', v.manifest) = AcceptedRestore(trail, v.manifest)
      BY Zenon DEF AcceptedRestore, Grows
    <3>. v.step = "commit" => /\ db'.fence = "restore_fenced"
                              /\ StagedFor(db', v.manifest.ref)
                              /\ AboveFloors(v.manifest)'
      <4>. v.step = "commit" => db' = db
        BY Zenon DEF RecoveryStep, Running
      <4>. QED
        BY Zenon DEF RecoveryStep, AboveFloors, StagedFor
    <3>. QED
      BY <3>1, Zenon DEF RecoveryStep, Grows
  <2>. QED
    BY <2>1, Zenon DEF RecoveryInv
<1>. QED
  BY <1>1, <1>2, <1>3, <1>4, Zenon DEF World

\* A ledger that grows keeps the rows audited.
LEMMA AuditedKept ==
  ASSUME NEW d, NEW e, NEW l, NEW m, RowsAudited(d, l), SameReceipts(d, e),
         l.records \subseteq m.records
  PROVE  RowsAudited(e, m)
  BY DEF RowsAudited, SameReceipts

\* What a step leaves to the requests it does not touch.
Frame ==
  /\ era' = era
  /\ trail.records \subseteq trail'.records
  /\ \A p \in Proof : iat[p] # {} => iat'[p] = iat[p]
  /\ db'.high >= db.high
  /\ \A p \in Principal : db'.epochs[p] >= db.epochs[p]
  /\ \A x \in db.proofs : x \in db'.proofs \/ db'.high > x.retain
  /\ Unserved' => Unserved
  /\ ~owed' => \/ Unserved
               \/ /\ ~owed /\ trail'.accepted = trail.accepted
                  /\ \A m \in manifests', a \in trail.accepted : m.ref = a.ref => m \in manifests

\* The row of a spent proof is only lost behind the high-water mark.
LEMMA KeptStays ==
  ASSUME World, World', Frame, NEW p \in Proof, NEW t \in Nat, Kept(p, t)
  PROVE  Kept(p, t)'
<1>. /\ db.high \in Nat /\ db'.high \in Nat
     /\ \A x \in db.proofs : x.retain \in Nat
  <2>. db \in Registry /\ db' \in Registry
    BY Zenon DEF World, WorldTypeOK
  <2>. QED
    BY RegistryFields, Zenon DEF ReplayRow
<1>1. CASE db.high > t + ProofWindow + 1
  BY <1>1, RegistryConstants DEF Kept, Frame
<1>2. ASSUME NEW x \in db.proofs, x.proof = p, x.retain = t + ProofWindow + 1
      PROVE  Kept(p, t)'
  BY <1>2, Zenon DEF Kept, HasRow, Frame
<1>. QED
  BY <1>1, <1>2, Zenon DEF Kept, HasRow

\* A request that does not move.
LEMMA RequestStays ==
  ASSUME World, World', Frame, NEW r \in Request, NEW q \in State, RequestInv(r, q),
         opened' = opened \/ q.step = "end"
  PROVE  RequestInv(r, q)'
<1>1. StepInv(r, q)'
  BY Zenon DEF RequestInv, StepInv, Frame, Up
<1>2. AnswerInv(q)'
  BY Zenon DEF RequestInv, AnswerInv, Frame
<1>3. ProofInv(q)'
  <2>1. SUFFICES ASSUME q.reserved, q.era = era, NEW p \in q.proof
                 PROVE  iat'[p] # {} /\ \A t \in iat'[p] : Kept(p, t)'
    BY Zenon DEF ProofInv, Frame
  <2>. p \in Proof
    BY Zenon DEF State
  <2>. iat[p] # {} /\ iat'[p] = iat[p] /\ iat[p] \subseteq Nat /\ \A t \in iat[p] : Kept(p, t)
    BY <2>1, Zenon DEF RequestInv, ProofInv, Frame, World, WorldTypeOK
  <2>. QED
    BY KeptStays, Zenon
<1>. EpochInv(q)'
  <2>1. q.epoch \in Nat /\ q.principal \subseteq Principal
    BY Zenon DEF State
  <2>2. \A p \in Principal : db.epochs[p] \in Nat /\ db'.epochs[p] \in Nat
    <3>. db \in Registry /\ db' \in Registry
      BY Zenon DEF World, WorldTypeOK
    <3>. QED
      BY RegistryFields, RegistryConstants
  <2>3. SUFFICES ASSUME q.epoch > 0
                 PROVE  /\ q.principal # {}
                        /\ q.era = era' => \A p \in q.principal : q.epoch <= db'.epochs[p]
                        /\ q.era = 1 =>
                             /\ ~Unserved'
                             /\ ~owed' => \A m \in manifests', a \in trail'.accepted,
                                             p \in q.principal :
                                            m.ref = a.ref => q.epoch > m.floors[p]
    BY Zenon DEF EpochInv
  <2>. EpochInv(q)
    BY Zenon DEF RequestInv
  <2>4. ASSUME q.era = era', NEW p \in q.principal  PROVE q.epoch <= db'.epochs[p]
    <3>. p \in Principal /\ q.epoch <= db.epochs[p]
      BY <2>1, <2>3, <2>4, Zenon DEF EpochInv, Frame
    <3>. db'.epochs[p] >= db.epochs[p]
      BY Zenon DEF Frame
    <3>. QED
      BY <2>1, <2>2
  <2>. QED
    BY <2>3, <2>4, Zenon DEF EpochInv, Frame
<1>. QED
  BY <1>1, <1>2, <1>3, Zenon DEF RequestInv

(***************************************************************************)
(* Steps beside the requests                                               *)
(***************************************************************************)
\* ProofUsedOnce, of one step.
ProofStep ==
  \A p \in Proof : Holders(p) # {} /\ Holders(p)' # Holders(p) /\ era' = era =>
    \A t \in iat[p] : db'.high > t + ProofWindow

\* A step that leaves the requests alone.
LEMMA RequestsStay ==
  ASSUME World, World', Requests, Frame, opened' = opened \/ Idle, req' = req
  PROVE  Requests' /\ ProofStep
<1>1. ASSUME NEW r \in Request, NEW q \in req[r]  PROVE RequestInv(r, q)'
  <2>. q \in State /\ RequestInv(r, q)
    BY Zenon DEF Requests
  <2>. opened' = opened \/ q.step = "end"
    BY Zenon DEF Idle
  <2>. QED
    BY RequestStays, Zenon
<1>. Requests'
  BY <1>1, Zenon DEF Requests, EpochsDiffer
<1>. \A p \in Proof : era' = era => Holders(p)' = Holders(p)
  BY Zenon DEF Holders
<1>. QED
  BY Zenon DEF ProofStep

\* What a step that serves a request gives.
Served == World' /\ Frame /\ opened' = opened /\ UNCHANGED requestVars

\* The process has both databases open, and serves no restored registry that
\* is not fenced.
LEMMA UpFacts ==
  ASSUME World, Up
  PROVE  unfenced = {} /\ (Unserved <=> db.fence = "restore_fenced")
  BY Zenon DEF World, WorldTypeOK, EraInv, Up, Both, Unserved

\* A step of the databases and the proofs alone.
LEMMA WorldServes ==
  ASSUME World, Up, UNCHANGED requestVars,
         Ordinary(db, db'), Running(db, db'), Grows(trail, trail'),
         RowsAudited(db', trail'), faults' \in Nat,
         iat' \in [Proof -> SUBSET Nat], DatesInv',
         \A p \in Proof : iat[p] # {} => iat'[p] = iat[p]
  PROVE  Served
<1>. /\ opened' = opened /\ unfenced' = unfenced /\ owed' = owed
     /\ manifests' = manifests /\ era' = era
  BY Zenon DEF requestVars
<1>1. World'
  BY WorldKept, Zenon
<1>. Unserved' => Unserved
  BY Zenon DEF Unserved, Ordinary
<1>. Frame
  BY Zenon DEF Frame, Ordinary, Grows
<1>. QED
  BY <1>1, Zenon DEF Served

(***************************************************************************)
(* Steps that leave the requests alone                                     *)
(***************************************************************************)
\* A step that leaves the requests alone keeps what it keeps of the world.
LEMMA WorldStays ==
  ASSUME ServiceInv, World', Frame, opened' = opened \/ Idle, req' = req
  PROVE  ServiceInv' /\ ProofStep
  BY RequestsStay, Zenon DEF ServiceInv

\* A step that changes neither database.
LEMMA NothingMoves ==
  ASSUME World, UNCHANGED <<db, trail, unfenced, owed, iat, era>>, manifests' = manifests
  PROVE  Frame
<1>1. db \in Registry
  BY Zenon DEF World, WorldTypeOK
<1>. db.high \in Nat /\ \A p \in Principal : db.epochs[p] \in Nat
  BY <1>1, RegistryFields, RegistryConstants
<1>. db'.high >= db.high /\ \A p \in Principal : db'.epochs[p] >= db.epochs[p]
  OBVIOUS
<1>. QED
  BY Zenon DEF Frame, Unserved

(***************************************************************************)
(* What the steps of a recovery share                                      *)
(***************************************************************************)
\* A step of the recovery, from what it does to the two databases.
LEMMA RecoveryKeeps ==
  ASSUME ServiceInv, UNCHANGED recoverFrame, EraInv', AcceptedInv', RecoveryInv',
         db' \in Registry, RowsWellFormed(db'),
         trail' \in Ledger, RowsAudited(db', trail'),
         owed' \in BOOLEAN, Frame
  PROVE  ServiceInv' /\ ProofStep
<1>1. World
  BY Zenon DEF ServiceInv
<1>. WorldTypeOK' /\ BackupInv' /\ ManifestInv' /\ DatesInv'
  BY <1>1, Zenon DEF World, WorldTypeOK, BackupInv, ManifestInv, DatesInv, recoverFrame
<1>. World'
  BY Zenon DEF World
<1>. QED
  BY WorldStays, Zenon DEF recoverFrame

\* A step of the recovery that changes neither database.
LEMMA RecoveryMoves ==
  ASSUME ServiceInv, UNCHANGED <<recoverFrame, db, trail, owed>>, faults' \in Nat,
         recovery' # {} => Up,
         \A v \in recovery' : RecoveryStep(v)
  PROVE  ServiceInv' /\ ProofStep
<1>. World
  BY Zenon DEF ServiceInv
<1>1. /\ db' \in Registry /\ RowsWellFormed(db') /\ trail' \in Ledger
      /\ RowsAudited(db', trail') /\ owed' \in BOOLEAN
  BY Zenon DEF World, WorldTypeOK
<1>2. EraInv' /\ AcceptedInv'
  BY Zenon DEF World, EraInv, AcceptedInv, AboveFloors, recoverFrame
<1>3. ASSUME NEW v \in recovery'  PROVE RecoveryStep(v)'
  <2>. RecoveryStep(v)
    BY Zenon
  <2>. QED
    BY Zenon DEF RecoveryStep, AboveFloors, recoverFrame
<1>. RecoveryInv'
  BY <1>3, Zenon DEF RecoveryInv, Up, recoverFrame
<1>. Frame
  BY NothingMoves, Zenon DEF recoverFrame
<1>. QED
  BY <1>1, <1>2, RecoveryKeeps, Zenon

\* The manifest of a running recovery.
LEMMA ManifestFacts ==
  ASSUME World, NEW m \in manifests
  PROVE  /\ m.ref \in 1..Cardinality(manifests) /\ m.ref \in 1..MaxManifest
         /\ m.high \in Nat /\ m.floors \in [Principal -> 0..MaxEpoch]
         /\ Recovered(m.ref) \in Operation
<1>1. Cardinality(manifests) \in Nat /\ Cardinality(manifests) <= MaxManifest
  BY ServiceAssumption DEF World, ManifestInv
<1>. m.ref \in 1..Cardinality(manifests) /\ m.floors \in [Principal -> 0..MaxEpoch]
  BY Zenon DEF World, ManifestInv
<1>. m.ref \in 1..MaxManifest
  BY <1>1, ServiceAssumption
<1>. m.high \in Nat
  BY Zenon DEF World, WorldTypeOK, Manifest
<1>. QED
  BY Zenon DEF Operation

\* RestoreCoordinator.Recover begins.
LEMMA RecoverKeeps ==
  ASSUME ServiceInv, NEW m \in manifests, Recover(m)
  PROVE  ServiceInv' /\ ProofStep
<1>. /\ Up /\ ValidateRestore(trail, m) /\ faults \in Nat
     /\ UNCHANGED <<recoverFrame, db, trail, faults, owed>>
  BY Zenon DEF Recover, ServiceInv, World, EraInv
<1>. PICK v : /\ v = [step |-> "accepted", manifest |-> m, receipt |-> {}]
              /\ recovery' = {v}
  BY Zenon DEF Recover
<1>. RecoveryStep(v)
  BY Zenon DEF RecoveryStep, ValidateRestore
<1>. QED
  BY RecoveryMoves, Zenon

\* The states of a recovery.
RecoveryState == [step: {"accepted", "stage", "commit", "complete"},
                  manifest: manifests, receipt: SUBSET Operation]

AtPhase(v, step) == [v EXCEPT !.step = step]

\* The next phase of a recovery.
LEMMA AtPhaseFacts ==
  ASSUME NEW v \in RecoveryState, NEW step \in {"accepted", "stage", "commit", "complete"},
         NEW n, n = AtPhase(v, step)
  PROVE  n \in RecoveryState /\ n.step = step /\ n.manifest = v.manifest /\ n.receipt = v.receipt
  BY Zenon DEF AtPhase, RecoveryState

Completing(v, receipt) == [v EXCEPT !.step = "complete", !.receipt = receipt]

\* The last phase of a recovery.
LEMMA CompletingFacts ==
  ASSUME NEW v \in RecoveryState, NEW R \in SUBSET Operation, NEW n, n = Completing(v, R)
  PROVE  /\ n \in RecoveryState /\ n.step = "complete"
         /\ n.manifest = v.manifest /\ n.receipt = R
  BY Zenon DEF Completing, RecoveryState

\* The receipts of accepted manifests are operations.
LEMMA AcceptedFacts ==
  ASSUME NEW l \in Ledger, NEW m
  PROVE  AcceptedRestore(l, m) \in SUBSET Operation
<1>. l.accepted \subseteq [ref: 1..MaxManifest, receipt: Operation]
  BY LedgerFields, Zenon
<1>. QED
  BY Zenon DEF AcceptedRestore

\* The ledger is asked whether it accepted the manifest.
LEMMA AcceptedStepKeeps ==
  ASSUME ServiceInv, Up, NEW v \in recovery, AcceptedStep(v)
  PROVE  ServiceInv' /\ ProofStep
<1>. /\ World /\ faults \in Nat /\ RecoveryStep(v) /\ trail \in Ledger
     /\ v.step = "accepted" /\ UNCHANGED <<recoverFrame, db, trail, faults, owed>>
  BY Zenon DEF AcceptedStep, ServiceInv, World, WorldTypeOK, EraInv, RecoveryInv
<1>1. v \in RecoveryState /\ v.manifest \in manifests
  BY Zenon DEF RecoveryStep, RecoveryState
<1>. PICK known \in SUBSET Operation : known = AcceptedRestore(trail, v.manifest)
  BY AcceptedFacts, Zenon
<1>2. CASE known # {}
  <2>. PICK n : n = Completing(v, known) /\ recovery' = {n}
    BY <1>2, Zenon DEF AcceptedStep, Completing
  <2>. n \in RecoveryState /\ n.step = "complete" /\ n.manifest = v.manifest /\ n.receipt = known
    BY <1>1, CompletingFacts
  <2>. RecoveryStep(n)
    BY Zenon DEF RecoveryStep, RecoveryState
  <2>. QED
    BY RecoveryMoves, Zenon
<1>3. CASE known = {}
  <2>1. PICK n : n = AtPhase(v, "stage") /\ recovery' = {n}
    BY <1>3, Zenon DEF AcceptedStep, AtPhase
  <2>2. n \in RecoveryState /\ n.step = "stage" /\ n.manifest = v.manifest
    BY <1>1, <2>1, AtPhaseFacts
  <2>. trail.fence = "restore_fenced"
    <3>. ~(trail.fence = "admitted" /\ \E a \in trail.accepted : a.ref = v.manifest.ref)
      BY <1>3, Zenon DEF AcceptedRestore
    <3>. QED
      BY Zenon DEF RecoveryStep
  <2>. RecoveryStep(n)
    BY <2>2, Zenon DEF RecoveryStep, RecoveryState
  <2>. QED
    BY <2>1, RecoveryMoves, Zenon
<1>. QED
  BY <1>2, <1>3, Zenon

(***************************************************************************)
(* The steps of a recovery                                                 *)
(***************************************************************************)
\* The floors are staged in the registry, before the ledger accepts.
LEMMA StageKeeps ==
  ASSUME ServiceInv, Up, NEW v \in recovery, StageStep(v)
  PROVE  ServiceInv' /\ ProofStep
<1>. /\ World /\ faults \in Nat /\ RecoveryStep(v)
     /\ db \in Registry /\ RowsWellFormed(db) /\ now \in Nat
     /\ trail \in Ledger /\ RowsAudited(db, trail)
     /\ owed \in BOOLEAN
     /\ v.step = "stage" /\ UNCHANGED <<recoverFrame, owed>>
  BY Zenon DEF StageStep, ServiceInv, World, WorldTypeOK, EraInv, RecoveryInv
<1>1. v \in RecoveryState /\ v.manifest \in manifests /\ trail.fence = "restore_fenced"
  BY Zenon DEF RecoveryStep, RecoveryState
<1>2. PICK tx : tx = StageRestoreFloors(db, now, v.manifest)
  BY Zenon
<1>3. PICK res \in RegistryAnswer : RegistryTx(tx, res) /\ Proceed(v, res, "commit")
  BY <1>2, Zenon DEF StageStep
<1>4. /\ v.manifest.ref \in 1..MaxManifest /\ v.manifest.high \in Nat
      /\ v.manifest.floors \in [Principal -> 0..MaxEpoch]
  BY <1>1, ManifestFacts, Zenon
<1>5. /\ tx.res # "ok" => tx.db = db
      /\ tx.res = "ok" =>
           /\ db.fence = "restore_fenced"
           /\ tx.db \in Registry /\ RowsWellFormed(tx.db)
           /\ tx.db.fence = db.fence /\ tx.db.receipt = db.receipt /\ tx.db.high >= db.high
           /\ tx.db.epochs = db.epochs /\ tx.db.sessions = db.sessions
           /\ tx.db.proofs = db.proofs
           /\ StagedFor(tx.db, v.manifest.ref)
           /\ \A p \in Principal : tx.db.floors[p] >= v.manifest.floors[p]
  BY <1>2, <1>4, StageFacts
<1>6. /\ trail' = trail /\ faults' \in Nat /\ db' \in {db, tx.db}
      /\ res = "ok" => tx.res = "ok" /\ db' = tx.db
  BY <1>3 DEF RegistryTx, Lost, Fault
<1>7. db.high \in Nat /\ \A p \in Principal : db.epochs[p] \in Nat
  BY RegistryFields, RegistryConstants
<1>8. /\ db' \in Registry /\ RowsWellFormed(db')
      /\ db'.fence = db.fence /\ db'.receipt = db.receipt /\ db'.high >= db.high
      /\ db'.epochs = db.epochs /\ db'.sessions = db.sessions /\ db'.proofs = db.proofs
  BY <1>5, <1>6, <1>7
<1>9. RowsAudited(db', trail')
  BY <1>6, <1>8, Zenon DEF RowsAudited
<1>10. EraInv'
  BY <1>6, <1>8, Zenon DEF World, EraInv, recoverFrame
<1>11. AcceptedInv'
  <2>. trail'.accepted = {}
    BY <1>1, <1>6, Zenon DEF World, AcceptedInv
  <2>. QED
    BY Zenon DEF AcceptedInv
<1>12. RecoveryInv'
  <2>1. CASE res # "ok"
    <3>. recovery' = {}
      BY <1>3, <2>1, Zenon DEF Proceed
    <3>. QED
      BY Zenon DEF RecoveryInv
  <2>2. CASE res = "ok"
    <3>. PICK n : n = AtPhase(v, "commit") /\ recovery' = {n}
      BY <1>3, <2>2, Zenon DEF Proceed, AtPhase
    <3>. n \in RecoveryState /\ n.step = "commit" /\ n.manifest = v.manifest
      BY <1>1, AtPhaseFacts
    <3>. /\ db'.fence = "restore_fenced" /\ StagedFor(db', n.manifest.ref)
         /\ AboveFloors(n.manifest)'
      BY <1>5, <1>6, <2>2, Zenon DEF AboveFloors
    <3>. RecoveryStep(n)'
      BY <1>1, <1>6, Zenon DEF RecoveryStep, RecoveryState, recoverFrame
    <3>. QED
      BY Zenon DEF RecoveryInv, Up, recoverFrame
  <2>. QED
    BY <2>1, <2>2, Zenon
<1>. Frame
  <2>. \A p \in Principal : db'.epochs[p] >= db.epochs[p]
    BY <1>7, <1>8
  <2>. Unserved' => Unserved
    BY <1>8, Zenon DEF Unserved, recoverFrame
  <2>. QED
    BY <1>6, <1>8, Zenon DEF Frame, recoverFrame
<1>. QED
  BY <1>6, <1>8, <1>9, <1>10, <1>11, <1>12, RecoveryKeeps, Zenon

\* The ledger accepts the manifest that is staged.
LEMMA CommitKeeps ==
  ASSUME ServiceInv, Up, NEW v \in recovery, CommitStep(v)
  PROVE  ServiceInv' /\ ProofStep
<1>. /\ World /\ faults \in Nat /\ RecoveryStep(v)
     /\ db \in Registry /\ RowsWellFormed(db)
     /\ trail \in Ledger /\ RowsAudited(db, trail)
     /\ v.step = "commit" /\ UNCHANGED <<recoverFrame, owed>>
  BY Zenon DEF CommitStep, ServiceInv, World, WorldTypeOK, EraInv, RecoveryInv
<1>. /\ v \in RecoveryState /\ v.manifest \in manifests /\ trail.fence = "restore_fenced"
     /\ db.fence = "restore_fenced" /\ StagedFor(db, v.manifest.ref) /\ AboveFloors(v.manifest)
  BY Zenon DEF RecoveryStep, RecoveryState
<1>. owed /\ era = 1 /\ unfenced = {}
  BY UpFacts, Zenon DEF World, EraInv
<1>1. PICK x : x = Entry(Recovered(v.manifest.ref), "restored")
  BY Zenon
<1>. /\ v.manifest.ref \in 1..Cardinality(manifests) /\ v.manifest.ref \in 1..MaxManifest
     /\ Recovered(v.manifest.ref) \in Operation
  BY ManifestFacts, Zenon
<1>2. x \in Record /\ x.op = Recovered(v.manifest.ref)
  BY <1>1, Zenon DEF Entry, Record
<1>3. PICK tx : tx = CommitRestore(trail, v.manifest, x)
  BY Zenon
<1>. PICK res \in TrailAnswer :
       /\ TrailTx(tx, res)
       /\ recovery' = IF res = "ok"
                      THEN {[v EXCEPT !.step = "complete",
                                      !.receipt = AcceptedRestore(trail', v.manifest)]}
                      ELSE {}
  BY <1>1, <1>3, Zenon DEF CommitStep
<1>4. /\ tx.res # "ok" => tx.ledger = trail
      /\ tx.res = "ok" =>
           /\ tx.ledger \in Ledger
           /\ trail.records \subseteq tx.ledger.records
           /\ tx.ledger.fence = "admitted"
           /\ tx.ledger.accepted = {[ref |-> v.manifest.ref, receipt |-> x.op]}
  BY <1>2, <1>3, CommitFacts
<1>. /\ db' = db /\ faults' \in Nat /\ trail' \in {trail, tx.ledger}
  BY DEF TrailTx, Lost, Fault
<1>. /\ trail' \in Ledger /\ trail.records \subseteq trail'.records
     /\ \/ trail' = trail
        \/ /\ trail'.fence = "admitted"
           /\ trail'.accepted = {[ref |-> v.manifest.ref, receipt |-> x.op]}
  BY <1>4, Zenon
<1>5. RowsAudited(db', trail')
  BY Zenon DEF RowsAudited
<1>6. EraInv'
  BY Zenon DEF World, EraInv, recoverFrame
<1>7. AcceptedInv'
  <2>1. CASE trail' = trail
    BY <2>1, Zenon DEF World, AcceptedInv, AboveFloors, recoverFrame
  <2>2. CASE /\ trail'.fence = "admitted"
             /\ trail'.accepted = {[ref |-> v.manifest.ref, receipt |-> x.op]}
    <3>1. SUFFICES ASSUME NEW a, a.ref = v.manifest.ref, a.receipt = Recovered(v.manifest.ref)
                   PROVE  /\ trail'.fence = "admitted"
                          /\ a.ref \in 1..Cardinality(manifests') /\ a.receipt = Recovered(a.ref)
                          /\ db'.fence = "restore_fenced" => StagedFor(db', a.ref)
                          /\ db'.fence = "restore_fenced" \/ ~owed' =>
                               \A m \in manifests' : m.ref = a.ref => AboveFloors(m)'
      BY <1>2, <2>2, Zenon DEF AcceptedInv
    <3>. \A m \in manifests : m.ref = v.manifest.ref => m = v.manifest
      BY Zenon DEF World, ManifestInv
    <3>. AboveFloors(v.manifest)'
      BY Zenon DEF AboveFloors
    <3>. QED
      BY <2>2, <3>1, Zenon DEF recoverFrame
  <2>. QED
    BY <2>1, <2>2, Zenon
<1>8. RecoveryInv'
  <2>1. CASE res # "ok"
    BY <2>1, Zenon DEF RecoveryInv
  <2>2. CASE res = "ok"
    <3>. PICK R \in SUBSET Operation : R = AcceptedRestore(trail', v.manifest)
      BY AcceptedFacts, Zenon
    <3>. PICK n : n = Completing(v, R) /\ recovery' = {n}
      BY <2>2, Zenon DEF Completing
    <3>. n \in RecoveryState /\ n.step = "complete" /\ n.manifest = v.manifest /\ n.receipt = R
      BY CompletingFacts
    <3>. n.receipt \subseteq AcceptedRestore(trail', n.manifest)
      BY Zenon
    <3>. RecoveryStep(n)'
      BY Zenon DEF RecoveryStep, RecoveryState, recoverFrame
    <3>. QED
      BY Zenon DEF RecoveryInv, Up, recoverFrame
  <2>. QED
    BY <2>1, <2>2, Zenon
<1>. Frame
  <2>1. db.high \in Nat /\ \A p \in Principal : db.epochs[p] \in Nat
    BY RegistryFields, RegistryConstants
  <2>. db'.high >= db.high /\ \A p \in Principal : db'.epochs[p] >= db.epochs[p]
    BY <2>1
  <2>. Unserved' => Unserved
    BY Zenon DEF Unserved, recoverFrame
  <2>. QED
    BY Zenon DEF Frame, recoverFrame
<1>. QED
  BY <1>5, <1>6, <1>7, <1>8, RecoveryKeeps, Zenon

\* The registry is admitted with the receipt of the accepted manifest.
LEMMA CompleteKeeps ==
  ASSUME ServiceInv, Up, NEW v \in recovery, CompleteStep(v)
  PROVE  ServiceInv' /\ ProofStep
<1>. /\ World /\ faults \in Nat /\ RecoveryStep(v)
     /\ db \in Registry /\ RowsWellFormed(db)
     /\ trail \in Ledger /\ RowsAudited(db, trail)
     /\ owed \in BOOLEAN
     /\ v.step = "complete" /\ recovery' = {} /\ UNCHANGED recoverFrame
  BY Zenon DEF CompleteStep, ServiceInv, World, WorldTypeOK, EraInv, RecoveryInv
<1>1. v.receipt \subseteq AcceptedRestore(trail, v.manifest)
  BY Zenon DEF RecoveryStep
<1>2. PICK c \in v.receipt : \E res \in RegistryAnswer :
        LET tx == CompleteRestore(db, v.manifest.ref, c)
        IN  RegistryTx(tx, res) /\ owed' = (owed /\ (db' # tx.db \/ tx.res # "ok"))
  BY Zenon DEF CompleteStep
<1>3. PICK tx : tx = CompleteRestore(db, v.manifest.ref, c)
  BY Zenon
<1>4. PICK res \in RegistryAnswer :
        RegistryTx(tx, res) /\ owed' = (owed /\ (db' # tx.db \/ tx.res # "ok"))
  BY <1>2, <1>3, Zenon
<1>5. c \in Operation /\ trail.fence = "admitted" /\ c # ClockReceipt
  <2>1. AcceptedRestore(trail, v.manifest) \in SUBSET Operation
    BY AcceptedFacts, Zenon
  <2>. PICK a \in trail.accepted : trail.fence = "admitted" /\ c = a.receipt
    BY <1>1, Zenon DEF AcceptedRestore
  <2>. c = Recovered(a.ref)
    BY Zenon DEF World, AcceptedInv
  <2>. c # ClockReceipt
    BY DEF Recovered, ClockReceipt
  <2>. QED
    BY <1>1, <2>1, Zenon
<1>6. \/ tx.res # "ok" /\ tx.db = db
      \/ tx.res = "ok" /\ tx.db = db /\ db.fence = "admitted" /\ db.receipt = {c}
      \/ /\ tx.res = "ok" /\ db.fence = "restore_fenced"
         /\ tx.db \in Registry /\ RowsWellFormed(tx.db) /\ tx.db.fence = "admitted"
         /\ tx.db.receipt = {c} /\ tx.db.high = db.high
         /\ tx.db.epochs = db.epochs /\ tx.db.floors = db.floors
         /\ tx.db.sessions = db.sessions /\ tx.db.proofs = db.proofs
  BY <1>3, <1>5, CompleteFacts
<1>7. trail' = trail /\ faults' \in Nat /\ db' \in {db, tx.db}
  BY <1>4 DEF RegistryTx, Lost, Fault
<1>8. owed => db.receipt \subseteq {ClockReceipt}
  BY Zenon DEF World, EraInv
<1>9. CASE db' = db
  <2>. owed' = owed
    BY <1>4, <1>5, <1>6, <1>8, <1>9, Zenon
  <2>. QED
    BY <1>7, <1>9, RecoveryMoves, Zenon
<1>10. CASE db' # db
  <2>. /\ db.fence = "restore_fenced"
       /\ db' \in Registry /\ RowsWellFormed(db') /\ db'.fence = "admitted"
       /\ db'.high = db.high /\ db'.epochs = db.epochs /\ db'.floors = db.floors
       /\ db'.sessions = db.sessions /\ db'.proofs = db.proofs
       /\ ~owed' /\ owed' \in BOOLEAN
    BY <1>4, <1>6, <1>7, <1>10, Zenon
  <2>1. owed /\ era = 1 /\ unfenced = {}
    BY UpFacts, Zenon DEF World, EraInv
  <2>2. RowsAudited(db', trail')
    BY <1>7, Zenon DEF RowsAudited
  <2>3. EraInv'
    BY <1>5, <1>7, <2>1, Zenon DEF World, EraInv, recoverFrame
  <2>4. AcceptedInv'
    <3>. \A m : AboveFloors(m) => AboveFloors(m)'
      BY Zenon DEF AboveFloors
    <3>. QED
      BY <1>7, Zenon DEF World, AcceptedInv, recoverFrame
  <2>5. RecoveryInv'
    BY Zenon DEF RecoveryInv
  <2>. Frame
    <3>1. db \in Registry
      BY Zenon
    <3>2. db.high \in Nat /\ \A p \in Principal : db.epochs[p] \in Nat
      BY <3>1, RegistryFields, RegistryConstants
    <3>. db'.high >= db.high /\ \A p \in Principal : db'.epochs[p] >= db.epochs[p]
      BY <3>2
    <3>. Unserved
      BY Zenon DEF Unserved
    <3>. QED
      BY <1>7, Zenon DEF Frame, recoverFrame
  <2>. QED
    BY <1>7, <2>2, <2>3, <2>4, <2>5, RecoveryKeeps, Zenon
<1>. QED
  BY <1>9, <1>10, Zenon

(***************************************************************************)
(* Restarts                                                                *)
(***************************************************************************)
\* The state in which a crash leaves a request.
Stopped(q) == [q EXCEPT !.step = "end"]

\* A crash forgets the step a request was at and nothing else.
LEMMA StoppedFacts ==
  ASSUME NEW q \in State, NEW n, n = Stopped(q)
  PROVE  /\ n \in State /\ n.step = "end" /\ n.answer = q.answer /\ n.op = q.op
         /\ n.principal = q.principal /\ n.proof = q.proof /\ n.epoch = q.epoch
         /\ n.era = q.era /\ (n.reserved <=> q.reserved)
<1>. /\ n \in State /\ n.step = "end" /\ n.answer = q.answer /\ n.op = q.op
     /\ n.principal = q.principal /\ n.proof = q.proof /\ n.epoch = q.epoch
     /\ n.era = q.era
  BY Zenon DEF Stopped, State
<1>. n.reserved <=> q.reserved
  BY Zenon DEF Stopped, State
<1>. QED
  BY Zenon

\* The process stops, with every request and the running recovery.
LEMMA CrashKeeps ==
  ASSUME ServiceInv, Crash
  PROVE  ServiceInv' /\ ProofStep
<1>. /\ World /\ Requests /\ opened' = {} /\ recovery' = {} /\ faults' \in Nat
     /\ UNCHANGED <<now, db, trail, unfenced, owed, iat, backup, manifests, era>>
  BY DEF ServiceInv, World, EraInv, Crash, Fault
<1>. req' = [r \in Request |-> {Stopped(q) : q \in req[r]}]
  BY Zenon DEF Crash, Stopped
<1>1. WorldTypeOK' /\ RowsAudited(db', trail') /\ BackupInv' /\ ManifestInv' /\ DatesInv'
  BY Zenon DEF World, WorldTypeOK, BackupInv, ManifestInv, DatesInv
<1>2. EraInv' /\ AcceptedInv' /\ RecoveryInv'
  BY Zenon DEF World, EraInv, AcceptedInv, AboveFloors, RecoveryInv
<1>3. World'
  BY <1>1, <1>2, Zenon DEF World
<1>4. Frame
  BY NothingMoves, Zenon
<1>. ASSUME NEW r \in Request, NEW n \in req'[r]
     PROVE  \E q \in req[r] : q \in State /\ RequestInv(r, q) /\ n = Stopped(q)
  BY Zenon DEF Requests
<1>5. ASSUME NEW r \in Request, NEW n \in req'[r]
      PROVE  n \in State /\ RequestInv(r, n)'
  <2>. PICK q \in req[r] : q \in State /\ RequestInv(r, q) /\ n = Stopped(q)
    BY Zenon
  <2>. /\ n \in State /\ n.step = "end" /\ n.answer = q.answer /\ n.op = q.op
       /\ n.principal = q.principal /\ n.proof = q.proof /\ n.epoch = q.epoch
       /\ n.era = q.era /\ (n.reserved <=> q.reserved)
    BY StoppedFacts, Zenon
  <2>1. StepInv(r, n)
    BY DEF RequestInv, StepInv
  <2>2. AnswerInv(n)
    BY DEF RequestInv, AnswerInv, Outcome
  <2>. ProofInv(n) /\ EpochInv(n)
    BY Zenon DEF RequestInv, ProofInv, EpochInv
  <2>. RequestInv(r, n)
    BY <2>1, <2>2, Zenon DEF RequestInv
  <2>. QED
    BY <1>3, <1>4, RequestStays, Zenon
<1>6. \A r \in Request : req'[r] \subseteq State
  BY <1>5, Zenon
<1>7. req' \in [Request -> SUBSET State]
  BY <1>6, Zenon
<1>8. \A r \in Request : \A n, o \in req'[r] : n = o
  BY DEF Requests
<1>9. EpochsDiffer'
  <2>1. SUFFICES ASSUME NEW r1 \in Request, NEW r2 \in Request,
                        NEW n1 \in req'[r1], NEW n2 \in req'[r2],
                        r1 # r2, n1.epoch > 0, n1.epoch = n2.epoch, n1.principal = n2.principal
                 PROVE  n1.era # n2.era
    BY DEF EpochsDiffer
  <2>2. PICK q1 \in req[r1] : q1 \in State /\ n1 = Stopped(q1)
    BY Zenon
  <2>3. PICK q2 \in req[r2] : q2 \in State /\ n2 = Stopped(q2)
    BY Zenon
  <2>. /\ n1.principal = q1.principal /\ n1.epoch = q1.epoch /\ n1.era = q1.era
       /\ n2.principal = q2.principal /\ n2.epoch = q2.epoch /\ n2.era = q2.era
    BY <2>2, <2>3, StoppedFacts, Zenon
  <2>4. EpochsDiffer
    BY Zenon DEF Requests
  <2>. q1.epoch > 0 /\ q1.epoch = q2.epoch /\ q1.principal = q2.principal
    BY <2>1, Zenon
  <2>. q1.era # q2.era
    BY <2>1, <2>4, Zenon DEF EpochsDiffer
  <2>. QED
    BY Zenon
<1>10. Requests'
  BY <1>5, <1>7, <1>8, <1>9, Zenon DEF Requests
<1>. \A p \in Proof : Holders(p)' = Holders(p)
  <2>1. ASSUME NEW p \in Proof, NEW r \in Request
        PROVE  (\E n \in req'[r] : n.reserved /\ n.proof = {p} /\ n.era = era') <=>
               (\E q \in req[r] : q.reserved /\ q.proof = {p} /\ q.era = era)
    <3>. \A q \in req[r] : /\ Stopped(q) \in req'[r] /\ Stopped(q).proof = q.proof
                           /\ Stopped(q).era = q.era /\ (Stopped(q).reserved <=> q.reserved)
      BY StoppedFacts DEF Requests
    <3>. \A n \in req'[r] : \E q \in req[r] : /\ n.proof = q.proof /\ n.era = q.era
                                              /\ (n.reserved <=> q.reserved)
      BY StoppedFacts
    <3>. QED
      OBVIOUS
  <2>. ASSUME NEW p \in Proof  PROVE Holders(p)' = Holders(p)
    <3>. \A r \in Request :
           (\E n \in req'[r] : n.reserved /\ n.proof = {p} /\ n.era = era') <=>
           (\E q \in req[r] : q.reserved /\ q.proof = {p} /\ q.era = era)
      BY <2>1, Zenon
    <3>. QED
      BY Zenon DEF Holders
  <2>. QED
    BY Zenon
<1>. QED
  BY <1>3, <1>10, Zenon DEF ServiceInv, ProofStep

\* While a database is closed no request and no recovery is under way.
LEMMA NotUp ==
  ASSUME ServiceInv, ~Up
  PROVE  Idle /\ recovery = {}
  BY Zenon DEF ServiceInv, World, RecoveryInv, Requests, RequestInv, StepInv, Idle

\* The files are replaced by the backup, which every request so far predates.
LEMMA RestoreKeeps ==
  ASSUME ServiceInv, Restore
  PROVE  ServiceInv' /\ ProofStep
<1>. /\ World /\ Requests /\ opened = {} /\ era = 0
     /\ unfenced' = Both /\ owed' = TRUE /\ era' = 1
     /\ UNCHANGED <<now, opened, iat, req, backup, manifests, recovery, faults>>
  BY Zenon DEF ServiceInv, Restore
<1>1. PICK b \in backup : db' = b.db /\ trail' = b.trail
  BY Zenon DEF Restore
<1>2. Idle /\ recovery = {}
  <2>. ~Up
    BY Zenon DEF Up, Both
  <2>. QED
    BY NotUp, Zenon
<1>. /\ db' \in Registry /\ RowsWellFormed(db')
     /\ trail' \in Ledger /\ RowsAudited(db', trail')
     /\ trail'.backup = {} /\ trail'.accepted = {} /\ trail'.fence = "admitted"
     /\ db'.receipt \subseteq {ClockReceipt} /\ db'.fence = "admitted"
  BY <1>1, Zenon DEF World, BackupInv
<1>3. WorldTypeOK' /\ BackupInv' /\ ManifestInv' /\ DatesInv'
  BY Zenon DEF World, WorldTypeOK, BackupInv, ManifestInv, DatesInv
<1>4. EraInv'
  BY <1>1 DEF World, EraInv
<1>5. AcceptedInv' /\ RecoveryInv'
  BY <1>2, Zenon DEF AcceptedInv, RecoveryInv
<1>6. World'
  BY <1>3, <1>4, <1>5, Zenon DEF World
<1>. ASSUME NEW r \in Request, NEW q \in req[r]  PROVE RequestInv(r, q)'
  <2>1. q \in State /\ StepInv(r, q) /\ q.step = "end"
    BY <1>2, Zenon DEF Requests, RequestInv, Idle
  <2>. q.era = 0
    BY <2>1 DEF State, StepInv
  <2>2. StepInv(r, q)'
    BY <2>1 DEF StepInv
  <2>. EpochInv(q)'
    <3>. EpochInv(q)
      BY Zenon DEF Requests, RequestInv
    <3>. QED
      BY DEF EpochInv
  <2>. QED
    BY <2>2 DEF RequestInv, AnswerInv, ProofInv
<1>. Requests'
  BY DEF Requests, EpochsDiffer
<1>. QED
  BY <1>6 DEF ServiceInv, ProofStep

\* The registry is opened: a restored one is fenced.
LEMMA OpenIdentityKeeps ==
  ASSUME ServiceInv, OpenIdentity
  PROVE  ServiceInv' /\ ProofStep
<1>1. /\ World /\ "identity" \notin opened
      /\ opened' = opened \cup {"identity"} /\ unfenced' = unfenced \ {"identity"}
      /\ UNCHANGED <<now, trail, owed, iat, req, backup, manifests, recovery, faults, era>>
  BY Zenon DEF ServiceInv, OpenIdentity
<1>2. Idle /\ recovery = {}
  <2>. ~Up
    BY <1>1, Zenon DEF Up, Both
  <2>. QED
    BY NotUp, Zenon
<1>3. PICK tx : tx = Startup(db, now, "identity" \in unfenced) /\ tx.res = "ok" /\ db' = tx.db
  BY Zenon DEF OpenIdentity
<1>4. db \in Registry /\ RowsWellFormed(db) /\ now \in Nat /\ RowsAudited(db, trail)
  BY <1>1, Zenon DEF World, WorldTypeOK
<1>5. /\ SameReceipts(db, db')
      /\ "identity" \notin unfenced => Ordinary(db, db')
      /\ "identity" \in unfenced =>
           /\ db' \in Registry /\ RowsWellFormed(db')
           /\ db'.fence = "restore_fenced" /\ db'.receipt = {}
           /\ db'.high = db.high /\ db'.epochs = db.epochs
           /\ db'.floors = db.floors /\ db'.refs = db.refs /\ db'.proofs = db.proofs
  <2>1. CASE "identity" \in unfenced
    <3>. tx = Startup(db, now, TRUE)
      BY <1>3, <2>1, Zenon DEF Startup
    <3>. SameReceipts(db, tx.db) /\ Fenced(db, tx.db)
      BY <1>3, <1>4, StartupFacts, Zenon
    <3>. QED
      BY <1>3, <2>1, Zenon DEF Fenced
  <2>2. CASE "identity" \notin unfenced
    <3>. tx = Startup(db, now, FALSE)
      BY <1>3, <2>2, Zenon DEF Startup
    <3>. SameReceipts(db, tx.db) /\ Ordinary(db, tx.db)
      BY <1>3, <1>4, StartupFacts, Zenon
    <3>. QED
      BY <1>3, <2>2, Zenon
  <2>. QED
    BY <2>1, <2>2, Zenon
<1>6. db' \in Registry /\ RowsWellFormed(db')
  BY <1>5, Zenon DEF Ordinary
<1>7. RowsAudited(db', trail')
  BY <1>1, <1>4, <1>5, AuditedKept, Zenon
<1>8. WorldTypeOK' /\ BackupInv' /\ ManifestInv' /\ DatesInv'
  BY <1>1, <1>6, Zenon DEF World, WorldTypeOK, BackupInv, ManifestInv, DatesInv, Both
<1>9. EraInv'
  BY <1>1, <1>5, Zenon DEF World, EraInv, Ordinary
<1>10. AcceptedInv'
  <2>1. CASE "identity" \in unfenced
    <3>. trail'.accepted = {}
      BY <1>1, <2>1, Zenon DEF World, EraInv
    <3>. QED
      BY Zenon DEF AcceptedInv
  <2>2. CASE "identity" \notin unfenced
    <3>. /\ db'.floors = db.floors
         /\ db'.fence = "restore_fenced" =>
              db.fence = "restore_fenced" /\ db'.epochs = db.epochs /\ db'.refs = db.refs
      BY <1>5, <2>2, Zenon DEF Ordinary
    <3>. \A m : AboveFloors(m) => AboveFloors(m)'
      BY Zenon DEF AboveFloors
    <3>. \A ref : db'.fence = "restore_fenced" /\ StagedFor(db, ref) => StagedFor(db', ref)
      BY Zenon DEF StagedFor
    <3>. QED
      BY <1>1, Zenon DEF World, AcceptedInv
  <2>. QED
    BY <2>1, <2>2, Zenon
<1>11. RecoveryInv'
  BY <1>1, <1>2, Zenon DEF RecoveryInv
<1>12. World'
  BY <1>7, <1>8, <1>9, <1>10, <1>11, Zenon DEF World
<1>. Frame
  <2>1. db.high \in Nat /\ \A p \in Principal : db.epochs[p] \in Nat
    BY <1>4, RegistryFields, RegistryConstants
  <2>. /\ db'.high >= db.high /\ \A p \in Principal : db'.epochs[p] >= db.epochs[p]
       /\ \A x \in db.proofs : x \in db'.proofs \/ db'.high > x.retain
    BY <1>5, <2>1 DEF Ordinary
  <2>. Unserved' => Unserved
    BY <1>1, <1>5, Zenon DEF Unserved, Ordinary
  <2>. QED
    BY <1>1, Zenon DEF Frame
<1>. QED
  BY <1>1, <1>2, <1>12, WorldStays, Zenon

\* The ledger is opened: a restored one is fenced.
LEMMA OpenAuditKeeps ==
  ASSUME ServiceInv, OpenAudit
  PROVE  ServiceInv' /\ ProofStep
<1>. /\ World /\ "audit" \notin opened
     /\ opened' = opened \cup {"audit"} /\ unfenced' = unfenced \ {"audit"}
     /\ UNCHANGED <<now, db, owed, iat, req, backup, manifests, recovery, faults, era>>
  BY Zenon DEF ServiceInv, OpenAudit
<1>1. Idle /\ recovery = {}
  <2>. ~Up
    BY Zenon DEF Up, Both
  <2>. QED
    BY NotUp, Zenon
<1>2. trail \in Ledger
  BY Zenon DEF World, WorldTypeOK
<1>. /\ trail' \in Ledger /\ trail'.records = trail.records
     /\ \/ "audit" \notin unfenced /\ trail' = trail
        \/ /\ "audit" \in unfenced /\ trail'.fence = "restore_fenced"
           /\ trail'.accepted = {} /\ trail.accepted = {}
  <2>1. CASE "audit" \notin unfenced
    BY <1>2, <2>1, Zenon DEF OpenAudit
  <2>2. CASE "audit" \in unfenced
    <3>. USE <2>2
    <3>. trail.fence = "admitted" /\ trail.accepted = {}
      BY Zenon DEF World, EraInv
    <3>. trail' = FenceRestored(trail, 1).ledger
      BY Zenon DEF OpenAudit
    <3>. QED
      BY <1>2, FenceFacts, Zenon
  <2>. QED
    BY <2>1, <2>2, Zenon
<1>3. RowsAudited(db', trail')
  BY Zenon DEF World, RowsAudited
<1>4. WorldTypeOK' /\ BackupInv' /\ ManifestInv' /\ DatesInv'
  BY DEF World, WorldTypeOK, BackupInv, ManifestInv, DatesInv, Both
<1>5. EraInv'
  BY Zenon DEF World, EraInv
<1>6. AcceptedInv'
  BY Zenon DEF World, AcceptedInv, AboveFloors
<1>7. RecoveryInv'
  BY <1>1, Zenon DEF RecoveryInv
<1>8. World'
  BY <1>3, <1>4, <1>5, <1>6, <1>7, Zenon DEF World
<1>. Frame
  <2>1. db \in Registry
    BY Zenon DEF World, WorldTypeOK
  <2>2. db.high \in Nat /\ \A p \in Principal : db.epochs[p] \in Nat
    BY <2>1, RegistryFields, RegistryConstants
  <2>3. db'.high >= db.high /\ \A p \in Principal : db'.epochs[p] >= db.epochs[p]
    BY <2>2
  <2>. trail'.accepted = trail.accepted /\ trail.records \subseteq trail'.records
    BY Zenon
  <2>. Unserved' => Unserved
    BY Zenon DEF Unserved
  <2>. QED
    BY <2>3, Zenon DEF Frame
<1>. QED
  BY <1>1, <1>8, WorldStays, Zenon

(***************************************************************************)
(* Maintenance, the clock and backups                                      *)
(***************************************************************************)
\* A transaction of the registry for itself.
LEMMA MaintainKeeps ==
  ASSUME ServiceInv, NEW tx, Maintain(tx), Proceeds(db, tx.db)
  PROVE  ServiceInv' /\ ProofStep
<1>. /\ World /\ trail \in Ledger /\ RowsAudited(db, trail)
     /\ faults \in Nat /\ iat \in [Proof -> SUBSET Nat] /\ DatesInv
  BY Zenon DEF ServiceInv, World, WorldTypeOK, EraInv
<1>. /\ Up /\ db' = tx.db /\ UNCHANGED requestVars /\ iat' = iat /\ req' = req /\ trail' = trail
     /\ faults' = faults
  BY Zenon DEF Maintain
<1>1. Ordinary(db, db') /\ Running(db, db') /\ Grows(trail, trail')
  BY Zenon DEF Proceeds, Grows
<1>2. RowsAudited(db', trail')
  BY AuditedKept, Zenon DEF Proceeds
<1>. DatesInv' /\ iat' \in [Proof -> SUBSET Nat] /\ faults' \in Nat
  BY Zenon DEF DatesInv
<1>. Served
  BY <1>1, <1>2, WorldServes, Zenon
<1>. QED
  BY WorldStays, Zenon DEF Served

\* The passes of the maintenance loop, and the recovery of the clock.
LEMMA MaintenanceKeeps ==
  ASSUME ServiceInv, Cleanup \/ ExpiryLoop \/ ClockRecovery
  PROVE  ServiceInv' /\ ProofStep
<1>. db \in Registry /\ RowsWellFormed(db) /\ now \in Nat
  BY Zenon DEF ServiceInv, World, WorldTypeOK
<1>1. CASE Cleanup
  <2>. PICK X \in SUBSET db.proofs : /\ FirstDeletable(Observed(db, now), X)
                                     /\ Maintain(CleanupProofs(db, now, X))
    BY <1>1, Zenon DEF Cleanup
  <2>. X \in SUBSET Deletable(Observed(db, now))
    BY Zenon DEF FirstDeletable
  <2>. Proceeds(db, CleanupProofs(db, now, X).db)
    BY CleanupFacts, Zenon
  <2>. QED
    BY MaintainKeeps, Zenon
<1>2. CASE ExpiryLoop
  <2>. PICK S \in SUBSET Session : /\ FirstDue(Observed(db, now), S)
                                   /\ Maintain(ExpireDue(db, now, S))
    BY <1>2, Zenon DEF ExpiryLoop
  <2>. S \in SUBSET Due(Observed(db, now))
    BY Zenon DEF FirstDue
  <2>. Proceeds(db, ExpireDue(db, now, S).db)
    BY ExpireDueFacts, Zenon
  <2>. QED
    BY MaintainKeeps, Zenon
<1>3. CASE ClockRecovery
  <2>. PICK t \in db.high..MaxTime : Maintain(RecoverClock(db, t, ClockReceipt))
    BY <1>3, Zenon DEF ClockRecovery
  <2>. t \in Nat
    BY RegistryFields, ServiceAssumption
  <2>. Proceeds(db, RecoverClock(db, t, ClockReceipt).db)
    BY RecoverClockFacts, Zenon
  <2>. QED
    BY MaintainKeeps, Zenon
<1>. QED
  BY <1>1, <1>2, <1>3, Zenon

\* The wall clock, and a step that changes nothing.
LEMMA ClockMoves ==
  ASSUME ServiceInv, now' \in Nat, faults' \in Nat,
         UNCHANGED <<db, trail, opened, unfenced, owed, iat, req, backup, manifests,
                     recovery, era>>
  PROVE  ServiceInv' /\ ProofStep
<1>. World
  BY Zenon DEF ServiceInv
<1>1. WorldTypeOK' /\ RowsAudited(db', trail') /\ BackupInv' /\ ManifestInv' /\ DatesInv'
  BY Zenon DEF World, WorldTypeOK, BackupInv, ManifestInv, DatesInv
<1>2. EraInv' /\ AcceptedInv'
  BY Zenon DEF World, EraInv, AcceptedInv, AboveFloors
<1>3. RecoveryInv'
  BY Zenon DEF World, RecoveryInv, RecoveryStep, AboveFloors, Up
<1>. World'
  BY <1>1, <1>2, <1>3, Zenon DEF World
<1>. Frame
  BY NothingMoves, Zenon
<1>. QED
  BY WorldStays, Zenon

\* The clock advances, or is set back.
LEMMA TickKeeps ==
  ASSUME ServiceInv, Tick \/ SetClockBack
  PROVE  ServiceInv' /\ ProofStep
<1>. now \in Nat /\ faults \in Nat
  BY Zenon DEF ServiceInv, World, WorldTypeOK, EraInv
<1>. now' \in Nat /\ faults' \in Nat
  BY ServiceAssumption DEF Tick, SetClockBack, Fault
<1>. QED
  BY ClockMoves, Zenon DEF Tick, SetClockBack

\* A backup is taken before any restore.
LEMMA BackupKeeps ==
  ASSUME ServiceInv, Backup
  PROVE  ServiceInv' /\ ProofStep
<1>. /\ World /\ backup = {} /\ db.fence = "admitted" /\ trail.fence = "admitted"
     /\ backup' = {[db |-> db, trail |-> trail]}
     /\ UNCHANGED <<now, db, trail, opened, unfenced, owed, iat, req, manifests, recovery,
                    faults, era>>
  BY Zenon DEF ServiceInv, Backup
<1>1. WorldTypeOK' /\ RowsAudited(db', trail') /\ DatesInv'
  BY Zenon DEF World, WorldTypeOK, DatesInv
<1>2. era = 0 /\ trail.backup = {} /\ trail.accepted = {} /\ db.receipt \subseteq {ClockReceipt}
  BY Zenon DEF World, EraInv
<1>3. BackupInv'
  <2>. SUFFICES ASSUME NEW b, b.db = db, b.trail = trail
                PROVE  /\ b.db \in Registry /\ RowsWellFormed(b.db)
                       /\ b.trail \in Ledger
                       /\ RowsAudited(b.db, b.trail)
                       /\ b.trail.backup = {} /\ b.trail.accepted = {}
                       /\ b.trail.fence = "admitted"
                       /\ b.db.receipt \subseteq {ClockReceipt} /\ b.db.fence = "admitted"
    BY DEF BackupInv
  <2>. QED
    BY <1>2, Zenon DEF World, WorldTypeOK
<1>4. ManifestInv' /\ EraInv' /\ AcceptedInv'
  BY Zenon DEF World, ManifestInv, EraInv, AcceptedInv, AboveFloors
<1>5. RecoveryInv'
  BY Zenon DEF World, RecoveryInv, RecoveryStep, AboveFloors, Up
<1>. World'
  BY <1>1, <1>3, <1>4, <1>5, Zenon DEF World
<1>. Frame
  BY NothingMoves, Zenon
<1>. QED
  BY WorldStays, Zenon

(***************************************************************************)
(* Requests                                                                *)
(***************************************************************************)
\* The request in state q has used the proof p.
Uses(q, p) == q.reserved /\ q.proof = {p}

\* Nobody else of the era of n has its epoch.
EpochIsNew(r, n) ==
  n.epoch > 0 => \A u \in Request \ {r} : \A y \in req[u] :
    n.epoch = y.epoch /\ n.principal = y.principal => n.era # y.era

\* A move of r to n uses no proof within its window that was used before.
ProofIsNew(r, n) ==
  \A p \in Proof :
    \/ (\E q \in req[r] : Uses(q, p) /\ q.era = era) <=> (Uses(n, p) /\ n.era = era)
    \/ Holders(p) = {}
    \/ \A t \in iat[p] : db'.high > t + ProofWindow

\* One request moves to the state n, with an epoch and a proof of its own.
LEMMA RequestMoves ==
  ASSUME World, World', Requests, Frame, opened' = opened,
         NEW r \in Request, NEW n \in State, req' = [req EXCEPT ![r] = {n}],
         RequestInv(r, n)', EpochIsNew(r, n), ProofIsNew(r, n)
  PROVE  Requests' /\ ProofStep
<1>. /\ req' \in [Request -> SUBSET State] /\ req'[r] = {n}
     /\ \A u \in Request \ {r} : req'[u] = req[u]
  BY Zenon DEF Requests
<1>1. ASSUME NEW u \in Request, NEW y \in req'[u]  PROVE RequestInv(u, y)'
  <2>1. CASE u = r
    BY <2>1, Zenon
  <2>2. CASE u # r
    <3>. y \in State /\ RequestInv(u, y)
      BY <2>2, Zenon DEF Requests
    <3>. QED
      BY RequestStays, Zenon
  <2>. QED
    BY <2>1, <2>2, Zenon
<1>2. EpochsDiffer'
  <2>. SUFFICES ASSUME NEW u \in Request, NEW v \in Request, NEW y \in req'[u], NEW z \in req'[v],
                       u # v, y.epoch > 0, y.epoch = z.epoch, y.principal = z.principal
                PROVE  y.era # z.era
    BY DEF EpochsDiffer
  <2>1. CASE u # r /\ v # r
    BY <2>1 DEF Requests, EpochsDiffer
  <2>2. CASE u = r
    BY <2>2, Zenon DEF EpochIsNew
  <2>3. CASE v = r
    <3>. z = n /\ n.epoch > 0 /\ y \in req[u]
      BY <2>3, Zenon
    <3>. QED
      BY <2>3, Zenon DEF EpochIsNew
  <2>. QED
    BY <2>1, <2>2, <2>3, Zenon
<1>3. \A u \in Request : \A y, z \in req'[u] : y = z
  BY Zenon DEF Requests
<1>4. Requests'
  BY <1>1, <1>2, <1>3, Zenon DEF Requests
<1>5. ASSUME NEW p \in Proof, era' = era,
             (\E q \in req[r] : Uses(q, p) /\ q.era = era) <=> (Uses(n, p) /\ n.era = era)
      PROVE  Holders(p)' = Holders(p)
  <2>. ASSUME NEW u \in Request
       PROVE  (\E y \in req'[u] : Uses(y, p) /\ y.era = era) <=>
              (\E y \in req[u] : Uses(y, p) /\ y.era = era)
    <3>1. CASE u = r
      BY <1>5, <3>1, Zenon
    <3>2. CASE u # r
      BY <3>2, Zenon
    <3>. QED
      BY <3>1, <3>2, Zenon
  <2>. /\ Holders(p) = {u \in Request : \E y \in req[u] : Uses(y, p) /\ y.era = era}
       /\ Holders(p)' = {u \in Request : \E y \in req'[u] : Uses(y, p) /\ y.era = era}
    BY <1>5, Zenon DEF Holders, Uses
  <2>. QED
    BY Zenon
<1>. ProofStep
  BY <1>5, Zenon DEF ProofStep, ProofIsNew
<1>. QED
  BY <1>4, Zenon

\* A request moves on with the epoch and the proof it has, or with none.
LEMMA RequestMovesOn ==
  ASSUME World, World', Requests, Frame, opened' = opened,
         NEW r \in Request, NEW q \in req[r], NEW n \in State, req' = [req EXCEPT ![r] = {n}],
         RequestInv(r, n)',
         n.epoch = 0 \/ (n.epoch = q.epoch /\ n.principal = q.principal /\ n.era = q.era),
         \/ ~q.reserved /\ ~n.reserved
         \/ (n.reserved <=> q.reserved) /\ n.proof = q.proof /\ n.era = q.era
  PROVE  Requests' /\ ProofStep
<1>1. EpochIsNew(r, n)
  BY DEF EpochIsNew, Requests, EpochsDiffer
<1>. \A y \in req[r] : y = q
  BY Zenon DEF Requests
<1>. ProofIsNew(r, n)
  BY Zenon DEF ProofIsNew, Uses
<1>. QED
  BY <1>1, RequestMoves, Zenon

\* The state of a request that has just begun.
LEMMA BlankFacts ==
  ASSUME NEW r \in Request, era \in Nat
  PROVE  /\ Blank(r) \in State /\ Blank(r).step = "end" /\ Blank(r).answer = "none"
         /\ Blank(r).op = r /\ Blank(r).epoch = 0 /\ ~Blank(r).reserved /\ Blank(r).era = era
         /\ Blank(r).principal = {}
<1>. r \in Operation
  BY Zenon DEF Operation
<1>. 1 \in 1..MaxAttempts
  BY ServiceAssumption
<1>. QED
  BY Zenon DEF Blank, State

\* A change of the step only.
LEMMA AtStepFacts ==
  ASSUME NEW q \in State,
         NEW step \in {"reserve", "collision", "audit_allow", "activate", "authenticate",
                       "audit_admit", "fail", "revoke", "audit_revoke", "end"},
         NEW n, n = [q EXCEPT !.step = step]
  PROVE  /\ n \in State /\ n.step = step /\ n.answer = q.answer /\ n.op = q.op
         /\ n.what = q.what /\ n.session = q.session /\ n.principal = q.principal
         /\ n.proof = q.proof /\ n.epoch = q.epoch /\ n.era = q.era
         /\ n.reserved <=> q.reserved
  BY Zenon DEF State

\* The end of a request.
Ended(q, answer) ==
  [q EXCEPT !.step = "end", !.answer = answer, !.expires = 0, !.attempt = 1]

\* The last state of a request.
LEMMA EndedFacts ==
  ASSUME NEW q \in State,
         NEW answer \in {"none", "issued", "admitted", "denied", "unavailable", "revoked"},
         NEW n, n = Ended(q, answer)
  PROVE  /\ n \in State /\ n.step = "end" /\ n.answer = answer /\ n.op = q.op
         /\ n.principal = q.principal /\ n.proof = q.proof
         /\ n.epoch = q.epoch /\ n.era = q.era
         /\ n.reserved <=> q.reserved
<1>. 1 \in 1..MaxAttempts
  BY ServiceAssumption
<1>. QED
  BY Zenon DEF Ended, State

\* The state before the failure record.
LEMMA FailingFacts ==
  ASSUME NEW r \in Request, era \in Nat, NEW op \in Operation,
         NEW what \in {"deny", "unavailable"}, NEW n, n = Failing(r, op, what)
  PROVE  /\ n \in State /\ n.step = "fail" /\ n.answer = "none" /\ n.op = op /\ n.what = what
         /\ n.epoch = 0 /\ n.era = era
         /\ ~n.reserved
<1>. PICK b \in State : /\ b = Blank(r) /\ b.answer = "none" /\ b.epoch = 0 /\ b.era = era
                        /\ ~b.reserved
  BY BlankFacts, Zenon
<1>. n = [b EXCEPT !.step = "fail", !.op = op, !.what = what]
  BY Zenon DEF Failing
<1>. QED
  BY Zenon DEF State

\* A transaction of the registry for a request.
LEMMA RegistryServes ==
  ASSUME World, Up, UNCHANGED <<requestVars, iat>>, NEW tx, NEW res, RegistryTx(tx, res),
         Ordinary(db, tx.db), Running(db, tx.db), RowsAudited(tx.db, trail)
  PROVE  /\ Served /\ trail' = trail
         /\ res # "unavailable" => tx.res = res /\ db' = tx.db
<1>. /\ db \in Registry /\ RowsWellFormed(db) /\ trail \in Ledger
     /\ RowsAudited(db, trail) /\ iat \in [Proof -> SUBSET Nat] /\ DatesInv /\ faults \in Nat
  BY Zenon DEF World, WorldTypeOK, EraInv
<1>1. Ordinary(db, db) /\ Running(db, db)
  BY Unchanged, Zenon DEF Proceeds
<1>. trail' = trail /\ iat' = iat
  BY Zenon DEF RegistryTx
<1>2. db' = db \/ db' = tx.db
  BY Zenon DEF RegistryTx
<1>. faults' \in Nat /\ (res # "unavailable" => tx.res = res /\ db' = tx.db)
  BY DEF RegistryTx, Lost, Fault
<1>3. Ordinary(db, db') /\ Running(db, db') /\ RowsAudited(db', trail)
  BY <1>1, <1>2, Zenon
<1>. Grows(trail, trail') /\ DatesInv'
  BY Zenon DEF Grows, DatesInv
<1>. Served
  BY <1>3, WorldServes, Zenon
<1>. QED
  BY Zenon

\* The same of a transaction that keeps the receipts of the rows.
LEMMA RegistryProceeds ==
  ASSUME World, Up, UNCHANGED <<requestVars, iat>>, NEW tx, NEW res, RegistryTx(tx, res),
         Proceeds(db, tx.db)
  PROVE  /\ Served /\ trail' = trail
         /\ res # "unavailable" => tx.res = res /\ db' = tx.db
<1>. RowsAudited(tx.db, trail)
  <2>. RowsAudited(db, trail) /\ SameReceipts(db, tx.db)
    BY Zenon DEF World, Proceeds
  <2>. QED
    BY AuditedKept, Zenon
<1>. QED
  BY RegistryServes DEF Proceeds

\* An append for a request.
LEMMA LedgerServes ==
  ASSUME World, Up, UNCHANGED <<requestVars, iat>>, NEW x \in Record,
         NEW res, TrailTx(Append(trail, x), res)
  PROVE  /\ Served /\ db' = db
         /\ res = "ok" => x \in trail'.records
<1>. /\ db \in Registry /\ RowsWellFormed(db) /\ trail \in Ledger
     /\ RowsAudited(db, trail) /\ iat \in [Proof -> SUBSET Nat] /\ DatesInv /\ faults \in Nat
  BY Zenon DEF World, WorldTypeOK, EraInv
<1>1. Ordinary(db, db) /\ Running(db, db) /\ SameReceipts(db, db)
  BY Unchanged, Zenon DEF Proceeds
<1>. db' = db /\ iat' = iat
  BY Zenon DEF TrailTx
<1>2. PICK tx : tx = Append(trail, x)
  BY Zenon
<1>3. Grows(trail, tx.ledger) /\ (tx.res = "ok" => x \in tx.ledger.records)
  BY <1>2, AppendFacts, Zenon
<1>. /\ trail' = trail \/ trail' = tx.ledger
     /\ faults' \in Nat /\ (res = "ok" => tx.res = "ok" /\ trail' = tx.ledger)
  BY <1>2 DEF TrailTx, Lost, Fault
<1>4. Grows(trail, trail)
  BY Zenon DEF Grows
<1>. Grows(trail, trail')
  BY <1>3, <1>4, Zenon
<1>5. RowsAudited(db', trail')
  BY <1>1, AuditedKept, Zenon DEF Grows
<1>. DatesInv'
  BY Zenon DEF DatesInv
<1>. Served
  BY <1>1, <1>5, WorldServes, Zenon
<1>. QED
  BY <1>3, Zenon

\* A request whose state n has the proof, the epoch and the principal of q.
LEMMA Carries ==
  ASSUME NEW r \in Request, NEW q, NEW n, RequestInv(r, q)',
         n.principal = q.principal, n.proof = q.proof, n.epoch = q.epoch, n.era = q.era,
         n.reserved => q.reserved, StepInv(r, n)', AnswerInv(n)'
  PROVE  RequestInv(r, n)'
<1>. ProofInv(n)'
  BY Zenon DEF RequestInv, ProofInv
<1>. EpochInv(n)'
  BY Zenon DEF RequestInv, EpochInv
<1>. QED
  BY Zenon DEF RequestInv

\* A request that has no proof and no epoch yet.
LEMMA Plain ==
  ASSUME NEW r \in Request, NEW n, ~n.reserved, n.epoch = 0, StepInv(r, n)', AnswerInv(n)'
  PROVE  RequestInv(r, n)'
<1>. ~(n.epoch > 0)
  OBVIOUS
<1>. QED
  BY Zenon DEF RequestInv, ProofInv, EpochInv

\* The end of a request, whose answer is on record.
LEMMA EndKeeps ==
  ASSUME World, Requests, Served, NEW r \in Request, NEW q \in req[r],
         NEW answer \in {"issued", "admitted", "denied", "unavailable", "revoked"},
         End(r, q, answer),
         answer # "unavailable" =>
           \E x \in trail'.records :
             /\ x.op = q.op
             /\ answer \in {"issued", "admitted"} => x.what = "allow"
             /\ answer = "denied" => x.what = "deny"
             /\ answer = "revoked" => x.what = "revoked"
  PROVE  Requests' /\ ProofStep
<1>1. q \in State /\ RequestInv(r, q)
  BY Zenon DEF Requests
<1>2. PICK n : n = Ended(q, answer)
  BY Zenon
<1>. /\ n \in State /\ n.step = "end" /\ n.answer = answer /\ n.op = q.op
     /\ n.principal = q.principal /\ n.proof = q.proof
     /\ n.epoch = q.epoch /\ n.era = q.era
     /\ n.reserved <=> q.reserved
  BY <1>1, <1>2, EndedFacts
<1>3. req' = [req EXCEPT ![r] = {n}]
  BY <1>2, Zenon DEF End, Become, Ended
<1>4. World' /\ Frame /\ opened' = opened
  BY Zenon DEF Served
<1>5. RequestInv(r, q)'
  BY <1>1, <1>4, RequestStays, Zenon
<1>6. StepInv(r, n)'
  BY <1>5, Zenon DEF RequestInv, StepInv
<1>. AnswerInv(n)'
  <2>. /\ answer \in {"issued", "admitted"} => Outcome(n) = "allow"
       /\ answer = "denied" => Outcome(n) = "deny"
       /\ answer = "revoked" => Outcome(n) = "revoked"
    BY Zenon DEF Outcome
  <2>. QED
    BY Zenon DEF AnswerInv
<1>. RequestInv(r, n)'
  BY <1>5, <1>6, Carries, Zenon
<1>. QED
  BY <1>3, <1>4, RequestMovesOn, Zenon

\* A request that goes on to the failure record.
LEMMA FailKeeps ==
  ASSUME World, Requests, Up, Served, NEW r \in Request, NEW q \in req[r], ~q.reserved,
         NEW op \in Operation, NEW what \in {"deny", "unavailable"}, Fail(r, op, what)
  PROVE  Requests' /\ ProofStep
<1>1. era \in Nat
  BY DEF World, EraInv
<1>2. PICK n : n = Failing(r, op, what)
  BY Zenon
<1>. /\ n \in State /\ n.step = "fail" /\ n.answer = "none" /\ n.what = what
     /\ n.epoch = 0 /\ n.era = era
     /\ ~n.reserved /\ n.principal = {} /\ n.proof = {}
  <2>. /\ n \in State /\ n.step = "fail" /\ n.answer = "none" /\ n.what = what
       /\ n.epoch = 0 /\ n.era = era /\ ~n.reserved
    BY <1>1, <1>2, FailingFacts
  <2>. n.principal = {} /\ n.proof = {}
    BY <1>2, Zenon DEF Failing, Blank
  <2>. QED
    BY Zenon
<1>3. req' = [req EXCEPT ![r] = {n}]
  BY <1>2, Zenon DEF Fail, Become
<1>. World' /\ Frame /\ opened' = opened /\ era' = era
  BY Zenon DEF Served, Frame
<1>. StepInv(r, n)' /\ AnswerInv(n)'
  BY <1>1 DEF StepInv, AnswerInv, Up
<1>. RequestInv(r, n)'
  BY Plain, Zenon
<1>. QED
  BY <1>3, RequestMovesOn, Zenon

\* A request that goes on to its next step.
LEMMA GotoKeeps ==
  ASSUME World, Requests, Up, Served, NEW r \in Request, NEW q \in req[r], q.step # "end",
         NEW step \in {"reserve", "collision", "audit_allow", "activate", "authenticate",
                       "audit_admit", "fail", "revoke", "audit_revoke", "end"},
         Goto(r, q, step),
         step \in {"reserve", "collision", "authenticate", "fail", "revoke", "audit_revoke"} =>
           ~q.reserved /\ q.epoch = 0,
         step \in {"audit_allow", "activate"} => q.op \in Session /\ q.session = {q.op},
         step = "activate" => Entry(q.op, "allow") \in trail'.records,
         step \in {"authenticate", "audit_admit"} => q.op = r,
         step \in {"revoke", "audit_revoke"} => q.op \in Revocation,
         step = "fail" => q.what # "none"
  PROVE  Requests' /\ ProofStep
<1>. q \in State /\ RequestInv(r, q)
  BY Zenon DEF Requests
<1>1. PICK n : n = [q EXCEPT !.step = step]
  BY Zenon
<1>. /\ n \in State /\ n.step = step /\ n.answer = q.answer /\ n.op = q.op
     /\ n.what = q.what /\ n.session = q.session /\ n.principal = q.principal
     /\ n.proof = q.proof /\ n.epoch = q.epoch /\ n.era = q.era
     /\ n.reserved <=> q.reserved
  BY <1>1, AtStepFacts
<1>2. req' = [req EXCEPT ![r] = {n}]
  BY <1>1, Zenon DEF Goto, Become
<1>3. World' /\ Frame /\ opened' = opened
  BY Zenon DEF Served
<1>4. RequestInv(r, q)'
  BY <1>3, RequestStays, Zenon
<1>. q.answer = "none"
  BY Zenon DEF RequestInv, StepInv
<1>5. StepInv(r, n)'
  BY <1>4, Zenon DEF RequestInv, StepInv
<1>. AnswerInv(n)'
  BY Zenon DEF AnswerInv
<1>. RequestInv(r, n)'
  BY <1>4, <1>5, Carries, Zenon
<1>. QED
  BY <1>2, <1>3, RequestMovesOn, Zenon

\* The failure record of a request that could not be served.
LEMMA FailStepKeeps ==
  ASSUME ServiceInv, Up, NEW r \in Request, NEW q \in req[r], FailStep(r, q)
  PROVE  ServiceInv' /\ ProofStep
<1>1. q \in State /\ RequestInv(r, q) /\ World /\ Requests /\ q.step = "fail"
  BY Zenon DEF ServiceInv, Requests, FailStep
<1>2. PICK res \in TrailAnswer :
        /\ TrailTx(Append(trail, Entry(q.op, q.what)), res)
        /\ End(r, q, IF res = "ok" /\ q.what = "deny" THEN "denied" ELSE "unavailable")
  BY Zenon DEF FailStep
<1>3. UNCHANGED <<requestVars, iat>>
  BY <1>2, Zenon DEF End, Become
<1>4. q.what \in {"deny", "unavailable"}
  BY <1>1, Zenon DEF RequestInv, StepInv, State
<1>. QED
  <2>1. /\ Entry(q.op, q.what) \in Record
        /\ Entry(q.op, q.what).op = q.op /\ Entry(q.op, q.what).what = q.what
    <3>. q.op \in Operation
      BY <1>1, Zenon DEF State
    <3>. QED
      BY <1>4, EntryIsRecord
  <2>. Served /\ (res = "ok" => Entry(q.op, q.what) \in trail'.records)
    BY <1>1, <1>2, <1>3, <2>1, LedgerServes, Zenon
  <2>. PICK answer \in {"denied", "unavailable"} :
         /\ answer = (IF res = "ok" /\ q.what = "deny" THEN "denied" ELSE "unavailable")
         /\ End(r, q, answer)
    BY <1>2, Zenon
  <2>. answer # "unavailable" =>
         \E x \in trail'.records :
            /\ x.op = q.op
            /\ answer \in {"issued", "admitted"} => x.what = "allow"
            /\ answer = "denied" => x.what = "deny"
            /\ answer = "revoked" => x.what = "revoked"
    BY <2>1, Zenon
  <2>. Requests' /\ ProofStep
    BY <1>1, EndKeeps, Zenon
  <2>. QED
    BY Zenon DEF ServiceInv, Served

\* A collision is recorded before new material is drawn.
LEMMA CollisionKeeps ==
  ASSUME ServiceInv, Up, NEW r \in Request, NEW q \in req[r], CollisionStep(r, q)
  PROVE  ServiceInv' /\ ProofStep
<1>. /\ q \in State /\ RequestInv(r, q) /\ World /\ Requests /\ q.step = "collision"
     /\ ~q.reserved /\ q.epoch = 0 /\ q.answer = "none"
  BY Zenon DEF ServiceInv, Requests, CollisionStep, RequestInv, StepInv
<1>1. PICK x \in Record : x = Entry(<<"collision", r>>, "collision")
  <2>. <<"collision", r>> \in Operation
    BY Zenon DEF Operation
  <2>. QED
    BY EntryIsRecord, Zenon
<1>. PICK res \in TrailAnswer :
       /\ TrailTx(Append(trail, x), res)
       /\ \/ res # "ok" /\ End(r, q, "unavailable")
          \/ /\ res = "ok" /\ q.attempt < MaxAttempts
             /\ Become(r, [q EXCEPT !.step = "reserve", !.attempt = @ + 1])
          \/ res = "ok" /\ q.attempt = MaxAttempts /\ Fail(r, r, "unavailable")
  BY <1>1, Zenon DEF CollisionStep
<1>2. UNCHANGED <<requestVars, iat>>
  BY Zenon DEF End, Become, Fail
<1>. Served
  BY <1>2, LedgerServes, Zenon
<1>3. ASSUME End(r, q, "unavailable")  PROVE Requests' /\ ProofStep
  BY <1>3, EndKeeps, Zenon
<1>4. ASSUME Fail(r, r, "unavailable")  PROVE Requests' /\ ProofStep
  <2>. r \in Operation
    BY Zenon DEF Operation
  <2>. QED
    BY <1>4, FailKeeps, Zenon
<1>5. ASSUME q.attempt < MaxAttempts, Become(r, [q EXCEPT !.step = "reserve", !.attempt = @ + 1])
      PROVE  Requests' /\ ProofStep
  <2>1. PICK k \in 1..MaxAttempts : k = q.attempt + 1
    BY <1>5, ServiceAssumption DEF State
  <2>2. PICK n : n = [q EXCEPT !.step = "reserve", !.attempt = k]
    BY Zenon
  <2>. /\ n \in State /\ n.step = "reserve" /\ n.answer = q.answer /\ n.op = q.op
       /\ n.principal = q.principal /\ n.proof = q.proof /\ n.epoch = q.epoch /\ n.era = q.era
       /\ n.reserved <=> q.reserved
    BY <2>2, Zenon DEF State
  <2>3. req' = [req EXCEPT ![r] = {n}]
    BY <1>5, <2>1, <2>2, Zenon DEF Become
  <2>4. World' /\ Frame /\ opened' = opened
    BY Zenon DEF Served
  <2>. RequestInv(r, q)'
    BY <2>4, RequestStays, Zenon
  <2>5. StepInv(r, n)'
    BY Zenon DEF RequestInv, StepInv
  <2>. AnswerInv(n)'
    BY Zenon DEF AnswerInv
  <2>. RequestInv(r, n)'
    BY <2>5, Carries, Zenon
  <2>. QED
    BY <2>3, <2>4, RequestMovesOn, Zenon
<1>. Requests' /\ ProofStep
  BY <1>3, <1>4, <1>5, Zenon
<1>. QED
  BY Zenon DEF ServiceInv, Served

\* The allow record of a bootstrap comes before its activation.
LEMMA AuditAllowKeeps ==
  ASSUME ServiceInv, Up, NEW r \in Request, NEW q \in req[r], AuditAllowStep(r, q)
  PROVE  ServiceInv' /\ ProofStep
<1>. /\ q \in State /\ World /\ Requests /\ q.step = "audit_allow"
     /\ q.op \in Session /\ q.session = {q.op}
  BY Zenon DEF ServiceInv, Requests, AuditAllowStep, RequestInv, StepInv
<1>1. PICK x \in Record : x = Entry(q.op, "allow")
  <2>. q.op \in Operation
    BY Zenon DEF State
  <2>. QED
    BY EntryIsRecord, Zenon
<1>. PICK res \in TrailAnswer :
       /\ TrailTx(Append(trail, x), res)
       /\ IF res = "ok" THEN Goto(r, q, "activate") ELSE End(r, q, "unavailable")
  BY <1>1, Zenon DEF AuditAllowStep
<1>2. UNCHANGED <<requestVars, iat>>
  BY Zenon DEF End, Become, Goto
<1>. Served /\ (res = "ok" => x \in trail'.records)
  BY <1>2, LedgerServes, Zenon
<1>3. ASSUME res # "ok"  PROVE Requests' /\ ProofStep
  BY <1>3, EndKeeps, Zenon
<1>4. ASSUME res = "ok"  PROVE Requests' /\ ProofStep
  BY <1>1, <1>4, GotoKeeps, Zenon
<1>. QED
  BY <1>3, <1>4, Zenon DEF ServiceInv, Served

\* The token leaves the provider after its allow record and its activation.
LEMMA ActivateKeeps ==
  ASSUME ServiceInv, Up, NEW r \in Request, NEW q \in req[r], ActivateStep(r, q)
  PROVE  ServiceInv' /\ ProofStep
<1>. /\ q \in State /\ World /\ Requests /\ q.step = "activate"
     /\ q.op \in Session /\ q.session = {q.op} /\ Entry(q.op, "allow") \in trail.records
  BY Zenon DEF ServiceInv, Requests, ActivateStep, RequestInv, StepInv
<1>1. /\ db \in Registry /\ RowsWellFormed(db) /\ now \in Nat /\ q.op \in Operation
      /\ RowsAudited(db, trail)
  BY Zenon DEF World, WorldTypeOK, State
<1>2. PICK res \in RegistryAnswer :
        /\ RegistryTx(ActivateBootstrap(db, now, q.op, q.op), res)
        /\ End(r, q, IF res = "ok" THEN "issued" ELSE "unavailable")
  BY Zenon DEF ActivateStep
<1>3. UNCHANGED <<requestVars, iat>>
  BY <1>2, Zenon DEF End, Become
<1>4. PICK tx : tx = ActivateBootstrap(db, now, q.op, q.op)
  BY Zenon
<1>5. Ordinary(db, tx.db) /\ Running(db, tx.db) /\ ReceiptFor(db, tx.db, q.op, q.op)
  BY <1>1, <1>4, ActivateFacts, Zenon
<1>6. RowsAudited(tx.db, trail)
  BY <1>1, <1>5, Zenon DEF RowsAudited, ReceiptFor
<1>. Served /\ trail' = trail
  BY <1>2, <1>3, <1>4, <1>5, <1>6, RegistryServes, Zenon
<1>7. PICK answer \in {"issued", "unavailable"} : End(r, q, answer)
  BY <1>2, Zenon
<1>. Entry(q.op, "allow").op = q.op /\ Entry(q.op, "allow").what = "allow"
  BY <1>1, EntryIsRecord, Zenon
<1>. Requests' /\ ProofStep
  BY <1>7, EndKeeps, Zenon
<1>. QED
  BY Zenon DEF ServiceInv, Served

(***************************************************************************)
(* Manifests                                                               *)
(***************************************************************************)
\* The manifest made of the registry d and a backup of size records.
NewManifest(k, size, d) ==
  [ref |-> k + 1, backup |-> 1, size |-> size, high |-> Snapshot(d).high,
   floors |-> Snapshot(d).floors]

\* A manifest of a registry has the floors of a registry.
LEMMA NewManifestFacts ==
  ASSUME NEW d \in Registry, NEW k \in Nat, NEW size \in Nat, NEW n, n = NewManifest(k, size, d)
  PROVE  /\ n \in Manifest /\ n.ref = k + 1 /\ n.backup = 1
         /\ n.floors \in [Principal -> 0..MaxEpoch]
<1>1. /\ d.high \in Nat /\ d.epochs \in [Principal -> 0..MaxEpoch]
      /\ d.floors \in [Principal -> 0..MaxEpoch]
  BY RegistryFields, Zenon
<1>2. \A p \in Principal : LastEpoch(d, p) \in 0..MaxEpoch
  BY <1>1, Zenon DEF LastEpoch, Larger
<1>. PICK f : f = [p \in Principal |-> LastEpoch(d, p)]
  BY Zenon
<1>3. f \in [Principal -> 0..MaxEpoch] /\ f \in [Principal -> Nat]
  BY <1>2, RegistryConstants
<1>. n = [ref |-> k + 1, backup |-> 1, size |-> size, high |-> d.high, floors |-> f]
  BY Zenon DEF NewManifest, Snapshot
<1>. k + 1 \in Nat
  OBVIOUS
<1>. QED
  BY <1>1, <1>3 DEF Manifest

\* A new manifest is numbered above every earlier one, the accepted one included.
LEMMA CreateManifestKeeps ==
  ASSUME ServiceInv, KeyedInv, CreateManifest
  PROVE  ServiceInv' /\ ProofStep
<1>. /\ World /\ Cardinality(manifests) < MaxManifest
     /\ UNCHANGED <<now, db, trail, opened, unfenced, owed, iat, req, backup, recovery,
                    faults, era>>
  BY Zenon DEF ServiceInv, CreateManifest
<1>. IsFiniteSet(manifests) /\ Cardinality(manifests) \in Nat
  BY FS_CardinalityType, Zenon DEF World, ManifestInv
<1>1. PICK b \in backup : manifests' = manifests \cup
        {NewManifest(Cardinality(manifests), Cardinality(b.trail.records), db)}
  BY Zenon DEF CreateManifest, NewManifest
<1>2. db \in Registry /\ Cardinality(b.trail.records) \in Nat
  BY FS_CardinalityType, Zenon DEF World, WorldTypeOK, KeyedInv, Keyed
<1>. PICK n : /\ n = NewManifest(Cardinality(manifests), Cardinality(b.trail.records), db)
              /\ manifests' = manifests \cup {n}
  BY <1>1, Zenon
<1>. /\ n \in Manifest /\ n.ref = Cardinality(manifests) + 1 /\ n.backup = 1
     /\ n.floors \in [Principal -> 0..MaxEpoch]
  BY <1>2, NewManifestFacts, Zenon
<1>. /\ \A m \in manifests : m.ref \in 1..Cardinality(manifests) /\ m.backup = 1
                             /\ m.floors \in [Principal -> 0..MaxEpoch]
     /\ \A m, o \in manifests : m.ref = o.ref => m = o
  BY Zenon DEF World, ManifestInv
<1>3. n \notin manifests
  OBVIOUS
<1>. IsFiniteSet(manifests') /\ Cardinality(manifests') = Cardinality(manifests) + 1
  BY <1>3, FS_AddElement, Zenon
<1>4. ManifestInv'
  <2>1. Cardinality(manifests') \in 0..MaxManifest
    BY ServiceAssumption
  <2>. \A m \in manifests' : /\ m.ref \in 1..Cardinality(manifests') /\ m.backup = 1
                             /\ m.floors \in [Principal -> 0..MaxEpoch]
    OBVIOUS
  <2>. \A m, o \in manifests' : m.ref = o.ref => m = o
    OBVIOUS
  <2>. QED
    BY <1>1, <2>1, Zenon DEF ManifestInv
<1>5. \A m \in manifests', a \in trail.accepted : m.ref = a.ref => m \in manifests
  BY DEF World, AcceptedInv
<1>6. WorldTypeOK' /\ RowsAudited(db', trail') /\ DatesInv' /\ BackupInv' /\ EraInv'
  BY Zenon DEF World, WorldTypeOK, DatesInv, BackupInv, EraInv
<1>7. AcceptedInv'
  <2>. \A a \in trail.accepted : a.ref \in 1..Cardinality(manifests')
    BY DEF World, AcceptedInv
  <2>. QED
    BY <1>5, Zenon DEF World, AcceptedInv, AboveFloors
<1>8. RecoveryInv'
  <2>. \A v \in recovery : RecoveryStep(v)
    BY Zenon DEF World, RecoveryInv
  <2>. \A v \in recovery : RecoveryStep(v)'
    BY Zenon DEF RecoveryStep, AboveFloors
  <2>. QED
    BY Zenon DEF World, RecoveryInv, Up
<1>9. World'
  BY <1>4, <1>6, <1>7, <1>8, Zenon DEF World
<1>. Frame
  <2>. db.high \in Nat /\ \A p \in Principal : db.epochs[p] \in Nat
    BY <1>2, RegistryFields, RegistryConstants
  <2>. db'.high >= db.high /\ \A p \in Principal : db'.epochs[p] >= db.epochs[p]
    OBVIOUS
  <2>. QED
    BY <1>5, Zenon DEF Frame, Unserved
<1>. QED
  BY <1>9, WorldStays, Zenon

(***************************************************************************)
(* The operations of the ledger                                            *)
(***************************************************************************)
\* No write of the ledger records an operation twice.
LEMMA KeyedWrites ==
  ASSUME NEW l \in Ledger, Keyed(l), NEW x, NEW m
  PROVE  /\ Keyed(AppendRecord(l, x).ledger) /\ Keyed(Append(l, x).ledger)
         /\ Keyed(FenceRestored(l, 1).ledger) /\ Keyed(CommitRestore(l, m, x).ledger)
<1>1. AppendRecord(l, x).ledger \in [fence: {"admitted", "restore_fenced"}, backup: SUBSET Nat,
                                     accepted: SUBSET Acceptance,
                                     records: SUBSET (Record \cup {x})]
  BY Zenon DEF AppendRecord, Done, Refused, Ledger, Trail, Acceptance
<1>. Keyed(AppendRecord(l, x).ledger)
  <2>. IsFiniteSet(l.records \cup {x})
    BY FS_AddElement, Zenon DEF Keyed
  <2>. QED
    BY Zenon DEF AppendRecord, Done, Refused, Ledger, Trail, Keyed
<1>2. Keyed(Append(l, x).ledger)
  BY Zenon DEF Append, Refused
<1>3. Keyed(FenceRestored(l, 1).ledger)
  BY Zenon DEF FenceRestored, Done, Refused, Ledger, Trail, Keyed
<1>. Keyed(CommitRestore(l, m, x).ledger)
  <2>. PICK a : a = AppendRecord(l, x)
    BY Zenon
  <2>. PICK e : e = [a.ledger EXCEPT !.fence = "admitted",
                       !.accepted = {[ref |-> m.ref, receipt |-> x.op]}]
    BY Zenon
  <2>1. e.records = a.ledger.records
    BY <1>1, Zenon
  <2>. Keyed(e)
    BY <2>1, Zenon DEF Keyed
  <2>. CommitRestore(l, m, x).ledger \in {l, e}
    BY Zenon DEF CommitRestore, Done, Refused
  <2>. QED
    BY Zenon
<1>. QED
  BY <1>2, <1>3, Zenon

\* A transaction of the ledger.
LEMMA KeyedTransaction ==
  ASSUME Keyed(trail), NEW tx, Keyed(tx.ledger), NEW res, TrailTx(tx, res)
  PROVE  Keyed(trail')
  BY Zenon DEF TrailTx

\* A step of a request.
LEMMA KeyedRequest ==
  ASSUME trail \in Ledger, Keyed(trail), NEW r, NEW q, Step(r, q)
  PROVE  Keyed(trail') /\ backup' = backup
<1>1. \A x : Keyed(Append(trail, x).ledger)
  BY KeyedWrites, Zenon
<1>. \A x, res : TrailTx(Append(trail, x), res) => Keyed(trail')
  BY <1>1, KeyedTransaction, Zenon
<1>. \A tx, res : RegistryTx(tx, res) => Keyed(trail')
  BY Zenon DEF RegistryTx
<1>. \A u, n : Become(u, n) => backup' = backup
  BY Zenon DEF Become, requestVars
<1>2. CASE \E s \in Session : ReserveStep(r, q, s)
  BY <1>2, Zenon DEF ReserveStep, Goto, RegistryFailure, Fail
<1>3. CASE CollisionStep(r, q)
  BY <1>3, Zenon DEF CollisionStep, End, Fail
<1>4. CASE AuditAllowStep(r, q)
  BY <1>4, Zenon DEF AuditAllowStep, Goto, End
<1>5. CASE ActivateStep(r, q)
  BY <1>5, Zenon DEF ActivateStep, End
<1>6. CASE AuthenticateStep(r, q)
  BY <1>6, Zenon DEF AuthenticateStep, RegistryFailure, Fail
<1>7. CASE AuditAdmitStep(r, q)
  BY <1>7, Zenon DEF AuditAdmitStep, End
<1>8. CASE FailStep(r, q)
  BY <1>8, Zenon DEF FailStep, End
<1>9. CASE RevokeStep(r, q)
  BY <1>9, Zenon DEF RevokeStep, Goto, End
<1>10. CASE AuditRevokeStep(r, q)
  BY <1>10, Zenon DEF AuditRevokeStep, End
<1>. QED
  BY <1>2, <1>3, <1>4, <1>5, <1>6, <1>7, <1>8, <1>9, <1>10, Zenon DEF Step

\* Every step leaves every operation with one record at most.
LEMMA NextKeyed ==
  ASSUME trail \in Ledger, KeyedInv, [Next]_vars
  PROVE  KeyedInv'
<1>1. Keyed(trail)
  BY Zenon DEF KeyedInv
<1>2. CASE trail' = trail /\ backup' = backup
  BY <1>2, Zenon DEF KeyedInv
<1>3. CASE Keyed(trail') /\ backup' = backup
  BY <1>3, Zenon DEF KeyedInv
<1>4. CASE \E r \in Request : \E q \in req[r] : Step(r, q)
  BY <1>1, <1>3, <1>4, KeyedRequest, Zenon
<1>5. CASE \/ \E r \in Request, a \in Principal, p \in Proof, t \in Date,
                e \in 1..(MaxTime + MaxLifetime) : Bootstrap(r, a, p, t, e)
           \/ \E r \in Request, s \in Session, p \in Proof, t \in Date :
                AuthenticateRequest(r, s, p, t)
           \/ \E r \in Request, what \in {"deny", "unavailable"} : VerificationFails(r, what)
           \/ \E r \in Request, s \in Session, o \in Revocation : RevokeRequest(r, s, o)
  <2>. \A r, q : Begin(r, q) => trail' = trail /\ backup' = backup
    BY Zenon DEF Begin, requestVars
  <2>. QED
    BY <1>2, <1>5, Zenon DEF Bootstrap, AuthenticateRequest, Verified, VerificationFails,
         RevokeRequest, Become, requestVars
<1>6. CASE Cleanup \/ ExpiryLoop \/ ClockRecovery
  <2>. \A tx : Maintain(tx) => trail' = trail /\ backup' = backup
    BY Zenon DEF Maintain, requestVars
  <2>. QED
    BY <1>2, <1>6, Zenon DEF Cleanup, ExpiryLoop, ClockRecovery
<1>7. CASE Tick \/ SetClockBack \/ CreateManifest \/ Crash \/ OpenIdentity \/ UNCHANGED vars
  BY <1>2, <1>7, Zenon DEF Tick, SetClockBack, CreateManifest, Crash, OpenIdentity, vars
<1>8. CASE Backup
  BY <1>1, <1>8 DEF Backup, KeyedInv
<1>9. CASE Restore
  BY <1>9, Zenon DEF Restore, KeyedInv
<1>10. CASE OpenAudit
  <2>. Keyed(trail') /\ backup' = backup
    BY <1>1, <1>10, KeyedWrites, Zenon DEF OpenAudit
  <2>. QED
    BY <1>3, Zenon
<1>11. CASE \/ \E m \in manifests : Recover(m)
            \/ \E v \in recovery : AcceptedStep(v) \/ StageStep(v) \/ CompleteStep(v)
  BY <1>2, <1>11, Zenon DEF Recover, AcceptedStep, StageStep, CompleteStep, RegistryTx, recoverFrame
<1>12. CASE \E v \in recovery : CommitStep(v)
  <2>. \A m, x, res : TrailTx(CommitRestore(trail, m, x), res) => Keyed(trail')
    BY <1>1, KeyedWrites, KeyedTransaction, Zenon
  <2>. Keyed(trail') /\ backup' = backup
    BY <1>12, Zenon DEF CommitStep, recoverFrame
  <2>. QED
    BY <1>3, Zenon
<1>. QED
  BY <1>4, <1>5, <1>6, <1>7, <1>8, <1>9, <1>10, <1>11, <1>12, Zenon DEF Next

(***************************************************************************)
(* The initial state                                                       *)
(***************************************************************************)
\* A new registry and a ledger with the record of its key.
LEMMA InitHolds == Init => ServiceInv /\ KeyedInv
<1>1. SUFFICES ASSUME Init  PROVE ServiceInv /\ KeyedInv
  BY Zenon
<1>2. PICK x : x = Entry(KeyInstalled, "installed")
  BY Zenon
<1>3. x \in Record
  BY <1>2, Zenon DEF Entry, Record, Operation
<1>4. /\ trail = [fence |-> "admitted", backup |-> {}, accepted |-> {}, records |-> {x}]
  BY <1>1, <1>2, Zenon DEF Init, NewTrail
<1>5. trail \in Ledger /\ Keyed(trail)
  <2>. trail \in Ledger /\ trail.records = {x}
    BY <1>3, <1>4, Zenon DEF Ledger, Trail
  <2>. IsFiniteSet({x})
    BY FS_Singleton, Zenon
  <2>. QED
    BY Zenon DEF Keyed
<1>6. db = [fence |-> "admitted", receipt |-> {}, high |-> 0,
            epochs |-> [p \in Principal |-> 0], floors |-> [p \in Principal |-> 0],
            refs |-> [p \in Principal |-> {}], sessions |-> [s \in Session |-> {}],
            proofs |-> {}]
  BY <1>1, Zenon DEF Init, NewDatabase
<1>7. /\ db \in Registry /\ db.fence = "admitted" /\ db.receipt = {}
      /\ \A s \in Session : db.sessions[s] = {}
  BY <1>6, RegistryConstants DEF Registry, Database
<1>8. RowsWellFormed(db) /\ RowsAudited(db, trail)
  BY <1>7, Zenon DEF RowsWellFormed, RowsAudited
<1>. /\ now = 0 /\ opened = Both /\ unfenced = {} /\ owed = FALSE
     /\ iat = [p \in Proof |-> {}] /\ req = [r \in Request |-> {}]
     /\ backup = {} /\ manifests = {} /\ recovery = {} /\ faults = 0 /\ era = 0
  BY <1>1, Zenon DEF Init
<1>9. WorldTypeOK /\ DatesInv
  BY <1>5, <1>7, <1>8, Zenon DEF WorldTypeOK, DatesInv
<1>10. BackupInv /\ RecoveryInv
  BY Zenon DEF BackupInv, RecoveryInv
<1>11. ManifestInv
  BY FS_EmptySet, ServiceAssumption DEF ManifestInv
<1>. EraInv /\ AcceptedInv
  BY <1>4, <1>7 DEF EraInv, AcceptedInv
<1>. Requests
  BY Zenon DEF Requests, EpochsDiffer
<1>. QED
  BY <1>5, <1>8, <1>9, <1>10, <1>11, Zenon DEF ServiceInv, World, KeyedInv

(***************************************************************************)
(* Proofs, revocations, reservations and the start of a request            *)
(***************************************************************************)
\* A proof without a row was used by nobody, or is out of its window.
LEMMA Unspent ==
  ASSUME World, World', Requests, NEW p \in Proof, ~Reserved(db, p), db'.high >= db.high
  PROVE  Holders(p) = {} \/ \A t \in iat[p] : db'.high > t + ProofWindow
<1>1. SUFFICES ASSUME NEW u \in Holders(p), NEW t \in iat[p]  PROVE db'.high > t + ProofWindow
  BY Zenon
<1>2. PICK q \in req[u] : q.reserved /\ q.proof = {p} /\ q.era = era
  BY <1>1, Zenon DEF Holders
<1>3. RequestInv(u, q)
  BY <1>1, Zenon DEF Holders, Requests
<1>4. Kept(p, t)
  BY <1>2, <1>3, Zenon DEF RequestInv, ProofInv
<1>5. db.high > t + ProofWindow + 1
  BY <1>4, Zenon DEF Kept, HasRow, Reserved
<1>. db.high \in Nat /\ db'.high \in Nat /\ t \in Nat
  <2>. db \in Registry /\ db' \in Registry /\ iat \in [Proof -> SUBSET Nat]
    BY Zenon DEF World, WorldTypeOK
  <2>. QED
    BY RegistryFields, Zenon
<1>. QED
  BY <1>5, RegistryConstants

\* The row of a proof that was just reserved.
LEMMA JustReserved ==
  ASSUME DatesInv, NEW p \in Proof, NEW t \in iat[p], iat' = iat, HasRow(db', p, t)
  PROVE  iat'[p] # {} /\ \A u \in iat'[p] : Kept(p, u)'
<1>. \A u \in iat'[p] : u = t
  BY Zenon DEF DatesInv
<1>. Kept(p, t)'
  BY Zenon DEF Kept
<1>. QED
  BY Zenon

\* A registry failure is recorded as a denial or as unavailability.
LEMMA RegistryFailureKeeps ==
  ASSUME World, Requests, Up, Served, NEW r \in Request, NEW q \in req[r], ~q.reserved,
         NEW op \in Operation, NEW res, RegistryFailure(r, op, res)
  PROVE  Requests' /\ ProofStep
<1>. PICK what \in {"deny", "unavailable"} : Fail(r, op, what)
  BY Zenon DEF RegistryFailure
<1>. QED
  BY FailKeeps, Zenon

\* A session is admitted with a proof that nobody used within its window.
LEMMA AuthenticateKeeps ==
  ASSUME ServiceInv, Up, NEW r \in Request, NEW q \in req[r], AuthenticateStep(r, q)
  PROVE  ServiceInv' /\ ProofStep
<1>. /\ q \in State /\ RequestInv(r, q) /\ World /\ Requests /\ q.step = "authenticate"
     /\ ~q.reserved /\ q.epoch = 0 /\ q.op = r /\ q.answer = "none" /\ q.era = era
     /\ \A o, p \in q.proof : o = p
  BY Zenon DEF ServiceInv, Requests, AuthenticateStep, RequestInv, StepInv
<1>1. PICK s \in q.session, p \in q.proof : \E t \in iat[p], res \in RegistryAnswer :
        /\ RegistryTx(Authenticate(db, now, s, p, t), res)
        /\ \/ res = "ok" /\ Become(r, [q EXCEPT !.step = "audit_admit", !.reserved = TRUE])
           \/ res # "ok" /\ RegistryFailure(r, r, res)
  BY Zenon DEF AuthenticateStep
<1>. PICK t \in iat[p], res \in RegistryAnswer :
       /\ RegistryTx(Authenticate(db, now, s, p, t), res)
       /\ \/ res = "ok" /\ Become(r, [q EXCEPT !.step = "audit_admit", !.reserved = TRUE])
          \/ res # "ok" /\ RegistryFailure(r, r, res)
  BY <1>1, Zenon
<1>. /\ db \in Registry /\ RowsWellFormed(db) /\ now \in Nat /\ r \in Operation
     /\ s \in Session /\ p \in Proof /\ t \in Nat /\ q.proof = {p} /\ DatesInv
  <2>. /\ db \in Registry /\ RowsWellFormed(db) /\ now \in Nat /\ DatesInv
       /\ iat \in [Proof -> SUBSET Nat]
    BY Zenon DEF World, WorldTypeOK
  <2>. s \in Session /\ p \in Proof /\ r \in Operation
    BY Zenon DEF State, Operation
  <2>. QED
    BY Zenon
<1>2. UNCHANGED <<requestVars, iat>>
  BY Zenon DEF RegistryFailure, Fail, Become
<1>3. PICK tx : tx = Authenticate(db, now, s, p, t)
  BY Zenon
<1>4. Proceeds(db, tx.db) /\ (tx.res = "ok" => ~Reserved(db, p) /\ HasRow(tx.db, p, t))
  BY <1>3, AuthenticateFacts, Zenon
<1>. /\ Served /\ trail' = trail
     /\ res # "unavailable" => tx.res = res /\ db' = tx.db
  BY <1>2, <1>3, <1>4, RegistryProceeds, Zenon
<1>5. ASSUME res # "ok"  PROVE Requests' /\ ProofStep
  BY <1>5, RegistryFailureKeeps, Zenon
<1>6. ASSUME res = "ok"  PROVE Requests' /\ ProofStep
  <2>1. PICK n : n = [q EXCEPT !.step = "audit_admit", !.reserved = TRUE]
    BY Zenon
  <2>. /\ n \in State /\ n.step = "audit_admit" /\ n.answer = q.answer /\ n.op = q.op
       /\ n.principal = q.principal /\ n.proof = q.proof /\ n.epoch = q.epoch /\ n.era = q.era
    BY <2>1, Zenon DEF State
  <2>2. req' = [req EXCEPT ![r] = {n}]
    BY <1>6, <2>1, Zenon DEF Become
  <2>. World' /\ Frame /\ opened' = opened /\ era' = era /\ db'.high >= db.high
    BY Zenon DEF Served, Frame
  <2>3. ~Reserved(db, p) /\ HasRow(db', p, t)
    BY <1>4, <1>6, Zenon
  <2>4. iat'[p] # {} /\ \A u \in iat'[p] : Kept(p, u)'
    BY <1>2, <2>3, JustReserved, Zenon
  <2>5. StepInv(r, n)'
    <3>. r \notin Revocation
      BY OperationsDistinct, Zenon
    <3>. StepInv(r, q)'
      BY RequestStays, Zenon DEF RequestInv
    <3>. QED
      BY Zenon DEF StepInv
  <2>6. AnswerInv(n)'
    BY Zenon DEF AnswerInv
  <2>7. ProofInv(n)'
    BY <2>4, Zenon DEF ProofInv
  <2>8. EpochInv(n)'
    BY DEF EpochInv
  <2>9. RequestInv(r, n)'
    BY <2>5, <2>6, <2>7, <2>8, Zenon DEF RequestInv
  <2>. ProofIsNew(r, n)
    <3>1. SUFFICES ASSUME NEW o \in Proof, o # p
                   PROVE  (\E y \in req[r] : Uses(y, o) /\ y.era = era) <=> (Uses(n, o) /\ n.era = era)
      BY <2>3, Unspent, Zenon DEF ProofIsNew
    <3>. ~Uses(n, o)
      BY <3>1, Zenon DEF Uses
    <3>. \A y \in req[r] : y = q
      BY Zenon DEF Requests
    <3>. QED
      BY Zenon DEF Uses
  <2>. EpochIsNew(r, n)
    BY DEF EpochIsNew
  <2>. QED
    BY <2>2, <2>9, RequestMoves, Zenon
<1>. QED
  BY <1>5, <1>6, Zenon DEF ServiceInv, Served

\* The admission of a session is recorded before it is answered.
LEMMA AuditAdmitKeeps ==
  ASSUME ServiceInv, Up, NEW r \in Request, NEW q \in req[r], AuditAdmitStep(r, q)
  PROVE  ServiceInv' /\ ProofStep
<1>1. q \in State /\ World /\ Requests /\ q.step = "audit_admit" /\ q.op = r
  BY Zenon DEF ServiceInv, Requests, AuditAdmitStep, RequestInv, StepInv
<1>2. PICK x \in Record : x = Entry(r, "allow") /\ x.op = r /\ x.what = "allow"
  <2>. r \in Operation
    BY Zenon DEF Operation
  <2>. QED
    BY EntryIsRecord, Zenon
<1>. PICK res \in TrailAnswer :
       /\ TrailTx(Append(trail, x), res)
       /\ End(r, q, IF res = "ok" THEN "admitted" ELSE "unavailable")
  BY <1>2, Zenon DEF AuditAdmitStep
<1>3. UNCHANGED <<requestVars, iat>>
  BY Zenon DEF End, Become
<1>. Served /\ (res = "ok" => x \in trail'.records)
  BY <1>1, <1>3, LedgerServes, Zenon
<1>. PICK answer \in {"admitted", "unavailable"} :
       End(r, q, answer) /\ (answer = "admitted" => res = "ok")
  BY Zenon
<1>. Requests' /\ ProofStep
  BY <1>1, <1>2, EndKeeps, Zenon
<1>. QED
  BY Zenon DEF ServiceInv, Served

\* A revocation goes on to its record.
LEMMA RevokeKeeps ==
  ASSUME ServiceInv, Up, NEW r \in Request, NEW q \in req[r], RevokeStep(r, q)
  PROVE  ServiceInv' /\ ProofStep
<1>. /\ q \in State /\ World /\ Requests /\ q.step = "revoke" /\ q.op \in Revocation
     /\ ~q.reserved /\ q.epoch = 0
  BY Zenon DEF ServiceInv, Requests, RevokeStep, RequestInv, StepInv
<1>. PICK s \in q.session, res \in RegistryAnswer :
      /\ RegistryTx(Revoke(db, now, s, q.op), res)
      /\ IF res \in {"ok", "again"} THEN Goto(r, q, "audit_revoke") ELSE End(r, q, "unavailable")
  BY Zenon DEF RevokeStep
<1>1. db \in Registry /\ RowsWellFormed(db) /\ now \in Nat /\ s \in Session
  BY Zenon DEF World, WorldTypeOK, State
<1>2. UNCHANGED <<requestVars, iat>>
  BY Zenon DEF End, Become, Goto
<1>3. Proceeds(db, Revoke(db, now, s, q.op).db)
  BY <1>1, RevokeFacts, Zenon
<1>. Served
  BY <1>2, <1>3, RegistryProceeds, Zenon
<1>4. ASSUME End(r, q, "unavailable")  PROVE Requests' /\ ProofStep
  BY <1>4, EndKeeps, Zenon
<1>5. ASSUME Goto(r, q, "audit_revoke")  PROVE Requests' /\ ProofStep
  BY <1>5, GotoKeeps, Zenon
<1>. QED
  BY <1>4, <1>5, Zenon DEF ServiceInv, Served

\* The record of a revocation comes before its answer.
LEMMA AuditRevokeKeeps ==
  ASSUME ServiceInv, Up, NEW r \in Request, NEW q \in req[r], AuditRevokeStep(r, q)
  PROVE  ServiceInv' /\ ProofStep
<1>. q \in State /\ World /\ Requests /\ q.step = "audit_revoke" /\ q.op \in Operation /\ now \in Nat
  BY DEF ServiceInv, Requests, AuditRevokeStep, State, World, WorldTypeOK
<1>1. PICK x \in Record : x = [op |-> q.op, what |-> "revoked", at |-> now]
  <2>. [op |-> q.op, what |-> "revoked", at |-> now] \in Record
    BY Zenon DEF Record
  <2>. QED
    BY Zenon
<1>2. x.op = q.op /\ x.what = "revoked"
  BY <1>1, Zenon
<1>. PICK res \in TrailAnswer :
       /\ TrailTx(Append(trail, x), res)
       /\ End(r, q, IF res = "ok" THEN "revoked" ELSE "unavailable")
  BY <1>1, Zenon DEF AuditRevokeStep
<1>3. UNCHANGED <<requestVars, iat>>
  BY Zenon DEF End, Become
<1>. Served /\ (res = "ok" => x \in trail'.records)
  BY <1>3, LedgerServes, Zenon
<1>. PICK answer \in {"revoked", "unavailable"} :
       End(r, q, answer) /\ (answer = "revoked" => res = "ok")
  BY Zenon
<1>. Requests' /\ ProofStep
  BY <1>2, EndKeeps, Zenon
<1>. QED
  BY Zenon DEF ServiceInv, Served

\* A bootstrap gets an epoch that nobody of its era has, above the floors of
\* the accepted manifest.
LEMMA ReserveKeeps ==
  ASSUME ServiceInv, Up, NEW r \in Request, NEW q \in req[r], NEW s \in Session, ReserveStep(r, q, s)
  PROVE  ServiceInv' /\ ProofStep
<1>. /\ q \in State /\ RequestInv(r, q) /\ World /\ Requests /\ q.step = "reserve"
     /\ ~q.reserved /\ q.epoch = 0 /\ q.answer = "none" /\ q.era = era
     /\ \A o, p \in q.proof : o = p
     /\ \A a, b \in q.principal : a = b
  BY Zenon DEF ServiceInv, Requests, ReserveStep, RequestInv, StepInv
<1> DEFINE Tx(a, p, t) == ReserveBootstrap(db, now, [session |-> s, principal |-> a, proof |-> p,
                                                     iat |-> t, expires |-> q.expires])
           Goes(a, res) ==
             \/ /\ res = "ok"
                /\ Become(r, [q EXCEPT !.step = "audit_allow", !.op = s, !.session = {s},
                                       !.epoch = db'.epochs[a], !.reserved = TRUE])
             \/ res = "conflict" /\ Goto(r, q, "collision")
             \/ res \notin {"ok", "conflict"} /\ RegistryFailure(r, s, res)
<1>1. PICK a \in q.principal, p \in q.proof : \E t \in iat[p], res \in RegistryAnswer :
        RegistryTx(Tx(a, p, t), res) /\ Goes(a, res)
  BY Zenon DEF ReserveStep
<1>. PICK t \in iat[p], res \in RegistryAnswer : RegistryTx(Tx(a, p, t), res) /\ Goes(a, res)
  BY <1>1, Zenon
<1>. UNCHANGED <<requestVars, iat>>
  BY Zenon DEF RegistryFailure, Fail, Become, Goto
<1>2. PICK tx : tx = Tx(a, p, t)
  BY Zenon
<1>. /\ db \in Registry /\ RowsWellFormed(db) /\ now \in Nat /\ s \in Operation
     /\ a \in Principal /\ p \in Proof /\ t \in Nat /\ q.expires \in Nat
     /\ q.proof = {p} /\ q.principal = {a} /\ DatesInv
  <2>. /\ db \in Registry /\ RowsWellFormed(db) /\ now \in Nat /\ DatesInv
       /\ iat \in [Proof -> SUBSET Nat]
    BY Zenon DEF World, WorldTypeOK
  <2>. a \in Principal /\ p \in Proof /\ s \in Operation /\ q.expires \in Nat
    BY Zenon DEF State, Operation
  <2>. QED
    BY Zenon
<1>3. /\ Proceeds(db, tx.db)
      /\ tx.res = "ok" =>
              /\ db.fence = "admitted" /\ tx.db.fence = "admitted"
              /\ ~Reserved(db, p) /\ HasRow(tx.db, p, t)
              /\ tx.db.epochs[a] > db.epochs[a] /\ tx.db.epochs[a] > db.floors[a]
  BY <1>2, ReserveBootstrapFacts
<1>. /\ Served /\ trail' = trail
     /\ res # "unavailable" => tx.res = res /\ db' = tx.db
  BY <1>2, <1>3, RegistryProceeds, Zenon
<1>4. ASSUME RegistryFailure(r, s, res)  PROVE Requests' /\ ProofStep
  BY <1>4, RegistryFailureKeeps, Zenon
<1>5. ASSUME Goto(r, q, "collision")  PROVE Requests' /\ ProofStep
  BY <1>5, GotoKeeps, Zenon
<1>6. ASSUME res = "ok",
             Become(r, [q EXCEPT !.step = "audit_allow", !.op = s, !.session = {s},
                                 !.epoch = db'.epochs[a], !.reserved = TRUE])
      PROVE  Requests' /\ ProofStep
  <2>. /\ db'.fence = "admitted" /\ ~Reserved(db, p) /\ HasRow(db', p, t)
       /\ db'.epochs[a] > db.epochs[a] /\ db'.epochs[a] > db.floors[a]
    BY <1>3, <1>6, Zenon
  <2>. World' /\ Frame /\ opened' = opened /\ era' = era /\ db'.high >= db.high
    BY Zenon DEF Served, Frame
  <2>. db.epochs[a] \in Nat /\ db.floors[a] \in Nat /\ db'.epochs[a] \in Nat
    <3>. db' \in Registry
      BY Zenon DEF World, WorldTypeOK
    <3>. QED
      BY RegistryFields, RegistryConstants
  <2>. PICK k \in Nat : k = db'.epochs[a]
    BY Zenon
  <2>1. PICK n : n = [q EXCEPT !.step = "audit_allow", !.op = s, !.session = {s},
                               !.epoch = k, !.reserved = TRUE]
    BY Zenon
  <2>. /\ n \in State /\ n.step = "audit_allow" /\ n.answer = q.answer /\ n.op = s
       /\ n.session = {s} /\ n.principal = q.principal /\ n.proof = q.proof
       /\ n.epoch = k /\ n.era = q.era
    BY <2>1, Zenon DEF State
  <2>2. req' = [req EXCEPT ![r] = {n}]
    BY <1>6, <2>1, Zenon DEF Become
  <2>3. iat'[p] # {} /\ \A u \in iat'[p] : Kept(p, u)'
    BY JustReserved, Zenon
  <2>4. StepInv(r, n)'
    <3>. s \notin Revocation
      BY OperationsDistinct, Zenon
    <3>. StepInv(r, q)'
      BY RequestStays, Zenon DEF RequestInv
    <3>. QED
      BY Zenon DEF StepInv
  <2>5. AnswerInv(n)'
    BY Zenon DEF AnswerInv
  <2>6. ProofInv(n)'
    BY <2>3, Zenon DEF ProofInv
  <2>7. EpochInv(n)'
    <3>1. \A b \in n.principal : b = a
      BY Zenon
    <3>2. n.principal # {} /\ \A b \in n.principal : n.epoch <= db'.epochs[b]
      BY <3>1
    <3>3. unfenced' = {} /\ ~Unserved'
      <4>. unfenced' = unfenced /\ Up'
        BY Zenon DEF requestVars, Up
      <4>. unfenced = {}
        BY UpFacts, Zenon
      <4>. QED
        BY Zenon DEF Unserved
    <3>4. ASSUME ~owed', NEW m \in manifests', NEW c \in trail'.accepted, m.ref = c.ref
          PROVE  n.epoch > m.floors[a]
      <4>1. m \in manifests /\ c \in trail.accepted /\ ~owed
        BY <3>4, Zenon DEF requestVars
      <4>. AboveFloors(m) /\ m.floors \in [Principal -> 0..MaxEpoch]
        BY <3>4, <4>1, Zenon DEF World, AcceptedInv, ManifestInv
      <4>. db.floors[a] >= m.floors[a] /\ m.floors[a] \in Nat
        BY RegistryConstants DEF AboveFloors
      <4>. QED
        OBVIOUS
    <3>. QED
      BY <3>1, <3>2, <3>3, <3>4, Zenon DEF EpochInv
  <2>8. RequestInv(r, n)'
    BY <2>4, <2>5, <2>6, <2>7, Zenon DEF RequestInv
  <2>9. ProofIsNew(r, n)
    <3>1. SUFFICES ASSUME NEW o \in Proof, o # p
                   PROVE  (\E y \in req[r] : Uses(y, o) /\ y.era = era) <=> (Uses(n, o) /\ n.era = era)
      BY Unspent, Zenon DEF ProofIsNew
    <3>. ~Uses(n, o)
      BY <3>1, Zenon DEF Uses
    <3>. \A y \in req[r] : y = q
      BY Zenon DEF Requests
    <3>. QED
      BY Zenon DEF Uses
  <2>10. ASSUME NEW u \in Request \ {r}, NEW y \in req[u],
                n.epoch = y.epoch, n.principal = y.principal
         PROVE  n.era # y.era
    <3>1. y \in State /\ EpochInv(y)
      BY Zenon DEF Requests, RequestInv
    <3>. y.epoch > 0 /\ a \in y.principal
      BY <2>10
    <3>. y.era = era => y.epoch <= db.epochs[a]
      BY <3>1, Zenon DEF EpochInv
    <3>. QED
      BY <2>10
  <2>. EpochIsNew(r, n)
    BY <2>10, Zenon DEF EpochIsNew
  <2>. QED
    BY <2>2, <2>8, <2>9, RequestMoves, Zenon
<1>. Requests' /\ ProofStep
  BY <1>4, <1>5, <1>6, Zenon
<1>. QED
  BY Zenon DEF ServiceInv, Served

\* A request begins, or a revocation is retried.
LEMMA BeginKeeps ==
  ASSUME ServiceInv, Up, UNCHANGED <<requestVars, db, trail, faults>>,
         iat' \in [Proof -> SUBSET Nat], DatesInv',
         \A p \in Proof : iat[p] # {} => iat'[p] = iat[p],
         NEW r \in Request, NEW n \in State, req' = [req EXCEPT ![r] = {n}],
         ~n.reserved, n.epoch = 0, n.answer = "none", StepInv(r, n),
         \A q \in req[r] : ~q.reserved
  PROVE  ServiceInv' /\ ProofStep
<1>. /\ World /\ Requests /\ db \in Registry /\ RowsWellFormed(db)
     /\ trail \in Ledger
     /\ RowsAudited(db, trail) /\ faults \in Nat
  BY Zenon DEF ServiceInv, World, WorldTypeOK, EraInv
<1>1. Ordinary(db, db') /\ Running(db, db') /\ Grows(trail, trail') /\ RowsAudited(db', trail')
  BY Unchanged, Zenon DEF Proceeds, Grows
<1>2. Served
  BY <1>1, WorldServes, Zenon
<1>3. World' /\ Frame /\ opened' = opened
  BY <1>2, Zenon DEF Served
<1>4. StepInv(r, n)'
  BY Zenon DEF StepInv, requestVars, Up
<1>5. AnswerInv(n)'
  BY Zenon DEF AnswerInv
<1>6. RequestInv(r, n)'
  BY <1>4, <1>5, Plain, Zenon
<1>7. EpochIsNew(r, n)
  BY DEF EpochIsNew
<1>. ProofIsNew(r, n)
  BY Zenon DEF ProofIsNew, Uses
<1>. Requests' /\ ProofStep
  BY <1>3, <1>6, <1>7, RequestMoves, Zenon
<1>. QED
  BY <1>3, Zenon DEF ServiceInv

\* A proof keeps the date it was first presented with.
LEMMA PresentFacts ==
  ASSUME World, NEW p \in Proof, NEW t \in Nat, Present(p, t)
  PROVE  /\ iat' \in [Proof -> SUBSET Nat] /\ DatesInv'
         /\ \A o \in Proof : iat[o] # {} => iat'[o] = iat[o]
<1>. iat \in [Proof -> SUBSET Nat] /\ DatesInv
  BY Zenon DEF World, WorldTypeOK
<1>. iat' = [iat EXCEPT ![p] = {t}] /\ (iat[p] # {} => iat[p] = {t})
  BY Zenon DEF Present
<1>. QED
  BY Zenon DEF DatesInv

\* The states in which a request begins.
LEMMA FirstState ==
  ASSUME World, Up, NEW r \in Request, NEW n \in State,
         n.era = era, ~n.reserved, n.epoch = 0, n.answer = "none",
         \A a, b \in n.principal : a = b, \A o, p \in n.proof : o = p,
         \/ n.step = "reserve"
         \/ n.step = "authenticate" /\ n.op = r
         \/ n.step = "fail" /\ n.what # "none"
         \/ n.step = "revoke" /\ n.op \in Revocation
  PROVE  StepInv(r, n)
<1>. n.era <= era
  BY DEF World, EraInv
<1>. QED
  BY Zenon DEF StepInv

\* The failure of a request at its start.
LEMMA FailingBegins ==
  ASSUME World, Up, NEW r \in Request, NEW what \in {"deny", "unavailable"},
         NEW n, n = Failing(r, r, what)
  PROVE  /\ n \in State /\ ~n.reserved /\ n.epoch = 0 /\ n.answer = "none" /\ StepInv(r, n)
<1>1. era \in Nat /\ r \in Operation
  BY DEF World, EraInv, Operation
<1>. /\ n \in State /\ n.step = "fail" /\ n.answer = "none" /\ n.what = what
     /\ n.epoch = 0 /\ n.era = era /\ ~n.reserved
  BY <1>1, FailingFacts
<1>. n.principal = {} /\ n.proof = {}
  BY Zenon DEF Failing, Blank
<1>. QED
  BY FirstState, Zenon

\* A request whose proof is presented.
LEMMA VerifiedKeeps ==
  ASSUME ServiceInv, NEW r \in Request, NEW p \in Proof, NEW t \in Nat,
         NEW n \in State, ~n.reserved, n.epoch = 0, n.answer = "none",
         Up => StepInv(r, n), Verified(r, n, p, t)
  PROVE  ServiceInv' /\ ProofStep
<1>. Up /\ req[r] = {} /\ World
  BY Zenon DEF Verified, Begin, ServiceInv
<1>. PICK b \in State : /\ ~b.reserved /\ b.epoch = 0 /\ b.answer = "none" /\ StepInv(r, b)
                        /\ req' = [req EXCEPT ![r] = {b}]
                        /\ UNCHANGED <<requestVars, db, trail, faults>>
  <2>. PICK f : f = Failing(r, r, "deny")
    BY Zenon
  <2>. f \in State /\ ~f.reserved /\ f.epoch = 0 /\ f.answer = "none" /\ StepInv(r, f)
    BY FailingBegins, Zenon
  <2>. QED
    BY Zenon DEF Verified, Begin
<1>. /\ iat' \in [Proof -> SUBSET Nat] /\ DatesInv'
     /\ \A o \in Proof : iat[o] # {} => iat'[o] = iat[o]
  BY PresentFacts, Zenon DEF Verified
<1>. QED
  BY BeginKeeps, Zenon

\* A bootstrap begins.
LEMMA BootstrapKeeps ==
  ASSUME ServiceInv, NEW r \in Request, NEW a \in Principal, NEW p \in Proof, NEW t \in Date,
         NEW e \in Nat, Bootstrap(r, a, p, t, e)
  PROVE  ServiceInv' /\ ProofStep
<1>. era \in Nat /\ World /\ t \in Nat
  BY ServiceAssumption DEF ServiceInv, World, EraInv, Date
<1>. PICK b \in State : /\ b = Blank(r) /\ b.answer = "none" /\ b.epoch = 0 /\ b.era = era
                        /\ ~b.reserved
  BY BlankFacts, Zenon
<1>. PICK n : n = [b EXCEPT !.step = "reserve", !.principal = {a}, !.proof = {p}, !.expires = e]
  BY Zenon
<1>. /\ n \in State /\ n.step = "reserve" /\ n.answer = "none" /\ n.epoch = 0 /\ n.era = era
     /\ n.principal = {a} /\ n.proof = {p}
  BY Zenon DEF State
<1>. ~n.reserved
  BY Zenon DEF State
<1>. Verified(r, n, p, t)
  BY Zenon DEF Bootstrap
<1>. Up => StepInv(r, n)
  BY FirstState, Zenon
<1>. QED
  BY VerifiedKeeps, Zenon

\* The use of a session begins.
LEMMA AuthenticateBegins ==
  ASSUME ServiceInv, NEW r \in Request, NEW s \in Session, NEW p \in Proof, NEW t \in Date,
         AuthenticateRequest(r, s, p, t)
  PROVE  ServiceInv' /\ ProofStep
<1>. era \in Nat /\ World /\ t \in Nat
  BY ServiceAssumption DEF ServiceInv, World, EraInv, Date
<1>. PICK b \in State : /\ b = Blank(r) /\ b.answer = "none" /\ b.epoch = 0 /\ b.era = era
                        /\ ~b.reserved /\ b.op = r /\ b.principal = {}
  BY BlankFacts, Zenon
<1>. PICK n : n = [b EXCEPT !.step = "authenticate", !.session = {s}, !.proof = {p}]
  BY Zenon
<1>. /\ n \in State /\ n.step = "authenticate" /\ n.answer = "none" /\ n.epoch = 0
     /\ n.era = era /\ n.op = r /\ n.principal = {} /\ n.proof = {p}
  BY Zenon DEF State
<1>. ~n.reserved
  BY Zenon DEF State
<1>. Verified(r, n, p, t)
  BY Zenon DEF AuthenticateRequest
<1>. Up => StepInv(r, n)
  BY FirstState, Zenon
<1>. QED
  BY VerifiedKeeps, Zenon

\* A request is refused before it reaches a database.
LEMMA VerificationKeeps ==
  ASSUME ServiceInv, NEW r \in Request, NEW what \in {"deny", "unavailable"},
         VerificationFails(r, what)
  PROVE  ServiceInv' /\ ProofStep
<1>. Up /\ req[r] = {} /\ World /\ iat' = iat /\ iat \in [Proof -> SUBSET Nat] /\ DatesInv
  BY Zenon DEF VerificationFails, Begin, ServiceInv, World, WorldTypeOK
<1>. PICK n : n = Failing(r, r, what)
  BY Zenon
<1>1. n \in State /\ ~n.reserved /\ n.epoch = 0 /\ n.answer = "none" /\ StepInv(r, n)
  BY FailingBegins, Zenon
<1>. req' = [req EXCEPT ![r] = {n}] /\ UNCHANGED <<requestVars, db, trail, faults>>
  BY Zenon DEF VerificationFails, Begin
<1>. DatesInv' /\ iat' \in [Proof -> SUBSET Nat]
  BY Zenon DEF DatesInv
<1>. QED
  BY <1>1, BeginKeeps, Zenon

\* A revocation begins, or is tried again.
LEMMA RevokeBegins ==
  ASSUME ServiceInv, NEW r \in Request, NEW s \in Session, NEW o \in Revocation,
         RevokeRequest(r, s, o)
  PROVE  ServiceInv' /\ ProofStep
<1>. Up /\ World /\ iat' = iat /\ iat \in [Proof -> SUBSET Nat] /\ DatesInv /\ era \in Nat
  BY DEF RevokeRequest, Become, ServiceInv, World, WorldTypeOK, EraInv
<1>. PICK b \in State : /\ b = Blank(r) /\ b.answer = "none" /\ b.epoch = 0 /\ b.era = era
                        /\ ~b.reserved /\ b.principal = {}
  BY BlankFacts, Zenon
<1>1. b.proof = {}
  BY Zenon DEF Blank
<1>. PICK n : n = [b EXCEPT !.step = "revoke", !.session = {s}, !.op = o]
  BY Zenon
<1>2. o \in Operation
  BY Zenon DEF Operation
<1>3. /\ n \in State /\ n.step = "revoke" /\ n.answer = "none" /\ n.epoch = 0
      /\ n.era = era /\ n.op = o /\ n.principal = {} /\ n.proof = {}
  BY <1>1, <1>2, Zenon DEF State
<1>4. ~n.reserved
  BY Zenon DEF State
<1>5. StepInv(r, n)
  BY <1>3, <1>4, FirstState, Zenon
<1>6. req' = [req EXCEPT ![r] = {n}] /\ UNCHANGED <<requestVars, db, trail, faults>>
  BY Zenon DEF RevokeRequest, Become
<1>. \A q \in req[r] : ~q.reserved
  BY DEF RevokeRequest, ServiceInv, Requests, RequestInv, StepInv
<1>. DatesInv' /\ iat' \in [Proof -> SUBSET Nat]
  BY Zenon DEF DatesInv
<1>. QED
  BY <1>3, <1>4, <1>5, <1>6, BeginKeeps, Zenon

(***************************************************************************)
(* The service                                                             *)
(***************************************************************************)
\* Every step of the provider, its databases and its recovery keeps the
\* invariant.
LEMMA NextKeeps ==
  ASSUME ServiceInv, KeyedInv, [Next]_vars
  PROVE  ServiceInv' /\ ProofStep
<1>1. CASE UNCHANGED vars
  <2>. now \in Nat /\ faults \in Nat
    BY Zenon DEF ServiceInv, World, WorldTypeOK, EraInv
  <2>. QED
    BY <1>1, ClockMoves, Zenon DEF vars
<1>2. CASE \E r \in Request, a \in Principal, p \in Proof, t \in Date,
              e \in 1..(MaxTime + MaxLifetime) : Bootstrap(r, a, p, t, e)
  <2>. 1..(MaxTime + MaxLifetime) \subseteq Nat
    BY ServiceAssumption
  <2>. QED
    BY <1>2, BootstrapKeeps, Zenon
<1>3. CASE \E r \in Request, s \in Session, p \in Proof, t \in Date :
             AuthenticateRequest(r, s, p, t)
  BY <1>3, AuthenticateBegins, Zenon
<1>4. CASE \E r \in Request, what \in {"deny", "unavailable"} : VerificationFails(r, what)
  BY <1>4, VerificationKeeps, Zenon
<1>5. CASE \E r \in Request, s \in Session, o \in Revocation : RevokeRequest(r, s, o)
  BY <1>5, RevokeBegins, Zenon
<1>6. CASE Up /\ \E r \in Request : \E q \in req[r] : Step(r, q)
  BY <1>6, ReserveKeeps, CollisionKeeps, AuditAllowKeeps, ActivateKeeps, AuthenticateKeeps,
     AuditAdmitKeeps, FailStepKeeps, RevokeKeeps, AuditRevokeKeeps, Zenon DEF Step
<1>7. CASE Cleanup \/ ExpiryLoop \/ ClockRecovery
  BY <1>7, MaintenanceKeeps, Zenon
<1>8. CASE Tick \/ SetClockBack
  BY <1>8, TickKeeps, Zenon
<1>9. CASE Backup \/ CreateManifest \/ Crash \/ Restore \/ OpenIdentity \/ OpenAudit
  BY <1>9, BackupKeeps, CreateManifestKeeps, CrashKeeps, RestoreKeeps, OpenIdentityKeeps,
     OpenAuditKeeps, Zenon
<1>10. CASE \E m \in manifests : Recover(m)
  BY <1>10, RecoverKeeps, Zenon
<1>11. CASE Up /\ \E v \in recovery :
                    AcceptedStep(v) \/ StageStep(v) \/ CommitStep(v) \/ CompleteStep(v)
  BY <1>11, AcceptedStepKeeps, StageKeeps, CommitKeeps, CompleteKeeps, Zenon
<1>. QED
  BY <1>1, <1>2, <1>3, <1>4, <1>5, <1>6, <1>7, <1>8, <1>9, <1>10, <1>11, Zenon DEF Next

\* The inductive invariant holds in every reachable state.
LEMMA Reachable == Spec => [](ServiceInv /\ KeyedInv)
<1>1. ASSUME ServiceInv, KeyedInv, [Next]_vars  PROVE (ServiceInv /\ KeyedInv)'
  <2>1. trail \in Ledger
    BY <1>1, Zenon DEF ServiceInv, World, WorldTypeOK
  <2>. QED
    BY <1>1, <2>1, NextKeeps, NextKeyed, Zenon
<1>. QED
  BY <1>1, InitHolds, PTL DEF Spec

(***************************************************************************)
(* Theorems                                                                *)
(***************************************************************************)
\* The two databases, the requests and the manifests have their types, and
\* every row of sessions satisfies the CHECK constraint of its table, after
\* every transaction, crash, restore and recovery.
THEOREM ServiceTypeCorrect == Spec => []TypeOK
<1>1. ServiceInv => TypeOK
  BY Zenon DEF ServiceInv, World, WorldTypeOK, Requests, TypeOK, Registry, Ledger, RowsWellFormed
<1>. QED
  BY <1>1, Reachable, PTL

\* An active session, and one that was active, has the allow record of its own
\* bootstrap in the ledger and no other outcome under its operation, whatever
\* answers were lost and wherever the process stopped between the two databases
\* (Provider.Bootstrap).
THEOREM SessionsAreAudited == Spec => []ActiveIsAudited
<1>1. ASSUME ServiceInv, KeyedInv  PROVE ActiveIsAudited
  <2>1. SUFFICES ASSUME NEW s \in Session, NEW row \in db.sessions[s], row.receipt # {}
                 PROVE  /\ row.receipt = {s}
                        /\ {x \in trail.records : x.op = s} = {Entry(s, "allow")}
    BY Zenon DEF ActiveIsAudited
  <2>2. row.receipt = {s} /\ Entry(s, "allow") \in trail.records
    BY <1>1, <2>1, Zenon DEF ServiceInv, World, RowsAudited
  <2>. PICK e : e = Entry(s, "allow")
    BY Zenon
  <2>3. e.op = s
    BY Zenon DEF Entry
  <2>4. \A x \in trail.records : x.op = s => x = e
    BY <1>1, <2>2, <2>3, Zenon DEF KeyedInv, Keyed
  <2>. QED
    BY <2>2, <2>3, <2>4, Zenon
<1>. QED
  BY <1>1, Reachable, PTL

\* Every answer but unavailable is in the ledger of the restore it was given
\* under (Provider.Bootstrap, Authenticate and Revoke answer after the append).
THEOREM AnswersAreAudited == Spec => []AnswerIsAudited
<1>1. ServiceInv => AnswerIsAudited
  BY Zenon DEF ServiceInv, Requests, RequestInv, AnswerInv, AnswerIsAudited
<1>. QED
  BY <1>1, Reachable, PTL

\* No two bootstraps of a principal share an epoch, across crashes; after a
\* completed restore only epochs above the accepted floors come back
\* (allocateEpoch, StageRestoreFloors, CompleteRestore).
THEOREM EpochsAreUnique == Spec => []EpochsNeverReused
<1>1. ASSUME ServiceInv  PROVE EpochsNeverReused
  <2>. USE <1>1
  <2>1. SUFFICES ASSUME NEW r1 \in Request, NEW r2 \in Request,
                        NEW q1 \in req[r1], NEW q2 \in req[r2], r1 # r2, q1.epoch > 0,
                        q1.epoch = q2.epoch, q1.principal = q2.principal, ~owed
                 PROVE  /\ q1.era # q2.era
                        /\ \A m \in manifests, a \in trail.accepted, p \in q1.principal :
                             m.ref = a.ref => q1.epoch > m.floors[p]
    BY Zenon DEF EpochsNeverReused
  <2>2. q1.era # q2.era
    <3>1. EpochsDiffer
      BY Zenon DEF ServiceInv, Requests
    <3>. QED
      BY <2>1, <3>1, Zenon DEF EpochsDiffer
  <2>. /\ q1 \in State /\ q1.era <= era /\ EpochInv(q1)
       /\ q2 \in State /\ q2.era <= era /\ EpochInv(q2)
    BY Zenon DEF ServiceInv, Requests, RequestInv, StepInv
  <2>3. era \in {0, 1} /\ q1.era \in Nat /\ q2.era \in Nat
    BY Zenon DEF ServiceInv, World, EraInv, State
  <2>4. q1.era = 1 \/ q2.era = 1
    BY <2>2, <2>3
  <2>5. \A m \in manifests, a \in trail.accepted, p \in q1.principal :
          m.ref = a.ref => q1.epoch > m.floors[p]
    BY <2>1, <2>4, Zenon DEF EpochInv
  <2>. QED
    BY <2>2, <2>5, Zenon
<1>. QED
  BY <1>1, Reachable, PTL

\* What the ledger has accepted, the registry has staged: the recovery can be
\* taken up again after a crash at any step (RestoreCoordinator.Recover).
THEOREM AcceptedRestoreIsCompletable == Spec => []AcceptedIsStaged
<1>1. ServiceInv => AcceptedIsStaged
  BY Zenon DEF ServiceInv, World, AcceptedInv, AcceptedIsStaged
<1>. QED
  BY <1>1, Reachable, PTL

\* No step accepts a proof that was accepted before while the registry's clock
\* is within its window: the replay row outlives it (reserveProof,
\* CleanupProofs).
THEOREM ProofsAreUsedOnce == Spec => ProofUsedOnce
<1>1. ASSUME ServiceInv, KeyedInv, [Next]_vars
      PROVE  \A p \in Proof : Holders(p) # {} /\ Holders(p)' # Holders(p) /\ era' = era =>
               \A t \in iat[p] : db'.high > t + ProofWindow
  BY <1>1, NextKeeps, Zenon DEF ProofStep
<1>. QED
  BY <1>1, Reachable, PTL DEF Spec, ProofUsedOnce
=============================================================================
