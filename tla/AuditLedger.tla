------------------------------ MODULE AuditLedger ------------------------------
(***************************************************************************)
(* The security-audit ledger of internal/relay/audit/sqlite: the chain of  *)
(* records with its Merkle cache, the key statements and signed            *)
(* checkpoints kept with it, witnesses, verification, the clock fence and  *)
(* the rebuild of a damaged cache.  The database has one connection, so    *)
(* every statement is atomic and a transaction is too; what takes several  *)
(* statements outside a transaction (CreateCheckpoint, WitnessCheckpoint,  *)
(* Verify) interleaves with everything else, one action per statement.     *)
(*                                                                         *)
(* The chain digest at n is the sequence of the first n records, of which  *)
(* it is a collision-free hash; in the tree, n and the operation of the    *)
(* record there identify it, as the records before it never change.  A     *)
(* checkpoint is named by its tree size, unique in its table.  Restoring a *)
(* backup is in AuditTrail and IdentityService.                            *)
(***************************************************************************)
EXTENDS MerkleTree

CONSTANTS
  Op,            \* operation identifiers of this run
  History,       \* lengths of the ledger that is opened
  Statement,     \* key statements the authority signed
  Key,           \* signing keys
  Creator,       \* concurrent callers of CreateCheckpoint
  Witness,       \* independent witnesses
  MaxSequence,   \* MaxJSONSafeSequence
  MaxTime,       \* bounds the wall clock
  ClockRollbackTolerance,  \* of the readiness policy
  NormalRetirement,  \* a key is only retired as of a time after its checkpoints
  MaxBusy,       \* bounds the calls in progress that take several statements
  Fragile,       \* bounds the places of the cache where damage strikes
  MaxFault       \* bounds the times it does

ASSUME LedgerAssumption ==
  /\ History \subseteq 0..MaxSequence
  /\ {MaxSequence, MaxTime, MaxBusy, MaxFault, ClockRollbackTolerance} \subseteq Nat
  /\ NormalRetirement \in BOOLEAN
  /\ Statement \subseteq [key: Key, version: Nat \ {0}, from: Nat, issued: Nat,
                          retired: SUBSET Nat, compromised: SUBSET (Nat \X Nat)]

VARIABLES
  now,         \* the wall clock
  db,          \* the database
  opened,      \* the process has the database open
  creating,    \* CreateCheckpoint in progress, per creator
  witnessing,  \* WitnessCheckpoint in progress
  verifying,   \* Verify or OperationalReady in progress
  given,       \* what was answered: records by sequence, checkpoints, witnesses
  faults

vars == <<now, db, opened, creating, witnessing, verifying, given, faults>>

Time == 0..MaxTime

\* The records of the ledger.  A decision of the identity service is told from
\* another by its operation and decision time.
Decision(op, at) == [op |-> op, kind |-> "decision", at |-> at, key |-> "none", version |-> 0]

KeyRecord(op, at, st) ==
  [op |-> op, kind |-> "key", at |-> at, key |-> st.key, version |-> st.version]

CheckpointRecord(op, at, k, v) ==
  [op |-> op, kind |-> "checkpoint", at |-> at, key |-> k, version |-> v]

Size(d) == Len(d.entries)

Prefix(d, n) == SubSeq(d.entries, 1, n)

Leaves(entries) ==
  [i \in DOMAIN entries |-> MerkleLeafHash(i, entries[i].op)]

\* The ledger that n appends leave behind, the last one with a key statement.
LedgerOf(n, keys) ==
  LET entries == [i \in 1..n |-> IF i < n THEN Decision(i, 0)
                                 ELSE KeyRecord(i, 0, CHOOSE st \in keys : TRUE)]
  IN  [entries |-> entries,
       root |-> MerkleRoot(Leaves(entries)),
       nodes |-> ExpectedNodes(Leaves(entries)),
       statements |-> keys, checkpoints |-> {}, acks |-> {},
       fence |-> "admitted", high |-> 0]

(***************************************************************************)
(* Transactions: operators to [res, db]                                    *)
(***************************************************************************)
Refuse(d, error) == [res |-> error, db |-> d]

Commit(d) == [res |-> "ok", db |-> d]

Position(d, op) == {n \in DOMAIN d.entries : d.entries[n].op = op}

Appended(d, r) ==
  LET entries == d.entries \o <<r>>
      nodes == insertMerkleLeaf(d.nodes, Size(d), MerkleLeafHash(Len(entries), r.op))
  IN  [d EXCEPT !.entries = entries, !.nodes = nodes,
                !.root = subtreeHash(nodes, 0, Len(entries))]

AppendIgnoringBytes(d, r) ==
  IF Position(d, r.op) # {} THEN Commit(d)
  ELSE IF Size(d) >= MaxSequence \/ subtreeHash(d.nodes, 0, Size(d)) # d.root
  THEN Refuse(d, "unavailable")
  ELSE Commit(Appended(d, r))

\* appendRecord: an exact retry finds its record; a new one goes on top of a
\* root that the cache reproduces.
appendRecord(d, r) ==
  IF Position(d, r.op) # {}
  THEN IF \E n \in Position(d, r.op) : d.entries[n] = r THEN Commit(d) ELSE Refuse(d, "conflict")
  ELSE IF Size(d) >= MaxSequence \/ subtreeHash(d.nodes, 0, Size(d)) # d.root
  THEN Refuse(d, "unavailable")
  ELSE Commit(Appended(d, r))

IfAdmitted(d, result) == IF d.fence = "admitted" THEN result ELSE Refuse(d, "unavailable")

AppendTx(d, r) == IfAdmitted(d, appendRecord(d, r))

StatementsOf(d, k) == {st \in d.statements : st.key = k}

\* latestKey: the statement with the highest version, if there is one.
latestKey(d, k) ==
  {st \in StatementsOf(d, k) : \A x \in StatementsOf(d, k) : x.version <= st.version}

InstallUncovered(d, st, r) ==
  IfAdmitted(d, IF \E x \in latestKey(d, st.key) : x.version >= st.version
                THEN Refuse(d, "conflict")
                ELSE Commit([d EXCEPT !.statements = @ \cup {st}]))

\* InstallVerificationKey: the statement and the record that covers it, in one
\* transaction.  An exact retry finds both.
InstallVerificationKey(d, st, r) ==
  LET last == latestKey(d, st.key)
      coverage == {n \in DOMAIN d.entries :
                     /\ d.entries[n].kind = "key"
                     /\ d.entries[n].key = st.key /\ d.entries[n].version = st.version}
      added == appendRecord([d EXCEPT !.statements = @ \cup {st}], r)
  IN  IfAdmitted(d,
        IF \E x \in last : x.version = st.version
        THEN IF st \in last /\ \A n \in coverage : d.entries[n] = r
             THEN appendRecord(d, r) ELSE Refuse(d, "conflict")
        ELSE IF \E x \in last : x.version > st.version THEN Refuse(d, "conflict")
        ELSE IF \E x \in last : x.from # st.from \/ st.issued < x.issued
        THEN Refuse(d, "unavailable")
        ELSE IF added.res = "ok" THEN added ELSE Refuse(d, added.res))

\* VerifySignedCheckpoint: the trust of a signature made at time t.
Trust(st, t) ==
  IF t < st.from \/ \E x \in st.retired : x <= t THEN "error"
  ELSE IF \E w \in st.compromised : w[1] <= t /\ t < w[2] THEN "indeterminate"
  ELSE "trusted"

LastCheckpoint(d, n) ==
  {c \in d.checkpoints : c.size < n /\ \A x \in d.checkpoints : x.size < n => x.size <= c.size}

LastSize(d, n) == IF LastCheckpoint(d, n) = {} THEN 0
                  ELSE (CHOOSE c \in LastCheckpoint(d, n) : TRUE).size

CommitUnmoved(d, c, r) ==
  LET a == appendRecord(d, r)
  IN  IfAdmitted(d,
        IF a.res # "ok" THEN Refuse(d, a.res)
        ELSE IF \E x \in d.checkpoints : x.size = Size(a.db) THEN Refuse(d, "conflict")
        ELSE Commit([a.db EXCEPT !.checkpoints = @ \cup {c}]))

\* commitCheckpoint: the checkpoint's own record must land exactly where the
\* signed tree has it.
commitCheckpoint(d, c, r) ==
  LET a == appendRecord(d, r)
  IN  IfAdmitted(d,
        IF a.res # "ok" THEN Refuse(d, a.res)
        ELSE IF Size(a.db) # c.size \/ a.db.root # c.root \/ a.db.entries # c.head
                \/ LastSize(d, c.size) # c.pred
        THEN Refuse(d, "unavailable")
        ELSE IF \E x \in d.checkpoints : x.size = c.size
        THEN IF c \in d.checkpoints THEN Commit(d) ELSE Refuse(d, "conflict")
        ELSE Commit([a.db EXCEPT !.checkpoints = @ \cup {c}]))

\* RebuildMerkle replaces the cache and the local root from the chain.
RebuildMerkle(d) ==
  [d EXCEPT !.nodes = ExpectedNodes(Leaves(d.entries)), !.root = MerkleRoot(Leaves(d.entries))]

(***************************************************************************)
(* Verification of a ledger, statement by statement                        *)
(***************************************************************************)
\* verifyStoredNodes against the expected cache of the first n records.
NodesAre(d, n) == d.nodes = ExpectedNodes(Leaves(Prefix(d, n)))

Covered(d, st) ==
  Cardinality({n \in DOMAIN d.entries : /\ d.entries[n].kind = "key"
                                        /\ d.entries[n].key = st.key
                                        /\ d.entries[n].version = st.version}) = 1

\* One row of audit_checkpoints, against the statements read before.
CheckpointRow(d, keys, c) ==
  LET own == d.entries[c.size]
      latest == {st \in keys : st.key = c.key /\ \A x \in keys : x.key = c.key => x.version <= st.version}
  IN  /\ c.pred = LastSize(d, c.size)
      /\ subtreeHash(d.nodes, 0, c.size) = c.root
      /\ Prefix(d, c.size) = c.head
      /\ own = CheckpointRecord(own.op, c.at, c.key, c.version)
      /\ \E st \in keys : st.key = c.key /\ st.version = c.version /\ Trust(st, c.at) # "error"
      /\ \E st \in latest : Trust(st, c.at) # "error"

CheckpointRows(d, keys) == \A c \in d.checkpoints : CheckpointRow(d, keys, c)

\* What Verify answers when nothing else runs.
Verifies(d) ==
  /\ d.root = MerkleRoot(Leaves(d.entries))
  /\ NodesAre(d, Size(d))
  /\ \A st \in d.statements : Covered(d, st)
  /\ CheckpointRows(d, d.statements)

(***************************************************************************)
(* State                                                                   *)
(***************************************************************************)
Record ==
  [op: Op \cup 1..MaxSequence, kind: {"decision", "key", "checkpoint"}, at: Time,
   key: Key \cup {"none"}, version: Nat]

\* What a CreateCheckpoint has read so far: the record it is going to append,
\* the size of the tree before it and the checkpoint before it.
Creation == [pc: {"lookup", "meta", "pred", "leaves", "commit"}, record: Record, size: Nat, pred: Nat]

Init ==
  /\ now = 0
  /\ \E n \in History :
       IF n = 0 THEN db = LedgerOf(0, {})
       ELSE \E st \in Statement : st.version = 1 /\ db = LedgerOf(n, {st})
  /\ opened = TRUE
  /\ creating = [c \in Creator |-> {}]
  /\ witnessing = {}
  /\ verifying = {}
  /\ given = [receipts |-> {}, checkpoints |-> {}, acks |-> {}]
  /\ faults = 0

\* Bounds: MaxBusy calls that take several statements at a time, and a call of
\* WitnessCheckpoint with single transactions only beside it.
Busy == Cardinality({c \in Creator : creating[c] # {}}) + Cardinality(verifying)

CanStart == opened /\ witnessing = {} /\ Busy < MaxBusy

Idle == UNCHANGED <<creating, witnessing, verifying>>

\* A caller that never got its answer repeats the call; what it would have
\* been told counts as given.
Transact(result, answer) ==
  /\ db' = result.db
  /\ given' = IF result.res = "ok" THEN answer ELSE given
  /\ UNCHANGED faults

SequenceOf(d, op) == CHOOSE n \in Position(d, op) : TRUE

WithReceipt(d, r) ==
  [given EXCEPT !.receipts = @ \cup {<<SequenceOf(d, r.op), r>>}]

(***************************************************************************)
(* One-transaction operations                                              *)
(***************************************************************************)
AppendDecision(op) ==
  LET r == Decision(op, now)
      result == AppendTx(db, r)
  IN  /\ opened
      /\ Transact(result, IF result.res = "ok" THEN WithReceipt(result.db, r) ELSE given)
      /\ Idle /\ UNCHANGED <<now, opened>>

InstallKey(st, op) ==
  /\ opened
  /\ NormalRetirement => \A c \in db.checkpoints : c.key = st.key => Trust(st, c.at) # "error"
  /\ Transact(InstallVerificationKey(db, st, KeyRecord(op, now, st)), given)
  /\ Idle /\ UNCHANGED <<now, opened>>

(***************************************************************************)
(* CreateCheckpoint                                                        *)
(***************************************************************************)
Put(c, x) == creating' = [creating EXCEPT ![c] = {x}]

Leave(c) == creating' = [creating EXCEPT ![c] = {}]

Frame == UNCHANGED <<now, opened, witnessing, verifying>>

\* signer.Select and latestKey.  The signature is checked under the statement
\* read here; one that is not trusted ends the call without any effect.
BeginCreate(c, op, k) ==
  /\ CanStart /\ creating[c] = {}
  /\ \E st \in latestKey(db, k) :
       /\ Trust(st, now) = "trusted"
       /\ Put(c, [pc |-> "lookup", record |-> CheckpointRecord(op, now, k, st.version),
                  size |-> 0, pred |-> 0])
  /\ Frame /\ UNCHANGED <<db, given, faults>>

\* checkpointCandidate: lookupOperation.
LookupStep(c) ==
  /\ \E x \in creating[c] :
       /\ x.pc = "lookup"
       /\ IF Position(db, x.record.op) = {} THEN Put(c, [x EXCEPT !.pc = "meta"])
          ELSE LET n == SequenceOf(db, x.record.op)
               IN  IF db.entries[n] # x.record \/ \A y \in db.checkpoints : y.size # n
                   THEN Leave(c)
                   ELSE Put(c, [x EXCEPT !.pc = "commit", !.size = n - 1,
                                         !.pred = LastSize(db, n)])
  /\ Frame /\ UNCHANGED <<db, given, faults>>

MetaStep(c) ==
  /\ \E x \in creating[c] : /\ x.pc = "meta"
                            /\ IF Size(db) >= MaxSequence THEN Leave(c)
                               ELSE Put(c, [x EXCEPT !.pc = "pred", !.size = Size(db)])
  /\ Frame /\ UNCHANGED <<db, given, faults>>

PredecessorStep(c) ==
  /\ \E x \in creating[c] :
       /\ x.pc = "pred"
       /\ LET pred == LastSize(db, MaxSequence + 1)
          IN  IF \E y \in db.checkpoints : y.size = pred /\ x.record.at < y.at THEN Leave(c)
              ELSE Put(c, [x EXCEPT !.pc = "leaves", !.pred = pred])
  /\ Frame /\ UNCHANGED <<db, given, faults>>

\* The leaves read must be those of the size read before; then the candidate
\* is signed, outside the database.
LeavesStep(c) ==
  /\ \E x \in creating[c] : /\ x.pc = "leaves"
                            /\ IF Size(db) # x.size THEN Leave(c)
                               ELSE Put(c, [x EXCEPT !.pc = "commit"])
  /\ Frame /\ UNCHANGED <<db, given, faults>>

\* The signed checkpoint.  The records it was computed from never change.
Candidate(x) ==
  LET head == Prefix(db, x.size) \o <<x.record>>
  IN  [size |-> x.size + 1, head |-> head, root |-> MerkleRoot(Leaves(head)),
       at |-> x.record.at, key |-> x.record.key, version |-> x.record.version, pred |-> x.pred]

CommitStep(c) ==
  /\ \E x \in creating[c] :
       /\ x.pc = "commit"
       /\ Transact(commitCheckpoint(db, Candidate(x), x.record),
                   [given EXCEPT !.checkpoints = @ \cup {Candidate(x)}])
  /\ Leave(c)
  /\ Frame

(***************************************************************************)
(* WitnessCheckpoint                                                       *)
(***************************************************************************)
\* The checkpoint is read, trusted under its latest key and exported.
ExportStep(w) ==
  /\ CanStart /\ Busy = 0
  /\ \E c \in db.checkpoints :
       /\ \E st \in latestKey(db, c.key) : st.version >= c.version /\ Trust(st, c.at) = "trusted"
       /\ witnessing' = {[witness |-> w, size |-> c.size]}
  /\ UNCHANGED <<now, db, opened, creating, verifying, given, faults>>

\* The witness acknowledges at its own time; a second acknowledgement that is
\* not the same conflicts.
AcknowledgeStep ==
  /\ \E x \in witnessing :
       LET ack == [witness |-> x.witness, size |-> x.size, at |-> now]
           old == {a \in db.acks : a.witness = x.witness /\ a.size = x.size}
       IN  Transact(IfAdmitted(db,
                      IF old = {} THEN Commit([db EXCEPT !.acks = @ \cup {ack}])
                      ELSE IF ack \in old THEN Commit(db) ELSE Refuse(db, "conflict")),
                    [given EXCEPT !.acks = @ \cup {ack}])
  /\ witnessing' = {}
  /\ UNCHANGED <<now, opened, creating, verifying>>

(***************************************************************************)
(* Verify and OperationalReady                                             *)
(***************************************************************************)
VerifyFrame == UNCHANGED <<now, opened, creating, witnessing, given, faults>>

\* verifiedChainState reads the metadata first.
BeginVerify ==
  /\ CanStart /\ verifying = {}
  /\ verifying' = {[pc |-> "chain", size |-> Size(db), keys |-> {}]}
  /\ VerifyFrame /\ UNCHANGED db

\* A statement of Verify: on to the next one, or the end.
VerifyStep(from, to, holds, keys) ==
  /\ \E v \in verifying :
       /\ v.pc = from
       /\ verifying' = IF holds THEN {[v EXCEPT !.pc = to, !.keys = keys]} ELSE {}
  /\ VerifyFrame /\ UNCHANGED db

ChainStep == \E v \in verifying : VerifyStep("chain", "root", Size(db) = v.size, {})

RootStep == \E v \in verifying :
  VerifyStep("root", "nodes", Size(db) = v.size /\ db.root = MerkleRoot(Leaves(db.entries)), {})

NodesStep == \E v \in verifying : VerifyStep("nodes", "keys", NodesAre(db, v.size), {})

\* verifyCheckpointState reads the statements, then the checkpoints.
KeysStep == VerifyStep("keys", "rows", \A st \in db.statements : Covered(db, st), db.statements)

RowsStep == \E v \in verifying :
  VerifyStep("rows", "done",
             IF v.keys = {} THEN db.statements = {} ELSE CheckpointRows(db, v.keys), {})

EndVerify ==
  /\ \E v \in verifying : v.pc = "done"
  /\ verifying' = {}
  /\ VerifyFrame /\ UNCHANGED db

\* An OperationalReady goes on with observeOperationalClock, whose fence stays.
\* The time t was read before the verification, however long that took.  The
\* reads after it only decide its answer.
ClockStep(t) ==
  /\ t <= now /\ \E v \in verifying : v.pc = "done"
  /\ db' = IF db.fence # "admitted" THEN db
           ELSE IF t < db.high - ClockRollbackTolerance THEN [db EXCEPT !.fence = "clock_fenced"]
           ELSE [db EXCEPT !.high = IF t > @ THEN t ELSE @]
  /\ verifying' = {}
  /\ VerifyFrame

(***************************************************************************)
(* Process and environment                                                 *)
(***************************************************************************)
\* A crash or a Close: calls in progress are lost, the database stays.
Crash ==
  /\ opened /\ opened' = FALSE
  /\ creating' = [c \in Creator |-> {}] /\ witnessing' = {} /\ verifying' = {}
  /\ UNCHANGED <<now, db, given, faults>>

\* Open verifies before it returns the ledger.
Open ==
  /\ ~opened /\ Verifies(db)
  /\ opened' = TRUE
  /\ Idle /\ UNCHANGED <<now, db, given, faults>>

\* RebuildMerkleDatabase opens without verifying, and closes again.
Rebuild ==
  /\ ~opened /\ ~Verifies(db)
  /\ db' = RebuildMerkle(db)
  /\ Idle /\ UNCHANGED <<now, opened, given, faults>>

\* A node of the cache, or the local root, is damaged on disk.
Damage ==
  /\ faults < MaxFault /\ faults' = faults + 1
  /\ \/ \E c \in DOMAIN db.nodes \cap Fragile : db' = [db EXCEPT !.nodes[c] = <<"damaged">>]
     \/ db' = [db EXCEPT !.root = <<"damaged">>]
  /\ Idle /\ UNCHANGED <<now, opened, given>>

Tick ==
  /\ now < MaxTime /\ now' = now + 1
  /\ Idle /\ UNCHANGED <<db, opened, given, faults>>

Next ==
  \/ \E op \in Op : AppendDecision(op)
  \/ \E st \in Statement, op \in Op : InstallKey(st, op)
  \/ \E c \in Creator, op \in Op, k \in Key : BeginCreate(c, op, k)
  \/ \E c \in Creator : \/ LookupStep(c) \/ MetaStep(c) \/ PredecessorStep(c)
                        \/ LeavesStep(c) \/ CommitStep(c)
  \/ \E w \in Witness : ExportStep(w)
  \/ AcknowledgeStep
  \/ BeginVerify
  \/ ChainStep \/ RootStep \/ NodesStep \/ KeysStep \/ RowsStep
  \/ EndVerify \/ (\E t \in Time : ClockStep(t))
  \/ Crash \/ Open \/ Rebuild \/ Damage \/ Tick

Spec == Init /\ [][Next]_vars

(***************************************************************************)
(* Properties                                                              *)
(***************************************************************************)
TypeOK ==
  /\ now \in Time /\ opened \in BOOLEAN /\ faults \in 0..MaxFault
  /\ db.entries \in Seq(Record) /\ Size(db) <= MaxSequence
  /\ db.statements \subseteq Statement
  /\ db.fence \in {"admitted", "clock_fenced"} /\ db.high \in Time
  /\ \A c \in Creator : creating[c] \subseteq Creation /\ Cardinality(creating[c]) <= 1

\* A checkpoint of the table certifies exactly the records before it and its
\* own: the root is theirs even where the cache was damaged in between, its
\* record is the last of them, it names the checkpoint before it, times do not
\* go back along the chain, and the statement that signed it trusted its time
\* (commitCheckpoint after concurrent appends, installations and checkpoints).
CheckpointsCertifyPrefix ==
  \A c \in db.checkpoints :
    /\ c.size \in DOMAIN db.entries
    /\ c.head = Prefix(db, c.size)
    /\ c.root = MerkleRoot(Leaves(c.head))
    /\ db.entries[c.size].kind = "checkpoint"
    /\ c.pred = LastSize(db, c.size)
    /\ \A x \in LastCheckpoint(db, c.size) : x.at <= c.at
    /\ \E st \in db.statements : st.key = c.key /\ st.version = c.version
                                 /\ Trust(st, c.at) = "trusted"

\* Whatever was answered stays: a receipt names the record at its sequence, no
\* operation has two records, and an answered checkpoint or acknowledgement is
\* in its table, however often calls were repeated after a lost answer.
AnswersHold ==
  /\ \A x \in given.receipts : x[1] \in DOMAIN db.entries /\ db.entries[x[1]] = x[2]
  /\ \A m, n \in DOMAIN db.entries : db.entries[m].op = db.entries[n].op => m = n
  /\ given.checkpoints \subseteq db.checkpoints
  /\ given.acks \subseteq db.acks

Damaged(d) == d # RebuildMerkle(d)

\* Every inclusion and consistency proof served from an undamaged cache is the
\* one built from the leaves and convinces a verifier, and an inclusion proof
\* convinces nobody of another leaf.
ProofsVerify ==
  LET leaves == Leaves(db.entries)
      n == Size(db)
      RootAt(m) == subtreeHash(db.nodes, 0, m)
  IN  ~Damaged(db) /\ verifying = {} /\ (\A c \in Creator : creating[c] = {}) =>
        /\ \A m \in 0..n : RootAt(m) = MerkleRoot(SubSeq(leaves, 1, m))
        /\ \A i \in 0..(n - 1) :
             LET path == inclusionPath(db.nodes, 0, n, i)
             IN  /\ path = BuildInclusionPath(leaves, i)
                 /\ \A j \in 1..n : VerifyInclusion(leaves[j], db.root, i, n, path) <=> j = i + 1
        /\ \A m \in 1..(n - 1) :
             LET path == consistencyPath(db.nodes, 0, n, m, TRUE)
             IN  /\ path = BuildConsistencyPath(leaves, m, TRUE)
                 /\ VerifyConsistency(RootAt(m), db.root, m, n, path)

\* A checkpoint whose key was later declared retired before it.
Outdated(d) ==
  \E c \in d.checkpoints : \E st \in latestKey(d, c.key) : Trust(st, c.at) = "error"

\* Verify fails only on damage, on an outdated checkpoint, or because the
\* ledger moved between its statements: alone on a sound ledger it succeeds.
FailureIsExplained ==
  [][\A v \in verifying : v.pc # "done" /\ verifying' = {} /\ opened' =>
       Damaged(db) \/ Outdated(db) \/ v.size # Size(db)]_vars

\* A crashed ledger opens again, after a rebuild of its cache if need be,
\* unless a retirement outdated one of its checkpoints.
Reopens == Verifies(RebuildMerkle(db)) \/ Outdated(db)

\* Retiring a key as of a time after all the checkpoints it signed leaves them
\* valid, and the ledger can still be opened.
RetirementKeepsHistory == Verifies(RebuildMerkle(db))
=============================================================================
