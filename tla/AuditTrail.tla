------------------------------ MODULE AuditTrail ------------------------------
(***************************************************************************)
(* What the security-audit ledger of internal/relay/audit/sqlite promises  *)
(* its callers: records keyed by operation, appended at most once, behind  *)
(* a fence that a restore raises and one accepted manifest lowers.  Every  *)
(* operation is one transaction, written as an operator to [res, ledger].  *)
(* A record's receipt is represented by its operation.                     *)
(***************************************************************************)
EXTENDS Integers, FiniteSets

Trail(Record, Ref, Op) ==
  [fence: {"admitted", "restore_fenced"},
   backup: SUBSET Nat,                        \* restore_backup_digest
   accepted: SUBSET [ref: Ref, receipt: Op],  \* the accepted manifest
   records: SUBSET Record]

NewTrail == [fence |-> "admitted", backup |-> {}, accepted |-> {}, records |-> {}]

Refused(l, error) == [res |-> error, ledger |-> l]

Done(l) == [res |-> "ok", ledger |-> l]

\* appendRecord: an exact retry finds its record, other bytes under the same
\* operation conflict.
AppendRecord(l, x) ==
  IF x \in l.records THEN Done(l)
  ELSE IF \E y \in l.records : y.op = x.op THEN Refused(l, "conflict")
  ELSE Done([l EXCEPT !.records = @ \cup {x}])

Append(l, x) ==
  IF l.fence # "admitted" THEN Refused(l, "unavailable") ELSE AppendRecord(l, x)

\* OpenRestored of the backup b: fenceRestored.
FenceRestored(l, b) ==
  IF l.fence = "restore_fenced"
  THEN (IF l.backup = {b} THEN Done(l) ELSE Refused(l, "unavailable"))
  ELSE Done([l EXCEPT !.fence = "restore_fenced", !.backup = {b}, !.accepted = {}])

\* ValidateRestore: the manifest fits the ledger, which is fenced exactly at
\* the backup's tree, or has already accepted this manifest.
ValidateRestore(l, m) ==
  /\ l.backup = {m.backup}
  /\ \/ l.fence = "restore_fenced" /\ Cardinality(l.records) = m.size
     \/ /\ l.fence = "admitted" /\ Cardinality(l.records) >= m.size
        /\ \E a \in l.accepted : a.ref = m.ref

\* AcceptedRestore answers the receipt, or nothing while the fence is up.
AcceptedRestore(l, m) ==
  {a.receipt : a \in {x \in l.accepted : l.fence = "admitted" /\ x.ref = m.ref}}

\* CommitRestore appends the restore record x, keeps the manifest and admits.
CommitRestore(l, m, x) ==
  IF l.backup # {m.backup} THEN Refused(l, "unavailable")
  ELSE IF AcceptedRestore(l, m) # {} THEN Done(l)
  ELSE IF l.fence # "restore_fenced" THEN Refused(l, "unavailable")
  ELSE LET a == AppendRecord(l, x)
       IN  IF a.res # "ok" THEN Refused(l, a.res)
           ELSE Done([a.ledger EXCEPT !.fence = "admitted",
                        !.accepted = {[ref |-> m.ref, receipt |-> x.op]}])
=============================================================================
