------------------------------ MODULE Lifecycle ------------------------------
(***************************************************************************)
(* The lifecycle saga of the SQLite relay store: an authorised intent to   *)
(* redact or delete a transcript epoch is reserved, its export bound, its  *)
(* marker persisted and signed, the payload removed, and the operation     *)
(* completed once every custodian of a backup has answered.                *)
(*                                                                         *)
(* Reserve, BindExport and PersistMarker are one transaction each.  The    *)
(* later operations read a preflight, consult verifiers outside any        *)
(* transaction and then re-check in a transaction, so a call of theirs is  *)
(* two steps.  The preflight's statements are one step: what they read is  *)
(* immutable but for the operation's row and its receipts, and the         *)
(* transaction compares both.  Store.Read is a statement at a time.        *)
(* A call that errs without an effect is left out, unless its preflight    *)
(* succeeded.  The epochs are those of one channel of one tenant.          *)
(***************************************************************************)
EXTENDS Integers, FiniteSets

CONSTANTS
  Epoch,           \* the transcript epochs of the channel
  Event,           \* event IDs
  Operation,       \* operation IDs
  Intent,          \* [epoch, action, target, high] that are authorised
  ExportRequired,  \* the epochs whose policy requires an export
  Export,          \* export evidence
  Preimage,        \* receipt preimages, each naming one marker
  ObligationSet,   \* backup obligation sets that match an intent
  Custody,         \* custodian receipts: [id, domain, set, outcome, time]
  Deadline,        \* the deadline of every domain
  CompletedAt,     \* completion times
  Caller,          \* concurrent callers of the later operations
  Reader           \* concurrent readers of a transcript

ASSUME LifecycleAssumption ==
  /\ ExportRequired \subseteq Epoch
  /\ Deadline \in Nat /\ CompletedAt \subseteq Nat
  /\ \A i \in Intent : /\ i.epoch \in Epoch /\ i.high \in Nat
                       /\ \/ i.action = "delete" /\ i.target = {}
                          \/ i.action = "redact" /\ i.target # {}

VARIABLES
  transcripts,  \* lifecycle and next sequence of each epoch
  records,      \* accepted_records
  accepted,     \* every record ever accepted: history
  operations,   \* operations[o]: {} or its row
  tombstones,   \* what was removed, and by which operation
  bound,        \* bound[o]: {} or its obligation set
  receipts,     \* receipts[o]: the custodian receipts recorded
  completions,  \* completions[o]: {} or the time of its completion
  calls,        \* calls[c]: {} or a call whose preflight succeeded
  reads         \* reads[r]: {} or a Read in progress or returned

store == <<transcripts, records, accepted>>
saga == <<operations, tombstones, bound, receipts, completions>>
vars == <<store, saga, calls, reads>>

Domain == {"event", "identity", "security_audit"}

State == <<"reserved", "export_satisfied", "marker_persisted", "receipt_signed",
           "payload_removed", "backups_pending", "completed">>

Rank(s) == CHOOSE n \in DOMAIN State : State[n] = s

States == {State[n] : n \in DOMAIN State}

Place == [epoch: Epoch, seq: Nat, event: Event]

Record == [epoch: Epoch, seq: Nat, event: Event, signed: BOOLEAN]

Row == [intent: Intent, state: States, export: SUBSET Export,
        preimage: SUBSET Preimage, signature: SUBSET Preimage]

Call ==
  [kind: {"attach"}, op: Operation, seen: Row, preimage: Preimage] \cup
  [kind: {"remove"}, op: Operation, seen: Row] \cup
  [kind: {"bind"}, op: Operation, seen: Row, set: ObligationSet] \cup
  [kind: {"record"}, op: Operation, seen: Row, receipt: Custody] \cup
  [kind: {"complete"}, op: Operation, seen: Row, custody: SUBSET Custody, at: CompletedAt]

Reading == [pc: {"boundary", "select", "done"}, epoch: Epoch,
            lifecycle: {"active", "redacted", "deleted"}, cutoff: SUBSET Nat,
            rows: SUBSET Record]

TypeOK ==
  /\ transcripts \in [Epoch -> [lifecycle: {"active", "redacted", "deleted"}, next: Nat]]
  /\ records \in SUBSET Record
  /\ accepted \in SUBSET Place
  /\ operations \in [Operation -> SUBSET Row]
  /\ \A o \in Operation : Cardinality(operations[o]) <= 1
  /\ tombstones \in SUBSET [epoch: Epoch, seq: Nat, event: Event, op: Operation]
  /\ bound \in [Operation -> SUBSET ObligationSet]
  /\ receipts \in [Operation -> SUBSET Custody]
  /\ completions \in [Operation -> SUBSET CompletedAt]
  /\ calls \in [Caller -> SUBSET Call]
  /\ reads \in [Reader -> SUBSET Reading]

Init ==
  /\ transcripts = [e \in Epoch |-> [lifecycle |-> "active", next |-> 1]]
  /\ records = {} /\ accepted = {} /\ tombstones = {}
  /\ operations = [o \in Operation |-> {}]
  /\ bound = [o \in Operation |-> {}]
  /\ receipts = [o \in Operation |-> {}]
  /\ completions = [o \in Operation |-> {}]
  /\ calls = [c \in Caller |-> {}]
  /\ reads = [r \in Reader |-> {}]

(***************************************************************************)
(* Store.AppendChecked and Store.AttachSignature                           *)
(***************************************************************************)
PlaceOf(r) == [epoch |-> r.epoch, seq |-> r.seq, event |-> r.event]

\* Mutant: looks the identifier up among the records that are left.
TombstonedIfStored(event) == \E r \in records : r.event = event

Tombstoned(event) == \E t \in tombstones : t.event = event

\* A duplicate is answered from the record and a tombstone is a collision:
\* neither changes the store.
AppendChecked(e, event) ==
  /\ transcripts[e].lifecycle = "active"
  /\ ~Tombstoned(event)
  /\ \A r \in records : r.event # event
  /\ LET r == [epoch |-> e, seq |-> transcripts[e].next, event |-> event, signed |-> FALSE]
     IN  records' = records \cup {r} /\ accepted' = accepted \cup {PlaceOf(r)}
  /\ transcripts' = [transcripts EXCEPT ![e].next = @ + 1]
  /\ UNCHANGED <<saga, calls, reads>>

SignRecord(r) ==
  /\ ~r.signed
  /\ records' = (records \ {r}) \cup {[r EXCEPT !.signed = TRUE]}
  /\ UNCHANGED <<transcripts, accepted, saga, calls, reads>>

(***************************************************************************)
(* LifecyclePreparation                                                    *)
(***************************************************************************)
SignedAt(e, n) == \E r \in records : r.epoch = e /\ r.seq = n /\ r.signed

\* validateLifecycleHighWater: the intent names the receipt of the last
\* record, and that record and every target are signed.
HighWaterMatches(i) ==
  /\ i.high = transcripts[i.epoch].next - 1
  /\ SignedAt(i.epoch, i.high)
  /\ \A n \in i.target : n <= i.high /\ SignedAt(i.epoch, n)

\* The index lifecycle_one_active_operation.
OneActiveOperation(e) ==
  \A o \in Operation : \A row \in operations[o] :
    row.intent.epoch = e => row.state = "completed"

InitialState(e) == IF e \in ExportRequired THEN "reserved" ELSE "export_satisfied"

Reserve(o, i) ==
  /\ operations[o] = {}
  /\ transcripts[i.epoch].lifecycle = "active"
  /\ transcripts[i.epoch].next > 1
  /\ HighWaterMatches(i)
  /\ OneActiveOperation(i.epoch)
  /\ operations' = [operations EXCEPT ![o] =
       {[intent |-> i, state |-> InitialState(i.epoch), export |-> {},
         preimage |-> {}, signature |-> {}]}]
  /\ UNCHANGED <<store, tombstones, bound, receipts, completions, calls, reads>>

Put(o, row) == operations' = [operations EXCEPT ![o] = {row}]

BindExport(o, row, x) ==
  /\ row.intent.epoch \in ExportRequired
  /\ row.export = {}
  /\ row.state = "reserved"
  /\ Put(o, [row EXCEPT !.export = {x}, !.state = "export_satisfied"])
  /\ UNCHANGED <<store, tombstones, bound, receipts, completions, calls, reads>>

Resulting(action) == IF action = "delete" THEN "deleted" ELSE "redacted"

\* previous is what the supplied marker says of the transcript; the update
\* of the transcript must find it so.
PersistMarker(o, row, p, previous) ==
  /\ row.state = "export_satisfied"
  /\ <<previous, Resulting(row.intent.action)>> # <<"redacted", "redacted">>
  /\ transcripts[row.intent.epoch].lifecycle = previous
  /\ transcripts' = [transcripts EXCEPT ![row.intent.epoch].lifecycle =
                       Resulting(row.intent.action)]
  /\ Put(o, [row EXCEPT !.preimage = {p}, !.state = "marker_persisted"])
  /\ UNCHANGED <<records, accepted, tombstones, bound, receipts, completions, calls, reads>>

(***************************************************************************)
(* Calls with a preflight.  One that would find its work already done, or  *)
(* that the preflight refuses, returns without an effect.                  *)
(***************************************************************************)
Start(c, call) ==
  /\ calls[c] = {}
  /\ calls' = [calls EXCEPT ![c] = {call}]
  /\ UNCHANGED <<store, saga, reads>>

Return(c) == calls' = [calls EXCEPT ![c] = {}] /\ UNCHANGED reads

\* sameOperationSnapshot
SameSnapshot(call, row) == row = call.seen

\* LifecycleSignatureRemoval.AttachSignature.  The verifier accepts the
\* signature of the preimage it is given with, and no other.
PreflightAttach(c, o, row, p) ==
  /\ row.preimage = {p}
  /\ row.state = "marker_persisted"
  /\ Start(c, [kind |-> "attach", op |-> o, seen |-> row, preimage |-> p])

\* Mutant: trusts the state the preflight saw.
AttachableByPreflight(call, row) == row.preimage = {call.preimage}

Attachable(call, row) == row.preimage = {call.preimage} /\ row.state = "marker_persisted"

AttachSignature(c, call, row) ==
  /\ call.kind = "attach"
  /\ IF Attachable(call, row)
       THEN Put(call.op, [row EXCEPT !.signature = {call.preimage}, !.state = "receipt_signed"])
       ELSE UNCHANGED operations
  /\ Return(c)
  /\ UNCHANGED <<store, tombstones, bound, receipts, completions>>

\* LifecycleSignatureRemoval.RemovePayload
PreflightRemove(c, o, row) ==
  /\ row.state = "receipt_signed"
  /\ Start(c, [kind |-> "remove", op |-> o, seen |-> row])

\* Mutant: a redaction removes the whole epoch.
SelectedEpoch(i) == {r \in records : r.epoch = i.epoch}

\* selectRemovalRecords
Selected(i) ==
  {r \in records : r.epoch = i.epoch /\ (i.action = "redact" => r.seq \in i.target)}

Removable(call, row) ==
  /\ row.signature = call.seen.signature
  /\ row.preimage = call.seen.preimage
  /\ row.state = "receipt_signed"
  /\ Selected(row.intent) # {}
  /\ row.intent.target \subseteq {r.seq : r \in Selected(row.intent)}

Tombstone(o, r) == [epoch |-> r.epoch, seq |-> r.seq, event |-> r.event, op |-> o]

RemovePayload(c, call, row) ==
  /\ call.kind = "remove"
  /\ IF Removable(call, row)
       THEN /\ records' = records \ Selected(row.intent)
            /\ tombstones' = tombstones \cup
                 {Tombstone(call.op, r) : r \in Selected(row.intent)}
            /\ Put(call.op, [row EXCEPT !.state = "payload_removed"])
       ELSE UNCHANGED <<records, tombstones, operations>>
  /\ Return(c)
  /\ UNCHANGED <<transcripts, accepted, bound, receipts, completions>>

(***************************************************************************)
(* LifecycleBackupCompletion                                               *)
(***************************************************************************)
PreflightBind(c, o, row, set) ==
  /\ bound[o] = {}
  /\ row.state = "payload_removed"
  /\ Start(c, [kind |-> "bind", op |-> o, seen |-> row, set |-> set])

BindBackupObligations(c, call, row) ==
  /\ call.kind = "bind"
  /\ IF SameSnapshot(call, row) /\ row.state = "payload_removed"
       THEN /\ bound' = [bound EXCEPT ![call.op] = {call.set}]
            /\ Put(call.op, [row EXCEPT !.state = "backups_pending"])
       ELSE UNCHANGED <<bound, operations>>
  /\ Return(c)
  /\ UNCHANGED <<store, tombstones, receipts, completions>>

\* loadReceiptByID: the receipt ID is the key of the table.
Recorded(id) == \E o \in Operation : \E r \in receipts[o] : r.id = id

PreflightRecord(c, o, row, receipt) ==
  /\ row.state = "backups_pending"
  /\ bound[o] = {receipt.set}
  /\ ~Recorded(receipt.id)
  /\ Start(c, [kind |-> "record", op |-> o, seen |-> row, receipt |-> receipt])

Recordable(call, row) == ~Recorded(call.receipt.id) /\ SameSnapshot(call, row)

RecordBackupReceipt(c, call, row) ==
  /\ call.kind = "record"
  /\ IF Recordable(call, row)
       THEN receipts' = [receipts EXCEPT ![call.op] = @ \cup {call.receipt}]
       ELSE UNCHANGED receipts
  /\ Return(c)
  /\ UNCHANGED <<store, operations, tombstones, bound, completions>>

\* ClassifyBackupRecovery, with the verifier available
Incident(custody) ==
  \E r \in custody :
    \/ r.outcome = "failure"
    \/ r.time > Deadline
    \/ \E q \in custody : q # r /\ q.domain = r.domain

Classify(custody) ==
  CASE Incident(custody) -> "incident"
    [] ~Incident(custody) /\ {r.domain : r \in custody} # Domain -> "pending"
    [] OTHER -> "completable"

\* completionReferencesStored, for evidence that names the stored receipts
ReferencesStored(custody, at) ==
  /\ Cardinality(custody) = Cardinality(Domain)
  /\ \A d \in Domain : \E r \in custody :
       r.domain = d /\ r.outcome = "success" /\ r.time <= Deadline /\ r.time <= at

PreflightComplete(c, o, row, at) ==
  /\ row.state = "backups_pending"
  /\ Classify(receipts[o]) = "completable"
  /\ \A r \in receipts[o] : r.time <= at
  /\ Start(c, [kind |-> "complete", op |-> o, seen |-> row, custody |-> receipts[o], at |-> at])

Completable(call, row) ==
  /\ SameSnapshot(call, row)
  /\ row.state = "backups_pending"
  /\ receipts[call.op] = call.custody
  /\ ReferencesStored(receipts[call.op], call.at)

Complete(c, call, row) ==
  /\ call.kind = "complete"
  /\ IF Completable(call, row)
       THEN /\ completions' = [completions EXCEPT ![call.op] = {call.at}]
            /\ Put(call.op, [row EXCEPT !.state = "completed"])
       ELSE UNCHANGED <<completions, operations>>
  /\ Return(c)
  /\ UNCHANGED <<store, tombstones, bound, receipts>>

(***************************************************************************)
(* Store.Read, from the start and with room for every record               *)
(***************************************************************************)
Idle(r) == \A q \in reads[r] : q.pc = "done"

ReadLifecycle(r, e) ==
  /\ Idle(r)
  /\ LET lifecycle == transcripts[e].lifecycle
         pc == CASE lifecycle = "deleted" -> "done"
                 [] lifecycle = "redacted" -> "boundary"
                 [] OTHER -> "select"
     IN  reads' = [reads EXCEPT ![r] =
           {[pc |-> pc, epoch |-> e, lifecycle |-> lifecycle, cutoff |-> {}, rows |-> {}]}]
  /\ UNCHANGED <<store, saga, calls>>

\* SELECT MIN(server_sequence): what is replayed stays below the least of these.
RemovedFrom(e) == {t.seq : t \in {t \in tombstones : t.epoch = e}}

\* Nothing is replayed between the marker and the removal.
ReadBoundary(r, q) ==
  /\ q.pc = "boundary"
  /\ reads' = [reads EXCEPT ![r] =
       IF RemovedFrom(q.epoch) = {}
         THEN {[q EXCEPT !.pc = "done"]}
         ELSE {[q EXCEPT !.pc = "select", !.cutoff = RemovedFrom(q.epoch)]}]
  /\ UNCHANGED <<store, saga, calls>>

ReadRecords(r, q) ==
  /\ q.pc = "select"
  /\ reads' = [reads EXCEPT ![r] = {[q EXCEPT !.pc = "done", !.rows =
       {x \in records : x.epoch = q.epoch /\ \A n \in q.cutoff : x.seq < n}]}]
  /\ UNCHANGED <<store, saga, calls>>

Preflight(c, o, row) ==
  \/ \E p \in Preimage : PreflightAttach(c, o, row, p)
  \/ PreflightRemove(c, o, row)
  \/ \E set \in ObligationSet : PreflightBind(c, o, row, set)
  \/ \E receipt \in Custody : PreflightRecord(c, o, row, receipt)
  \/ \E at \in CompletedAt : PreflightComplete(c, o, row, at)

Transact(c, call, row) ==
  \/ AttachSignature(c, call, row)
  \/ RemovePayload(c, call, row)
  \/ BindBackupObligations(c, call, row)
  \/ RecordBackupReceipt(c, call, row)
  \/ Complete(c, call, row)

\* The process may stop at any point; only calls and reads are lost.
Restart ==
  /\ calls' = [c \in Caller |-> {}]
  /\ reads' = [r \in Reader |-> {}]
  /\ UNCHANGED <<store, saga>>

Next ==
  \/ \E e \in Epoch, event \in Event : AppendChecked(e, event)
  \/ \E r \in records : SignRecord(r)
  \/ \E o \in Operation, i \in Intent : Reserve(o, i)
  \/ \E o \in Operation : \E row \in operations[o] :
       \/ \E x \in Export : BindExport(o, row, x)
       \/ \E p \in Preimage, previous \in {"active", "redacted"} :
            PersistMarker(o, row, p, previous)
       \/ \E c \in Caller : Preflight(c, o, row)
  \/ \E c \in Caller : \E call \in calls[c] : \E row \in operations[call.op] :
       Transact(c, call, row)
  \/ \E r \in Reader, e \in Epoch : ReadLifecycle(r, e)
  \/ \E r \in Reader : \E q \in reads[r] : ReadBoundary(r, q) \/ ReadRecords(r, q)
  \/ Restart

Spec == Init /\ [][Next]_vars

(***************************************************************************)
(* What must hold                                                          *)
(***************************************************************************)
\* Every record AppendChecked ever accepted is either still stored or was
\* removed by exactly one operation, and RemovePayload removed what that
\* operation's intent names: its targets, or the whole epoch.
RemovalIsAccounted ==
  /\ {PlaceOf(r) : r \in records} \cup {PlaceOf(t) : t \in tombstones} = accepted
  /\ \A t \in tombstones :
       /\ \A r \in records : PlaceOf(r) # PlaceOf(t)
       /\ \A u \in tombstones : PlaceOf(u) = PlaceOf(t) => u = t
  /\ \A o \in Operation : \A row \in operations[o] :
       Rank(row.state) >= Rank("payload_removed") =>
         LET gone == {t \in tombstones : t.op = o}
         IN  /\ \A t \in gone : t.epoch = row.intent.epoch
             /\ IF row.intent.action = "redact"
                  THEN {t.seq : t \in gone} = row.intent.target
                  ELSE \A a \in accepted : a.epoch = row.intent.epoch => \E t \in gone : PlaceOf(t) = a

\* The channel accepts an event ID once: not in two epochs, and not again
\* after its record was removed.
IdentifierNeverReused ==
  \A a, b \in accepted : a.event = b.event => a = b

\* Payload is removed only from a fenced transcript, under a signature of the
\* marker that was persisted, and after the export its policy requires.
RemovalIsAuthorised ==
  \A t \in tombstones :
    /\ transcripts[t.epoch].lifecycle # "active"
    /\ \A row \in operations[t.op] :
         /\ row.signature # {} /\ row.signature = row.preimage
         /\ t.epoch \in ExportRequired => row.export # {}

\* A completed operation has one timely success of every custodian and was
\* completed after them; no receipt arrives later, whichever call won.
CompletionIsClean ==
  \A o \in Operation : \A row \in operations[o] :
    row.state = "completed" =>
      /\ Classify(receipts[o]) = "completable"
      /\ \A r \in receipts[o], at \in completions[o] : r.time <= at

\* A Read that found the transcript fenced replays the contiguous prefix
\* before the first removed record, whatever commits between its statements.
FencedReplayIsPrefix ==
  \A r \in Reader : \A q \in reads[r] :
    q.pc = "done" /\ q.lifecycle # "active" =>
      \A x \in q.rows : \A n \in 1 .. x.seq : \E y \in q.rows : y.seq = n

\* An operation moves to the next state of the saga or stays, and evidence
\* once stored is not replaced, however calls overlap.
SagaOnlyAdvances ==
  \A o \in Operation : \A row \in operations[o] : \E new \in operations'[o] :
    /\ new.intent = row.intent
    /\ Rank(new.state) \in {Rank(row.state), Rank(row.state) + 1}
    /\ row.export # {} => new.export = row.export
    /\ row.preimage # {} => new.preimage = row.preimage
    /\ row.signature # {} => new.signature = row.signature

\* A failure, a late success or a second receipt is an incident for good: no
\* later receipt resolves it and the operation is never completed.
IncidentIsForever ==
  \A o \in Operation : Incident(receipts[o]) =>
    /\ Incident(receipts[o]')
    /\ \A new \in operations'[o] : new.state # "completed"

\* What was removed is accounted for, was removed under authority, and is
\* reported complete only with every custodian's success.
RemovalIsSound == RemovalIsAccounted /\ RemovalIsAuthorised /\ CompletionIsClean

\* A removed record leaves a trace that a later append and a later replay see.
RemovalStaysVisible == IdentifierNeverReused /\ FencedReplayIsPrefix

\* The saga moves forward only, and an incident ends it.
SagaIsMonotone == [][SagaOnlyAdvances /\ IncidentIsForever]_vars

\* A Read never returns a record beyond a removed one: what it replays is a
\* contiguous prefix, also when the redaction commits between its statements.
ReplayStopsAtRemoval ==
  \A r \in Reader : \A q \in reads[r] :
    \A x \in q.rows : \A n \in 1 .. x.seq : \E y \in q.rows : y.seq = n
=============================================================================
