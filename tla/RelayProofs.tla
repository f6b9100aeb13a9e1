----------------------------- MODULE RelayProofs -----------------------------
(***************************************************************************)
(* The relay: the command log of the JetStream adapter, the process that   *)
(* serves requests and streams, and the transcript in the SQLite store with *)
(* its publishers and watchers.  The three specifications have no variable *)
(* in common; each has its inductive invariant below.                      *)
(***************************************************************************)
EXTENDS CommandLog, RelayProcess, RelayTranscript, TLAPS

\* A part of a sequence holds the elements of that part: what a page of the
\* transcript rests on.
LEMMA PartFacts ==
  ASSUME NEW S, NEW s \in Seq(S), NEW m \in Nat, NEW n \in Nat, m <= n, n <= Len(s)
  PROVE  /\ SubSeq(s, m + 1, n) \in Seq(S)
         /\ Len(SubSeq(s, m + 1, n)) = n - m
         /\ \A i \in 1..(n - m) : SubSeq(s, m + 1, n)[i] = s[m + i]
  OBVIOUS

\* Appending to a sequence keeps its elements.
LEMMA AppendFacts ==
  ASSUME NEW S, NEW s \in Seq(S), NEW e \in S
  PROVE  /\ Append(s, e) \in Seq(S)
         /\ Len(Append(s, e)) = Len(s) + 1
         /\ \A i \in 1..Len(s) : Append(s, e)[i] = s[i]
         /\ Append(s, e)[Len(s) + 1] = e
  OBVIOUS

(***************************************************************************)
(* The command log                                                         *)
(*                                                                         *)
(* No order of concurrent operations, retries and delayed publishes makes  *)
(* a tenant's log unreadable. The argument: a command waits for exactly    *)
(* one revision, and the state at that revision is the one it was decided  *)
(* on, so the reducer's checks, which repeat the operation's, hold.        *)
(***************************************************************************)
\* The reduced state has the five fields of tenantState.
StateShape == DOMAIN tenant = {"ok", "transcripts", "channelURIs", "events", "receipts"}

Kinds == {"channel_created", "record_appended", "signature_attached"}

\* The reducer takes the command on the current revision.
Acceptable(cmd) == cmd.kind \in Kinds /\ Apply(tenant, cmd).ok = TRUE

\* Whatever can still land on the current revision is accepted there: the
\* strays, and the publish of a call that loaded this revision.
PendingIsAcceptable ==
    /\ \A cmd \in strays : Acceptable(cmd)
    /\ \A c \in Client : call[c].at = "publish" =>
        /\ call[c].revision \in Nat
        /\ call[c].revision <= revision
        /\ call[c].revision = revision => Acceptable(call[c].cmd)

\* A call in progress runs an operation callers ask for.
CallsHaveOperations ==
    \A c \in Client : call[c].at \in {"load", "publish"} => call[c].op \in Operation

IInv ==
    /\ revision \in Nat
    /\ call = [c \in Client |-> call[c]]
    /\ StateShape
    /\ tenant.ok = TRUE
    /\ PendingIsAcceptable
    /\ CallsHaveOperations

-----------------------------------------------------------------------------

\* Applying a command keeps the shape of the state.
LEMMA ApplyShape ==
    ASSUME NEW cmd, StateShape, cmd.kind \in Kinds
    PROVE  DOMAIN Apply(tenant, cmd) = DOMAIN tenant
  BY Zenon DEF Kinds, StateShape, Apply, ApplyChannel, ApplyRecord, ApplySignature

\* What an operation decides to publish is accepted by the reducer: the checks
\* of an operation imply the checks of the reducer on the same state.
LEMMA DecisionIsAcceptable ==
    ASSUME NEW op \in Operation, StateShape, tenant.ok = TRUE,
           Decide(tenant, op).outcome = "publish"
    PROVE  Acceptable(Decide(tenant, op).cmd)
  <1> USE DEF Acceptable, Kinds
  <1>1. CASE op.kind = "channel_created"
    <2>1. Decide(tenant, op) = DecideCreate(tenant, op)
      BY <1>1, Zenon DEF Decide
    <2>2. /\ op.key \notin DOMAIN tenant.transcripts
          /\ UriIsFree(tenant, op.key, op.uri)
          /\ Decide(tenant, op).cmd = op
      BY <2>1 DEF DecideCreate, Publish, Created, Refused
    <2>3. ApplyChannel(tenant, op).ok = TRUE
      BY <2>2, Zenon DEF ApplyChannel, StateShape
    <2> QED BY <1>1, <2>2, <2>3, Zenon DEF Apply
  <1>2. CASE op.kind = "record_appended"
    <2> DEFINE seq == Len(tenant.transcripts[op.key].records) + 1
               cmd == RecordCommand(op, seq)
    <2>1. Decide(tenant, op) = DecideAppend(tenant, op)
      BY <1>2, Zenon DEF Decide
    <2>2. /\ op.key \in DOMAIN tenant.transcripts
          /\ EventKey(op) \notin DOMAIN tenant.events
          /\ DecideAppend(tenant, op) = PublishRecord(tenant, op)
      BY <2>1 DEF DecideAppend, Refused, Answer
    <2>3. /\ op.receipt \notin DOMAIN tenant.receipts
          /\ Decide(tenant, op).cmd = cmd
      BY <2>1, <2>2 DEF PublishRecord, Publish, Refused
    <2>4. /\ cmd.kind = "record_appended" /\ cmd.key = op.key /\ cmd.seq = seq
          /\ cmd.receipt = op.receipt /\ EventKey(cmd) = EventKey(op)
      BY <1>2, Zenon DEF RecordCommand, EventKey
    <2> HIDE DEF cmd
    <2>5. ApplyRecord(tenant, cmd).ok = TRUE
      BY <2>2, <2>3, <2>4, Zenon DEF ApplyRecord, StateShape
    <2> QED BY <2>3, <2>4, <2>5, Zenon DEF Apply
  <1>3. CASE op.kind = "signature_attached"
    <2>1. Decide(tenant, op) = DecideAttach(tenant, op)
      BY <1>3, Zenon DEF Decide
    <2>2. /\ HasReceipt(tenant, op)
          /\ tenant.receipts[op.receipt].signature = {}
          /\ Decide(tenant, op).cmd = op
      BY <2>1 DEF DecideAttach, Publish, Answer, Refused
    <2>3. ApplySignature(tenant, op).ok = TRUE
      BY <2>2, Zenon DEF ApplySignature, StateShape
    <2> QED BY <1>3, <2>2, <2>3, Zenon DEF Apply
  <1> QED
    BY <1>1, <1>2, <1>3, OperationAssumption, Zenon
    DEF ChannelCreated, RecordAppended, SignatureAttached

\* A round of load and decide leaves only acceptable publishes behind.
LEMMA RoundPreserves ==
    ASSUME IInv, NEW c \in Client, NEW op \in Operation, NEW attempt,
           LoadAndDecide(c, op, attempt), UNCHANGED <<revision, tenant, strays>>
    PROVE  IInv'
  <1> DEFINE decision == Decide(tenant, op)
             next == call'[c]
  <1>1. call' = [d \in Client |-> call'[d]] /\ \A d \in Client \ {c} : call'[d] = call[d]
    BY Zenon DEF IInv, LoadAndDecide
  <1>2. \/ next.at = "done"
        \/ /\ decision.outcome = "publish"
           /\ next = [at |-> "publish", op |-> op, attempt |-> attempt,
                      revision |-> revision, cmd |-> decision.cmd,
                      reply |-> decision.reply]
    <2>1. next = IF decision.outcome # "publish" THEN Done(decision)
                 ELSE [at |-> "publish", op |-> op, attempt |-> attempt,
                       revision |-> revision, cmd |-> decision.cmd,
                       reply |-> decision.reply]
      BY Zenon DEF IInv, LoadAndDecide
    <2> QED BY <2>1 DEF Done
  <1> HIDE DEF next
  <1>3. next.at = "publish" => /\ next.revision = revision
                               /\ Acceptable(next.cmd)
    <2>1. decision.outcome = "publish" => Acceptable(decision.cmd)
      BY DecisionIsAcceptable, Zenon DEF IInv
    <2> HIDE DEF decision
    <2> QED BY <1>2, <2>1
  <1>4. next.at \in {"load", "publish"} => next.op = op
    BY <1>2
  <1>5. \A cmd : Acceptable(cmd)' <=> Acceptable(cmd)
    BY Zenon DEF Acceptable
  <1>6. PendingIsAcceptable'
    BY <1>1, <1>3, <1>5 DEF next, IInv, PendingIsAcceptable
  <1>7. CallsHaveOperations'
    BY <1>1, <1>4, Zenon DEF next, IInv, CallsHaveOperations
  <1> QED BY <1>1, <1>6, <1>7, Zenon DEF IInv, StateShape

\* Landing an acceptable command keeps the log readable and leaves nothing
\* pending: every other publish now expects an earlier revision.
LEMMA LandPreserves ==
    ASSUME IInv, NEW expected, NEW cmd, Acceptable(cmd), Land(expected, cmd),
           call' = [c \in Client |-> call'[c]],
           \A c \in Client : call'[c].at = "publish" => call'[c] = call[c],
           CallsHaveOperations'
    PROVE  IInv'
  <1>1. StateShape' /\ (tenant.ok = TRUE)'
    BY ApplyShape, Zenon DEF IInv, Land, Acceptable, StateShape
  <1>2. PendingIsAcceptable'
    BY DEF IInv, Land, PendingIsAcceptable
  <1> QED BY <1>1, <1>2 DEF IInv, Land

\* After a failed publish the call loads again or has failed.
LEMMA TryAgainCalls ==
    ASSUME IInv, NEW c \in Client, call[c].at = "publish", TryAgain(c)
    PROVE  /\ call' = [d \in Client |-> call'[d]]
           /\ \A d \in Client : call'[d].at = "publish" => call'[d] = call[d]
           /\ CallsHaveOperations'
  BY Zenon DEF IInv, TryAgain, Loading, Failed, CallsHaveOperations

\* A step that only moves calls away from publishing preserves the invariant.
LEMMA CallsOnlyPreserves ==
    ASSUME IInv, UNCHANGED <<revision, tenant>>,
           \A cmd \in strays' : Acceptable(cmd),
           call' = [c \in Client |-> call'[c]],
           \A c \in Client : call'[c].at = "publish" => call'[c] = call[c],
           CallsHaveOperations'
    PROVE  IInv'
  <1>1. \A cmd : Acceptable(cmd)' <=> Acceptable(cmd)
    BY Zenon DEF Acceptable
  <1>2. PendingIsAcceptable'
    BY <1>1, Zenon DEF IInv, PendingIsAcceptable
  <1> QED BY <1>2, Zenon DEF IInv, StateShape

-----------------------------------------------------------------------------

\* Every step of a client or of the broker preserves the inductive invariant.
THEOREM StepPreserves == IInv /\ [Next]_vars => IInv'
  <1> SUFFICES ASSUME IInv, [Next]_vars PROVE IInv'
    BY Zenon
  <1>1. ASSUME NEW c \in Client, NEW op \in Operation, Begin(c, op) PROVE IInv'
    BY <1>1, RoundPreserves, Zenon DEF Begin
  <1>2. ASSUME NEW c \in Client, Reload(c) PROVE IInv'
    <2>1. call[c].op \in Operation
      BY <1>2, Zenon DEF Reload, IInv, CallsHaveOperations
    <2> QED BY <1>2, <2>1, RoundPreserves, Zenon DEF Reload
  <1>3. ASSUME NEW c \in Client, PublishAcknowledged(c) PROVE IInv'
    <2>1. Acceptable(call[c].cmd)
      BY <1>3, Zenon DEF PublishAcknowledged, Land, IInv, PendingIsAcceptable
    <2>2. /\ call' = [d \in Client |-> call'[d]]
          /\ \A d \in Client : call'[d].at = "publish" => call'[d] = call[d]
          /\ CallsHaveOperations'
      BY <1>3, Zenon DEF PublishAcknowledged, IInv, Done, CallsHaveOperations
    <2> QED BY <1>3, <2>1, <2>2, LandPreserves, Zenon DEF PublishAcknowledged
  <1>4. ASSUME NEW c \in Client, PublishRefused(c) PROVE IInv'
    <2>1. \A cmd \in strays' : Acceptable(cmd)
      BY <1>4, Zenon DEF PublishRefused, IInv, PendingIsAcceptable
    <2> QED BY <1>4, <2>1, TryAgainCalls, CallsOnlyPreserves, Zenon DEF PublishRefused
  <1>5. ASSUME NEW c \in Client, AcknowledgementLost(c) PROVE IInv'
    <2>1. Acceptable(call[c].cmd)
      BY <1>5, Zenon DEF AcknowledgementLost, Land, IInv, PendingIsAcceptable
    <2> QED BY <1>5, <2>1, TryAgainCalls, LandPreserves, Zenon DEF AcknowledgementLost
  <1>6. ASSUME NEW c \in Client, PublishDelayed(c) PROVE IInv'
    <2>1. Acceptable(call[c].cmd)
      BY <1>6, Zenon DEF PublishDelayed, IInv, PendingIsAcceptable
    <2>2. \A cmd \in strays' : Acceptable(cmd)
      BY <1>6, <2>1, Zenon DEF PublishDelayed, IInv, PendingIsAcceptable
    <2> QED BY <1>6, <2>2, TryAgainCalls, CallsOnlyPreserves, Zenon DEF PublishDelayed
  <1>7. ASSUME NEW c \in Client, Abandon(c) PROVE IInv'
    <2>1. \A cmd \in strays' : Acceptable(cmd)
      BY <1>7, Zenon DEF Abandon, IInv, PendingIsAcceptable
    <2>2. /\ call' = [d \in Client |-> call'[d]]
          /\ \A d \in Client : call'[d].at = "publish" => call'[d] = call[d]
          /\ CallsHaveOperations'
      BY <1>7, Zenon DEF Abandon, IInv, Failed, CallsHaveOperations
    <2> QED BY <1>7, <2>1, <2>2, CallsOnlyPreserves, Zenon DEF Abandon
  <1>8. ASSUME NEW cmd \in strays, StrayLands(cmd) PROVE IInv'
    <2>1. Acceptable(cmd)
      BY <1>8, Zenon DEF IInv, PendingIsAcceptable
    <2>2. CallsHaveOperations'
      BY <1>8, Zenon DEF StrayLands, IInv, CallsHaveOperations
    <2> QED BY <1>8, <2>1, <2>2, LandPreserves, Zenon DEF StrayLands, IInv
  <1>9. CASE UNCHANGED vars
    BY <1>9, Zenon DEF vars, IInv, StateShape, PendingIsAcceptable, Acceptable, CallsHaveOperations
  <1> QED BY <1>1, <1>2, <1>3, <1>4, <1>5, <1>6, <1>7, <1>8, <1>9, Zenon DEF Next

\* The empty log satisfies the inductive invariant.
LEMMA InitHolds == Init => IInv
  BY DEF Init, IInv, NewTenantState, Idle, StateShape, PendingIsAcceptable,
         CallsHaveOperations

\* For any operations, clients and number of attempts, the reducer accepts every
\* command that lands: no load of the tenant ever stops at a refused command.
THEOREM LogIsReadable == Spec => []LogStaysReadable
  <1>1. IInv => LogStaysReadable
    BY Zenon DEF IInv, LogStaysReadable
  <1> QED BY <1>1, InitHolds, StepPreserves, PTL DEF Spec

(***************************************************************************)
(* The command log implements the transcript store, for any operations,    *)
(* clients, attempts and length of the log. The argument: a command that   *)
(* lands is accepted (LogIsReadable), so the reducer takes the branch      *)
(* that changes the three maps as the store does. For a signature this     *)
(* needs that the index of receipts and the transcripts hold the same      *)
(* records, each at its own sequence: then the record the index names is   *)
(* the first of its transcript with that receipt.                          *)
(***************************************************************************)

-----------------------------------------------------------------------------
(* What an accepted command makes of the fields of the state. *)

\* applyChannel: the URI of the channel and an empty transcript.
LEMMA ChannelFields ==
    ASSUME StateShape, tenant.ok = TRUE, NEW cmd, cmd.kind = "channel_created",
           Acceptable(cmd)
    PROVE  /\ cmd.key \notin DOMAIN tenant.transcripts
           /\ UriIsFree(tenant, cmd.key, cmd.uri)
           /\ Apply(tenant, cmd).channelURIs
                = Put(tenant.channelURIs, ChannelId(cmd.key), cmd.uri)
           /\ Apply(tenant, cmd).transcripts
                = Put(tenant.transcripts, cmd.key, [uri |-> cmd.uri, records |-> << >>])
           /\ Apply(tenant, cmd).events = tenant.events
           /\ Apply(tenant, cmd).receipts = tenant.receipts
  <1>1. Apply(tenant, cmd) = ApplyChannel(tenant, cmd)
    BY Zenon DEF Apply
  <1>2. ~(cmd.key \in DOMAIN tenant.transcripts \/ ~UriIsFree(tenant, cmd.key, cmd.uri))
    BY <1>1, Zenon DEF Acceptable, ApplyChannel, StateShape
  <1> QED BY <1>1, <1>2, Zenon DEF ApplyChannel, StateShape

\* applyRecord: one more record, in the transcript and in both indexes.
LEMMA RecordFields ==
    ASSUME StateShape, tenant.ok = TRUE, NEW cmd, cmd.kind = "record_appended",
           Acceptable(cmd)
    PROVE  /\ cmd.key \in DOMAIN tenant.transcripts
           /\ cmd.seq = Len(tenant.transcripts[cmd.key].records) + 1
           /\ EventKey(cmd) \notin DOMAIN tenant.events
           /\ cmd.receipt \notin DOMAIN tenant.receipts
           /\ Apply(tenant, cmd).channelURIs = tenant.channelURIs
           /\ Apply(tenant, cmd).transcripts
                = [tenant.transcripts EXCEPT
                     ![cmd.key].records = Append(@, NewRecord(cmd, cmd.seq))]
           /\ Apply(tenant, cmd).events
                = Put(tenant.events, EventKey(cmd), NewRecord(cmd, cmd.seq))
           /\ Apply(tenant, cmd).receipts
                = Put(tenant.receipts, cmd.receipt, NewRecord(cmd, cmd.seq))
  <1>1. Apply(tenant, cmd) = ApplyRecord(tenant, cmd)
    BY Zenon DEF Apply
  <1>2. /\ cmd.key \in DOMAIN tenant.transcripts
        /\ cmd.seq = Len(tenant.transcripts[cmd.key].records) + 1
        /\ EventKey(cmd) \notin DOMAIN tenant.events
        /\ cmd.receipt \notin DOMAIN tenant.receipts
    BY <1>1, Zenon DEF Acceptable, ApplyRecord, StateShape
  <1> QED BY <1>1, <1>2, Zenon DEF ApplyRecord, StateShape

\* applySignature: the signed record takes the place of the unsigned one.
LEMMA SignatureFields ==
    ASSUME StateShape, tenant.ok = TRUE, NEW cmd, cmd.kind = "signature_attached",
           Acceptable(cmd)
    PROVE  LET record == tenant.receipts[cmd.receipt]
               signed == Signed(record, cmd)
           IN /\ HasReceipt(tenant, cmd)
              /\ record.signature = {}
              /\ Apply(tenant, cmd).channelURIs = tenant.channelURIs
              /\ Apply(tenant, cmd).transcripts
                   = [tenant.transcripts EXCEPT ![cmd.key].records[signed.seq] = signed]
              /\ Apply(tenant, cmd).events
                   = [tenant.events EXCEPT ![EventKey(signed)] = signed]
              /\ Apply(tenant, cmd).receipts
                   = [tenant.receipts EXCEPT ![cmd.receipt] = signed]
  <1>1. Apply(tenant, cmd) = ApplySignature(tenant, cmd)
    BY Zenon DEF Apply
  <1>2. HasReceipt(tenant, cmd) /\ tenant.receipts[cmd.receipt].signature = {}
    BY <1>1, Zenon DEF Acceptable, ApplySignature, StateShape
  <1> QED BY <1>1, <1>2, Zenon DEF ApplySignature, StateShape

-----------------------------------------------------------------------------
(* The reduced state. *)

Transcript == [uri : Uri, records : Seq(StoredRecord)]

TranscriptsTyped ==
    /\ DOMAIN tenant.transcripts \subseteq Key
    /\ tenant.transcripts = [k \in DOMAIN tenant.transcripts |-> tenant.transcripts[k]]
    /\ \A k \in DOMAIN tenant.transcripts : tenant.transcripts[k] \in Transcript

\* A record of a transcript says where it is, and its receipt finds it.
RecordsAreIndexed ==
    \A k \in DOMAIN tenant.transcripts : \A i \in 1..Len(tenant.transcripts[k].records) :
        LET record == tenant.transcripts[k].records[i]
        IN /\ record.key = k
           /\ record.seq = i
           /\ record.receipt \in DOMAIN tenant.receipts
           /\ tenant.receipts[record.receipt] = record

\* A receipt finds a record of a transcript.
ReceiptsAreStored ==
    \A r \in DOMAIN tenant.receipts :
        LET record == tenant.receipts[r]
        IN /\ record.receipt = r
           /\ record.key \in DOMAIN tenant.transcripts
           /\ record.seq \in 1..Len(tenant.transcripts[record.key].records)
           /\ tenant.transcripts[record.key].records[record.seq] = record

TenantInv == TranscriptsTyped /\ RecordsAreIndexed /\ ReceiptsAreStored

\* Whatever may land is a command of the log.
CommandsTyped ==
    /\ strays \subseteq Command
    /\ \A c \in Client : call[c].at = "publish" => call[c].cmd \in Command

\* The records of a transcript.
LEMMA RecordsTyped ==
    ASSUME TranscriptsTyped, NEW k \in DOMAIN tenant.transcripts
    PROVE  /\ k \in Key
           /\ tenant.transcripts[k].records \in Seq(StoredRecord)
           /\ Len(tenant.transcripts[k].records) \in Nat
           /\ tenant.transcripts[k] = [uri |-> tenant.transcripts[k].uri,
                                       records |-> tenant.transcripts[k].records]
  <1>1. tenant.transcripts[k] \in Transcript /\ k \in Key
    BY Zenon DEF TranscriptsTyped
  <1>2. tenant.transcripts[k].records \in Seq(StoredRecord)
    BY <1>1, Zenon DEF Transcript
  <1>3. Len(tenant.transcripts[k].records) \in Nat
    BY <1>2
  <1>4. tenant.transcripts[k] = [uri |-> tenant.transcripts[k].uri,
                                 records |-> tenant.transcripts[k].records]
    BY <1>1, Zenon DEF Transcript
  <1> QED BY <1>1, <1>2, <1>3, <1>4, Zenon

\* Creating a channel is CreateChannel of the store.
LEMMA ChannelLands ==
    ASSUME IInv, TenantInv, NEW cmd \in ChannelCreated, Acceptable(cmd),
           tenant' = Apply(tenant, cmd)
    PROVE  Store!Next /\ TenantInv'
  <1>1. cmd.kind = "channel_created" /\ cmd.key \in Key /\ cmd.uri \in Uri
    BY Zenon DEF ChannelCreated
  <1> DEFINE new == [uri |-> cmd.uri, records |-> << >>]
  <1>2. /\ cmd.key \notin DOMAIN tenant.transcripts
        /\ UriIsFree(tenant, cmd.key, cmd.uri)
        /\ tenant'.channelURIs = Put(tenant.channelURIs, ChannelId(cmd.key), cmd.uri)
        /\ tenant'.transcripts = Put(tenant.transcripts, cmd.key, new)
        /\ tenant'.events = tenant.events
        /\ tenant'.receipts = tenant.receipts
    BY <1>1, ChannelFields, Zenon DEF IInv
  <1>3. Store!CreateChannel(cmd.key, cmd.uri)
    BY <1>2, Zenon DEF Store!CreateChannel, Store!ChannelId, Store!Put, ChannelId, Put, UriIsFree
  <1>4. Store!Next
    BY <1>1, <1>3, Zenon DEF Store!Next
  <1>5. new \in Transcript /\ new.records = << >>
    BY <1>1 DEF Transcript
  <1>6. /\ DOMAIN tenant'.transcripts = DOMAIN tenant.transcripts \cup {cmd.key}
        /\ tenant'.transcripts[cmd.key] = new
        /\ \A k \in DOMAIN tenant.transcripts : tenant'.transcripts[k] = tenant.transcripts[k]
    BY <1>2, Zenon DEF Put
  <1> HIDE DEF new
  <1>7. TranscriptsTyped'
    BY <1>1, <1>2, <1>5, <1>6, Zenon DEF TenantInv, TranscriptsTyped, Put
  <1>8. RecordsAreIndexed'
    <2> SUFFICES ASSUME NEW k \in DOMAIN tenant'.transcripts,
                        NEW i \in 1..Len(tenant'.transcripts[k].records)
                 PROVE  LET record == tenant'.transcripts[k].records[i]
                        IN /\ record.key = k
                           /\ record.seq = i
                           /\ record.receipt \in DOMAIN tenant'.receipts
                           /\ tenant'.receipts[record.receipt] = record
      BY Zenon DEF RecordsAreIndexed
    <2>1. k # cmd.key
      BY <1>5, <1>6
    <2>2. k \in DOMAIN tenant.transcripts /\ tenant'.transcripts[k] = tenant.transcripts[k]
      BY <1>6, <2>1, Zenon
    <2> DEFINE record == tenant.transcripts[k].records[i]
    <2>3. /\ record.key = k
          /\ record.seq = i
          /\ record.receipt \in DOMAIN tenant.receipts
          /\ tenant.receipts[record.receipt] = record
      BY <2>2, Zenon DEF TenantInv, RecordsAreIndexed
    <2>4. tenant'.transcripts[k].records[i] = record
      BY <2>2, Zenon
    <2> HIDE DEF record
    <2> QED BY <1>2, <2>3, <2>4, Zenon
  <1>9. ReceiptsAreStored'
    <2> SUFFICES ASSUME NEW r \in DOMAIN tenant'.receipts
                 PROVE  LET record == tenant'.receipts[r]
                        IN /\ record.receipt = r
                           /\ record.key \in DOMAIN tenant'.transcripts
                           /\ record.seq \in 1..Len(tenant'.transcripts[record.key].records)
                           /\ tenant'.transcripts[record.key].records[record.seq] = record
      BY Zenon DEF ReceiptsAreStored
    <2> DEFINE record == tenant.receipts[r]
    <2>1. r \in DOMAIN tenant.receipts /\ tenant'.receipts[r] = record
      BY <1>2, Zenon
    <2>2. /\ record.receipt = r
          /\ record.key \in DOMAIN tenant.transcripts
          /\ record.seq \in 1..Len(tenant.transcripts[record.key].records)
          /\ tenant.transcripts[record.key].records[record.seq] = record
      BY <2>1, Zenon DEF TenantInv, ReceiptsAreStored
    <2> HIDE DEF record
    <2>3. /\ record.key \in DOMAIN tenant'.transcripts
          /\ tenant'.transcripts[record.key] = tenant.transcripts[record.key]
      BY <1>6, <2>2, Zenon
    <2> QED BY <2>1, <2>2, <2>3, Zenon
  <1> QED BY <1>4, <1>7, <1>8, <1>9, Zenon DEF TenantInv

\* A transcript whose records change keeps its URI and its type.
LEMMA RecordsReplaced ==
    ASSUME TranscriptsTyped, NEW key \in DOMAIN tenant.transcripts,
           NEW s \in Seq(StoredRecord),
           tenant'.transcripts = [tenant.transcripts EXCEPT ![key].records = s]
    PROVE  /\ TranscriptsTyped'
           /\ DOMAIN tenant'.transcripts = DOMAIN tenant.transcripts
           /\ tenant'.transcripts[key].records = s
           /\ \A k \in DOMAIN tenant.transcripts :
                  k # key => tenant'.transcripts[k] = tenant.transcripts[k]
  <1>1. tenant.transcripts[key] \in Transcript
    BY Zenon DEF TranscriptsTyped
  <1>2. /\ [tenant.transcripts[key] EXCEPT !.records = s] \in Transcript
        /\ [tenant.transcripts[key] EXCEPT !.records = s].records = s
    BY <1>1, Zenon DEF Transcript
  <1>3. /\ DOMAIN tenant'.transcripts = DOMAIN tenant.transcripts
        /\ tenant'.transcripts[key] = [tenant.transcripts[key] EXCEPT !.records = s]
        /\ \A k \in DOMAIN tenant.transcripts :
               k # key => tenant'.transcripts[k] = tenant.transcripts[k]
        /\ tenant'.transcripts = [k \in DOMAIN tenant'.transcripts |-> tenant'.transcripts[k]]
    BY Zenon DEF TranscriptsTyped
  <1>4. TranscriptsTyped'
    BY <1>2, <1>3, Zenon DEF TranscriptsTyped
  <1> QED BY <1>2, <1>3, <1>4, Zenon

\* Appending a record is AppendChecked of the store.
LEMMA RecordLands ==
    ASSUME IInv, TenantInv, NEW cmd \in Command, cmd.kind = "record_appended",
           Acceptable(cmd), tenant' = Apply(tenant, cmd)
    PROVE  Store!Next /\ TenantInv'
  <1>1. /\ cmd.key \in Key /\ cmd.event \in Event /\ cmd.body \in Body
        /\ cmd.receipt \in Receipt /\ cmd.seq \in Nat \ {0}
    BY Zenon DEF Command, ChannelCreated, SignatureAttached
  <1> DEFINE old == tenant.transcripts[cmd.key].records
             new == NewRecord(cmd, cmd.seq)
  <1>2. /\ cmd.key \in DOMAIN tenant.transcripts
        /\ cmd.seq = Len(old) + 1
        /\ EventKey(cmd) \notin DOMAIN tenant.events
        /\ cmd.receipt \notin DOMAIN tenant.receipts
        /\ tenant'.channelURIs = tenant.channelURIs
        /\ tenant'.transcripts
             = [tenant.transcripts EXCEPT ![cmd.key].records = Append(@, new)]
        /\ tenant'.events = Put(tenant.events, EventKey(cmd), new)
        /\ tenant'.receipts = Put(tenant.receipts, cmd.receipt, new)
    BY RecordFields, Zenon DEF IInv
  <1>3. Store!AppendChecked(cmd.key, cmd.event, cmd.body, cmd.receipt)
    BY <1>2, Zenon DEF Store!AppendChecked, Store!ChannelId, Store!Put, Store!NewRecord,
                ChannelId, Put, NewRecord, EventKey
  <1>4. Store!Next
    BY <1>1, <1>3, Zenon DEF Store!Next
  <1>5. /\ new \in StoredRecord /\ new.key = cmd.key /\ new.seq = cmd.seq
        /\ new.receipt = cmd.receipt
    BY <1>1, Zenon DEF NewRecord, StoredRecord
  <1>6. old \in Seq(StoredRecord) /\ Len(old) \in Nat
    BY <1>2, RecordsTyped, Zenon DEF TenantInv
  <1> HIDE DEF new
  <1>7. /\ Append(old, new) \in Seq(StoredRecord)
        /\ Len(Append(old, new)) = cmd.seq
        /\ \A i \in 1..Len(old) : Append(old, new)[i] = old[i]
        /\ Append(old, new)[cmd.seq] = new
    <2>1. PICK s \in Seq(StoredRecord), x \in StoredRecord : s = old /\ x = new
      BY <1>5, <1>6, Zenon
    <2>2. /\ Append(s, x) \in Seq(StoredRecord)
          /\ Len(Append(s, x)) = Len(s) + 1
          /\ \A i \in 1..Len(s) : Append(s, x)[i] = s[i]
          /\ Append(s, x)[Len(s) + 1] = x
      BY AppendFacts, Zenon
    <2>3. cmd.seq = Len(s) + 1
      BY <1>2, <2>1, Zenon
    <2>. QED
      BY <2>1, <2>2, <2>3, Zenon
  <1>8. tenant'.transcripts = [tenant.transcripts EXCEPT ![cmd.key].records = Append(old, new)]
    BY <1>2, Zenon
  <1> HIDE DEF old
  <1>9. /\ TranscriptsTyped'
        /\ DOMAIN tenant'.transcripts = DOMAIN tenant.transcripts
        /\ tenant'.transcripts[cmd.key].records = Append(old, new)
        /\ \A k \in DOMAIN tenant.transcripts :
               k # cmd.key => tenant'.transcripts[k] = tenant.transcripts[k]
    BY <1>2, <1>7, <1>8, RecordsReplaced, Zenon DEF TenantInv
  <1>10. /\ DOMAIN tenant'.receipts = DOMAIN tenant.receipts \cup {cmd.receipt}
         /\ tenant'.receipts[cmd.receipt] = new
         /\ \A r \in DOMAIN tenant.receipts : tenant'.receipts[r] = tenant.receipts[r]
    BY <1>2, Zenon DEF Put
  <1>11. RecordsAreIndexed'
    <2> SUFFICES ASSUME NEW k \in DOMAIN tenant'.transcripts,
                        NEW i \in 1..Len(tenant'.transcripts[k].records)
                 PROVE  LET record == tenant'.transcripts[k].records[i]
                        IN /\ record.key = k
                           /\ record.seq = i
                           /\ record.receipt \in DOMAIN tenant'.receipts
                           /\ tenant'.receipts[record.receipt] = record
      BY Zenon DEF RecordsAreIndexed
    <2>1. CASE k = cmd.key /\ i = cmd.seq
      <3>1. tenant'.transcripts[k].records[i] = new
        BY <1>7, <1>9, <2>1, Zenon
      <3>2. /\ new.key = k /\ new.seq = i
            /\ new.receipt \in DOMAIN tenant'.receipts
            /\ tenant'.receipts[new.receipt] = new
        BY <1>5, <1>10, <2>1, Zenon
      <3> QED BY <3>1, <3>2, Zenon
    <2>2. CASE ~(k = cmd.key /\ i = cmd.seq)
      <3>1. /\ k \in DOMAIN tenant.transcripts
            /\ i \in 1..Len(tenant.transcripts[k].records)
            /\ tenant'.transcripts[k].records[i] = tenant.transcripts[k].records[i]
        <4>1. CASE k = cmd.key
          <5>1. tenant'.transcripts[k].records = Append(old, new)
            BY <1>9, <4>1, Zenon
          <5>2. i \in 1..cmd.seq /\ i # cmd.seq
            BY <1>7, <2>2, <4>1, <5>1, Zenon
          <5>3. i \in 1..Len(old)
            BY <1>2, <1>6, <5>2
          <5>4. Append(old, new)[i] = old[i]
            BY <1>7, <5>3, Zenon
          <5>5. tenant.transcripts[k].records = old /\ k \in DOMAIN tenant.transcripts
            BY <1>2, <4>1, Zenon DEF old
          <5> QED BY <5>1, <5>3, <5>4, <5>5, Zenon
        <4>2. CASE k # cmd.key
          BY <1>9, <4>2, Zenon
        <4> QED BY <4>1, <4>2, Zenon
      <3> DEFINE record == tenant.transcripts[k].records[i]
      <3>2. /\ record.key = k
            /\ record.seq = i
            /\ record.receipt \in DOMAIN tenant.receipts
            /\ tenant.receipts[record.receipt] = record
        BY <3>1, Zenon DEF TenantInv, RecordsAreIndexed
      <3> HIDE DEF record
      <3>3. tenant'.transcripts[k].records[i] = record
        BY <3>1, Zenon DEF record
      <3> QED BY <1>10, <3>2, <3>3, Zenon
    <2> QED BY <2>1, <2>2, Zenon
  <1>12. ReceiptsAreStored'
    <2> SUFFICES ASSUME NEW r \in DOMAIN tenant'.receipts
                 PROVE  LET record == tenant'.receipts[r]
                        IN /\ record.receipt = r
                           /\ record.key \in DOMAIN tenant'.transcripts
                           /\ record.seq \in 1..Len(tenant'.transcripts[record.key].records)
                           /\ tenant'.transcripts[record.key].records[record.seq] = record
      BY Zenon DEF ReceiptsAreStored
    <2>1. CASE r = cmd.receipt
      <3>1. cmd.seq \in 1..cmd.seq
        BY <1>1
      <3> QED BY <1>2, <1>5, <1>7, <1>9, <1>10, <2>1, <3>1, Zenon
    <2>2. CASE r # cmd.receipt
      <3> DEFINE record == tenant.receipts[r]
      <3>1. r \in DOMAIN tenant.receipts /\ tenant'.receipts[r] = record
        BY <1>10, <2>2, Zenon
      <3>2. /\ record.receipt = r
            /\ record.key \in DOMAIN tenant.transcripts
            /\ record.seq \in 1..Len(tenant.transcripts[record.key].records)
            /\ tenant.transcripts[record.key].records[record.seq] = record
        BY <3>1, Zenon DEF TenantInv, ReceiptsAreStored
      <3> HIDE DEF record
      <3>3. /\ record.seq \in 1..Len(tenant'.transcripts[record.key].records)
            /\ tenant'.transcripts[record.key].records[record.seq] = record
        <4>1. CASE record.key = cmd.key
          <5>1. record.seq \in 1..Len(old) /\ old[record.seq] = record
            BY <3>2, <4>1, Zenon DEF old
          <5>2. record.seq \in 1..cmd.seq
            BY <1>2, <1>6, <5>1
          <5> QED BY <1>7, <1>9, <4>1, <5>1, <5>2, Zenon
        <4>2. CASE record.key # cmd.key
          BY <1>9, <3>2, <4>2, Zenon
        <4> QED BY <4>1, <4>2, Zenon
      <3> QED BY <1>9, <3>1, <3>2, <3>3, Zenon
    <2> QED BY <2>1, <2>2, Zenon
  <1> QED BY <1>4, <1>9, <1>11, <1>12, Zenon DEF TenantInv

\* Signing a record is AttachSignature of the store, on the record the index
\* of receipts names.
LEMMA SignatureLands ==
    ASSUME IInv, TenantInv, NEW cmd \in SignatureAttached, Acceptable(cmd),
           tenant' = Apply(tenant, cmd)
    PROVE  Store!Next /\ TenantInv'
  <1>1. /\ cmd.kind = "signature_attached" /\ cmd.key \in Key /\ cmd.receipt \in Receipt
        /\ cmd.body \in Body /\ cmd.signature \in Signature
    BY Zenon DEF SignatureAttached
  <1> DEFINE record == tenant.receipts[cmd.receipt]
             signed == Signed(record, cmd)
             old == tenant.transcripts[cmd.key].records
             new == [old EXCEPT ![record.seq] = signed]
  <1>2. /\ HasReceipt(tenant, cmd)
        /\ record.signature = {}
        /\ tenant'.channelURIs = tenant.channelURIs
        /\ tenant'.transcripts
             = [tenant.transcripts EXCEPT ![cmd.key].records[signed.seq] = signed]
        /\ tenant'.events = [tenant.events EXCEPT ![EventKey(signed)] = signed]
        /\ tenant'.receipts = [tenant.receipts EXCEPT ![cmd.receipt] = signed]
    <2>1. StateShape /\ tenant.ok = TRUE
      BY Zenon DEF IInv
    <2> QED BY <1>1, <2>1, SignatureFields, Zenon
  <1>3. /\ cmd.receipt \in DOMAIN tenant.receipts
        /\ record.receipt = cmd.receipt /\ record.key = cmd.key /\ record.body = cmd.body
        /\ cmd.key \in DOMAIN tenant.transcripts
        /\ record.seq \in 1..Len(old)
        /\ old[record.seq] = record
    BY <1>2, Zenon DEF HasReceipt, TenantInv, ReceiptsAreStored
  <1>4. old \in Seq(StoredRecord) /\ Len(old) \in Nat
    BY <1>3, RecordsTyped, Zenon DEF TenantInv
  <1>5. record \in StoredRecord
    BY <1>3, <1>4
  <1>6. /\ signed \in StoredRecord /\ signed.key = record.key /\ signed.seq = record.seq
        /\ signed.receipt = record.receipt /\ signed.event = record.event
        /\ signed = [record EXCEPT !.signature = {cmd.signature}]
    BY <1>1, <1>5, Zenon DEF Signed, StoredRecord
  <1>7. \A j \in 1..record.seq - 1 : old[j].receipt # cmd.receipt
    <2> SUFFICES ASSUME NEW j \in 1..record.seq - 1, old[j].receipt = cmd.receipt
                 PROVE  FALSE
      BY Zenon
    <2>1. j \in 1..Len(old) /\ j # record.seq
      BY <1>3, <1>4
    <2>2. old[j].seq = j /\ tenant.receipts[old[j].receipt] = old[j]
      BY <1>3, <2>1, Zenon DEF TenantInv, RecordsAreIndexed
    <2> QED BY <2>1, <2>2, Zenon
  <1>8. tenant'.events = [tenant.events EXCEPT ![<<ChannelId(cmd.key), record.event>>] = signed]
    BY <1>2, <1>3, <1>6, Zenon DEF EventKey
  <1>9. tenant'.transcripts = [tenant.transcripts EXCEPT ![cmd.key].records[record.seq] = signed]
    BY <1>2, <1>6, Zenon
  <1>10. record.seq \in DOMAIN old
    BY <1>3, <1>4
  <1>11. Store!AttachSignature(cmd.key, cmd.receipt, cmd.body, cmd.signature)
    <2> HIDE DEF record, signed
    <2>1. /\ old[record.seq].receipt = cmd.receipt
          /\ old[record.seq].body = cmd.body
          /\ old[record.seq].signature = {}
          /\ [old[record.seq] EXCEPT !.signature = {cmd.signature}] = signed
          /\ <<Store!ChannelId(cmd.key), old[record.seq].event>>
               = <<ChannelId(cmd.key), record.event>>
      BY <1>2, <1>3, <1>6, Zenon DEF Store!ChannelId, ChannelId
    <2> QED BY <1>2, <1>3, <1>7, <1>8, <1>9, <1>10, <2>1, Zenon DEF Store!AttachSignature
  <1>12. Store!Next
    BY <1>1, <1>11, Zenon DEF Store!Next
  <1> HIDE DEF record, signed
  <1>13. /\ new \in Seq(StoredRecord)
         /\ Len(new) = Len(old)
         /\ \A i \in 1..Len(old) : i # record.seq => new[i] = old[i]
         /\ new[record.seq] = signed
    BY <1>3, <1>4, <1>6
  <1>14. tenant'.transcripts = [tenant.transcripts EXCEPT ![cmd.key].records = new]
    BY <1>9, Zenon
  <1> HIDE DEF new
  <1>15. /\ TranscriptsTyped'
         /\ DOMAIN tenant'.transcripts = DOMAIN tenant.transcripts
         /\ tenant'.transcripts[cmd.key].records = new
         /\ \A k \in DOMAIN tenant.transcripts :
                k # cmd.key => tenant'.transcripts[k] = tenant.transcripts[k]
    BY <1>3, <1>13, <1>14, RecordsReplaced, Zenon DEF TenantInv
  <1>16. /\ DOMAIN tenant'.receipts = DOMAIN tenant.receipts
         /\ tenant'.receipts[cmd.receipt] = signed
         /\ \A r \in DOMAIN tenant.receipts :
                r # cmd.receipt => tenant'.receipts[r] = tenant.receipts[r]
    BY <1>2, <1>3, Zenon
  <1>17. RecordsAreIndexed'
    <2> SUFFICES ASSUME NEW k \in DOMAIN tenant'.transcripts,
                        NEW i \in 1..Len(tenant'.transcripts[k].records)
                 PROVE  LET r == tenant'.transcripts[k].records[i]
                        IN /\ r.key = k
                           /\ r.seq = i
                           /\ r.receipt \in DOMAIN tenant'.receipts
                           /\ tenant'.receipts[r.receipt] = r
      BY Zenon DEF RecordsAreIndexed
    <2>1. CASE k = cmd.key /\ i = record.seq
      <3>1. tenant'.transcripts[k].records[i] = signed
        BY <1>13, <1>15, <2>1, Zenon
      <3>2. /\ signed.key = k /\ signed.seq = i
            /\ signed.receipt \in DOMAIN tenant'.receipts
            /\ tenant'.receipts[signed.receipt] = signed
        BY <1>3, <1>6, <1>16, <2>1, Zenon
      <3> QED BY <3>1, <3>2, Zenon
    <2>2. CASE ~(k = cmd.key /\ i = record.seq)
      <3> DEFINE r == tenant.transcripts[k].records[i]
      <3>1. /\ k \in DOMAIN tenant.transcripts
            /\ i \in 1..Len(tenant.transcripts[k].records)
            /\ tenant'.transcripts[k].records[i] = r
        <4>1. CASE k = cmd.key
          BY <1>13, <1>15, <2>2, <4>1, Zenon
        <4>2. CASE k # cmd.key
          BY <1>15, <4>2, Zenon
        <4> QED BY <4>1, <4>2, Zenon
      <3>2. /\ r.key = k
            /\ r.seq = i
            /\ r.receipt \in DOMAIN tenant.receipts
            /\ tenant.receipts[r.receipt] = r
        BY <3>1, Zenon DEF TenantInv, RecordsAreIndexed
      <3> HIDE DEF r
      <3>3. r.receipt # cmd.receipt
        BY <1>3, <2>2, <3>2, Zenon DEF record
      <3> QED BY <1>16, <3>1, <3>2, <3>3, Zenon
    <2> QED BY <2>1, <2>2, Zenon
  <1>18. ReceiptsAreStored'
    <2> SUFFICES ASSUME NEW r \in DOMAIN tenant'.receipts
                 PROVE  LET x == tenant'.receipts[r]
                        IN /\ x.receipt = r
                           /\ x.key \in DOMAIN tenant'.transcripts
                           /\ x.seq \in 1..Len(tenant'.transcripts[x.key].records)
                           /\ tenant'.transcripts[x.key].records[x.seq] = x
      BY Zenon DEF ReceiptsAreStored
    <2>1. CASE r = cmd.receipt
      <3>1. tenant'.receipts[r] = signed
        BY <1>16, <2>1, Zenon
      <3>2. /\ signed.receipt = r
            /\ signed.key \in DOMAIN tenant'.transcripts
            /\ signed.seq \in 1..Len(tenant'.transcripts[signed.key].records)
            /\ tenant'.transcripts[signed.key].records[signed.seq] = signed
        BY <1>3, <1>6, <1>13, <1>15, <2>1, Zenon
      <3> QED BY <3>1, <3>2, Zenon
    <2>2. CASE r # cmd.receipt
      <3> DEFINE x == tenant.receipts[r]
      <3>1. r \in DOMAIN tenant.receipts /\ tenant'.receipts[r] = x
        BY <1>16, <2>2, Zenon
      <3>2. /\ x.receipt = r
            /\ x.key \in DOMAIN tenant.transcripts
            /\ x.seq \in 1..Len(tenant.transcripts[x.key].records)
            /\ tenant.transcripts[x.key].records[x.seq] = x
        BY <3>1, Zenon DEF TenantInv, ReceiptsAreStored
      <3> HIDE DEF x
      <3>3. /\ x.seq \in 1..Len(tenant'.transcripts[x.key].records)
            /\ tenant'.transcripts[x.key].records[x.seq] = x
        <4>1. CASE x.key = cmd.key
          <5>1. x.seq # record.seq
            BY <1>3, <2>2, <3>2, <4>1, Zenon
          <5> QED BY <1>13, <1>15, <3>2, <4>1, <5>1, Zenon
        <4>2. CASE x.key # cmd.key
          BY <1>15, <3>2, <4>2, Zenon
        <4> QED BY <4>1, <4>2, Zenon
      <3> QED BY <1>15, <3>1, <3>2, <3>3, Zenon
    <2> QED BY <2>1, <2>2, Zenon
  <1> QED BY <1>12, <1>15, <1>17, <1>18, Zenon DEF TenantInv

\* Whatever lands is a step of the store.
LEMMA LandRefines ==
    ASSUME IInv, TenantInv, NEW cmd \in Command, Acceptable(cmd), NEW expected,
           Land(expected, cmd)
    PROVE  Store!Next /\ TenantInv'
  <1>1. tenant' = Apply(tenant, cmd)
    BY Zenon DEF Land
  <1>2. CASE cmd \in ChannelCreated
    BY <1>1, <1>2, ChannelLands, Zenon
  <1>3. CASE cmd \in SignatureAttached
    BY <1>1, <1>3, SignatureLands, Zenon
  <1>4. CASE cmd.kind = "record_appended"
    BY <1>1, <1>4, RecordLands, Zenon
  <1> QED BY <1>2, <1>3, <1>4, Zenon DEF Command

-----------------------------------------------------------------------------
(* The commands. *)

\* An operation publishes a command of the log.
LEMMA DecisionIsCommand ==
    ASSUME TranscriptsTyped, NEW op \in Operation, Decide(tenant, op).outcome = "publish"
    PROVE  Decide(tenant, op).cmd \in Command
  <1>1. CASE op.kind = "channel_created"
    <2>1. Decide(tenant, op) = DecideCreate(tenant, op)
      BY <1>1, Zenon DEF Decide
    <2>2. Decide(tenant, op).cmd = op
      BY <2>1 DEF DecideCreate, Publish, Created, Refused
    <2>3. op \in ChannelCreated
      BY <1>1, OperationAssumption, Zenon DEF ChannelCreated, RecordAppended, SignatureAttached
    <2> QED BY <2>2, <2>3, Zenon DEF Command
  <1>2. CASE op.kind = "record_appended"
    <2> DEFINE seq == Len(tenant.transcripts[op.key].records) + 1
    <2>1. Decide(tenant, op) = DecideAppend(tenant, op)
      BY <1>2, Zenon DEF Decide
    <2>2. /\ op.key \in DOMAIN tenant.transcripts
          /\ DecideAppend(tenant, op) = PublishRecord(tenant, op)
      BY <2>1 DEF DecideAppend, Refused, Answer
    <2>3. Decide(tenant, op).cmd = RecordCommand(op, seq)
      BY <2>1, <2>2 DEF PublishRecord, Publish, Refused
    <2>4. seq \in Nat \ {0}
      <3>1. Len(tenant.transcripts[op.key].records) \in Nat
        BY <2>2, RecordsTyped, Zenon
      <3> QED BY <3>1
    <2>5. /\ op.kind = "record_appended" /\ op.key \in Key /\ op.event \in Event
          /\ op.body \in Body /\ op.receipt \in Receipt
      BY <1>2, OperationAssumption, Zenon DEF ChannelCreated, RecordAppended, SignatureAttached
    <2> HIDE DEF seq
    <2> QED BY <2>3, <2>4, <2>5 DEF Command, RecordCommand
  <1>3. CASE op.kind = "signature_attached"
    <2>1. Decide(tenant, op) = DecideAttach(tenant, op)
      BY <1>3, Zenon DEF Decide
    <2>2. Decide(tenant, op).cmd = op
      BY <2>1 DEF DecideAttach, Publish, Answer, Refused
    <2>3. op \in SignatureAttached
      BY <1>3, OperationAssumption, Zenon DEF ChannelCreated, RecordAppended, SignatureAttached
    <2> QED BY <2>2, <2>3, Zenon DEF Command
  <1> QED
    BY <1>1, <1>2, <1>3, OperationAssumption, Zenon
    DEF ChannelCreated, RecordAppended, SignatureAttached

\* So does a round of load and decide.
LEMMA RoundKeepsCommands ==
    ASSUME IInv, TenantInv, CommandsTyped, NEW c \in Client, NEW op \in Operation,
           NEW attempt, LoadAndDecide(c, op, attempt), UNCHANGED strays
    PROVE  CommandsTyped'
  <1> DEFINE decision == Decide(tenant, op)
  <1>1. \A d \in Client \ {c} : call'[d] = call[d]
    BY Zenon DEF IInv, LoadAndDecide
  <1>2. decision.outcome = "publish" => decision.cmd \in Command
    BY DecisionIsCommand, Zenon DEF TenantInv
  <1>3. call'[c] = IF decision.outcome # "publish" THEN Done(decision)
                   ELSE [at |-> "publish", op |-> op, attempt |-> attempt,
                         revision |-> revision, cmd |-> decision.cmd,
                         reply |-> decision.reply]
    BY Zenon DEF IInv, LoadAndDecide
  <1> HIDE DEF decision
  <1>4. call'[c].at = "publish" => call'[c].cmd \in Command
    BY <1>2, <1>3 DEF Done
  <1> QED BY <1>1, <1>4, Zenon DEF CommandsTyped

\* A step that publishes nothing new keeps the commands typed.
LEMMA OldCommandsStayTyped ==
    ASSUME CommandsTyped, strays' \subseteq Command,
           \A c \in Client : call'[c].at = "publish" => call'[c] = call[c]
    PROVE  CommandsTyped'
  BY Zenon DEF CommandsTyped

\* A step that leaves the reduced state alone is a stutter of the store.
LEMMA StoreStutters ==
    ASSUME TenantInv, UNCHANGED tenant
    PROVE  UNCHANGED Store!vars /\ TenantInv'
  <1>1. TranscriptsTyped'
    BY Zenon DEF TenantInv, TranscriptsTyped
  <1>2. RecordsAreIndexed'
    BY DEF TenantInv, RecordsAreIndexed
  <1>3. ReceiptsAreStored'
    BY Zenon DEF TenantInv, ReceiptsAreStored
  <1> QED BY <1>1, <1>2, <1>3, Zenon DEF TenantInv, Store!vars

-----------------------------------------------------------------------------
(* The refinement. *)

RefinementInv == TenantInv /\ CommandsTyped

\* The empty log reduces to the empty store.
THEOREM LogStartsEmpty == Init => RefinementInv /\ Store!Init
  <1> SUFFICES ASSUME Init PROVE RefinementInv /\ Store!Init
    BY Zenon
  <1>1. tenant = NewTenantState
    BY Zenon DEF Init
  <1>2. /\ tenant.transcripts = << >> /\ tenant.channelURIs = << >>
        /\ tenant.events = << >> /\ tenant.receipts = << >>
    BY <1>1, Zenon DEF NewTenantState
  <1>3. DOMAIN tenant.transcripts = {} /\ DOMAIN tenant.receipts = {}
    BY <1>2
  <1>4. TenantInv
    <2>1. tenant.transcripts = [k \in DOMAIN tenant.transcripts |-> tenant.transcripts[k]]
      BY <1>2
    <2> QED BY <1>3, <2>1, Zenon DEF TenantInv, TranscriptsTyped, RecordsAreIndexed,
               ReceiptsAreStored
  <1>5. CommandsTyped
    BY Zenon DEF Init, Idle, CommandsTyped
  <1> QED BY <1>2, <1>4, <1>5, Zenon DEF RefinementInv, Store!Init

\* Every step of a client or of the broker is an operation of the store or
\* leaves it alone: a command that lands takes effect at once.
THEOREM StepRefines ==
    IInv /\ RefinementInv /\ [Next]_vars => RefinementInv' /\ [Store!Next]_(Store!vars)
  <1> SUFFICES ASSUME IInv, TenantInv, CommandsTyped, [Next]_vars
               PROVE  TenantInv' /\ CommandsTyped' /\ [Store!Next]_(Store!vars)
    BY Zenon DEF RefinementInv
  <1> USE DEF RefinementInv
  <1>1. ASSUME NEW c \in Client, NEW op \in Operation, Begin(c, op)
        PROVE  TenantInv' /\ CommandsTyped' /\ [Store!Next]_(Store!vars)
    BY <1>1, StoreStutters, RoundKeepsCommands, Zenon DEF Begin
  <1>2. ASSUME NEW c \in Client, Reload(c)
        PROVE  TenantInv' /\ CommandsTyped' /\ [Store!Next]_(Store!vars)
    <2>1. call[c].op \in Operation
      BY <1>2, Zenon DEF Reload, IInv, CallsHaveOperations
    <2> QED BY <1>2, <2>1, StoreStutters, RoundKeepsCommands, Zenon DEF Reload
  <1>3. ASSUME NEW c \in Client, PublishAcknowledged(c)
        PROVE  TenantInv' /\ CommandsTyped' /\ [Store!Next]_(Store!vars)
    <2>1. Acceptable(call[c].cmd) /\ call[c].cmd \in Command
      BY <1>3, Zenon DEF PublishAcknowledged, Land, IInv, PendingIsAcceptable, CommandsTyped
    <2>2. \A d \in Client : call'[d].at = "publish" => call'[d] = call[d]
      BY <1>3, Zenon DEF PublishAcknowledged, IInv, Done
    <2>3. strays' \subseteq Command
      BY <1>3, Zenon DEF PublishAcknowledged, Land
    <2> QED BY <1>3, <2>1, <2>2, <2>3, LandRefines, OldCommandsStayTyped, Zenon
               DEF PublishAcknowledged
  <1>4. ASSUME NEW c \in Client, PublishRefused(c)
        PROVE  TenantInv' /\ CommandsTyped' /\ [Store!Next]_(Store!vars)
    <2>1. strays' \subseteq Command
      BY <1>4, Zenon DEF PublishRefused, CommandsTyped
    <2> QED BY <1>4, <2>1, StoreStutters, TryAgainCalls, OldCommandsStayTyped, Zenon
               DEF PublishRefused
  <1>5. ASSUME NEW c \in Client, AcknowledgementLost(c)
        PROVE  TenantInv' /\ CommandsTyped' /\ [Store!Next]_(Store!vars)
    <2>1. Acceptable(call[c].cmd) /\ call[c].cmd \in Command
      BY <1>5, Zenon DEF AcknowledgementLost, Land, IInv, PendingIsAcceptable, CommandsTyped
    <2>2. strays' \subseteq Command
      BY <1>5, Zenon DEF AcknowledgementLost, Land
    <2> QED
      BY <1>5, <2>1, <2>2, LandRefines, TryAgainCalls, OldCommandsStayTyped, Zenon
      DEF AcknowledgementLost
  <1>6. ASSUME NEW c \in Client, PublishDelayed(c)
        PROVE  TenantInv' /\ CommandsTyped' /\ [Store!Next]_(Store!vars)
    <2>1. strays' \subseteq Command
      BY <1>6, Zenon DEF PublishDelayed, CommandsTyped
    <2> QED BY <1>6, <2>1, StoreStutters, TryAgainCalls, OldCommandsStayTyped, Zenon
               DEF PublishDelayed
  <1>7. ASSUME NEW c \in Client, Abandon(c)
        PROVE  TenantInv' /\ CommandsTyped' /\ [Store!Next]_(Store!vars)
    <2>1. strays' \subseteq Command
      BY <1>7, Zenon DEF Abandon, CommandsTyped
    <2>2. \A d \in Client : call'[d].at = "publish" => call'[d] = call[d]
      BY <1>7, Zenon DEF Abandon, IInv, Failed
    <2> QED BY <1>7, <2>1, <2>2, StoreStutters, OldCommandsStayTyped, Zenon DEF Abandon
  <1>8. ASSUME NEW cmd \in strays, StrayLands(cmd)
        PROVE  TenantInv' /\ CommandsTyped' /\ [Store!Next]_(Store!vars)
    <2>1. Acceptable(cmd) /\ cmd \in Command
      BY Zenon DEF IInv, PendingIsAcceptable, CommandsTyped
    <2>2. strays' \subseteq Command /\ call' = call
      BY <1>8, Zenon DEF StrayLands, Land
    <2> QED BY <1>8, <2>1, <2>2, LandRefines, OldCommandsStayTyped, Zenon DEF StrayLands
  <1>9. ASSUME UNCHANGED vars
        PROVE  TenantInv' /\ CommandsTyped' /\ [Store!Next]_(Store!vars)
    BY <1>9, StoreStutters, Zenon DEF vars, CommandsTyped
  <1> QED BY <1>1, <1>2, <1>3, <1>4, <1>5, <1>6, <1>7, <1>8, <1>9, Zenon DEF Next

\* The JetStream relay adapter keeps the contract of the in-memory store:
\* every command on the subject takes effect as one atomic operation of it,
\* whatever is retried, refused, lost or delayed.
THEOREM LogImplementsStore == Spec => ImplementsTranscriptStore
  <1>1. Spec => []IInv
    BY StepPreserves, InitHolds, PTL DEF Spec
  <1> QED BY <1>1, LogStartsEmpty, StepRefines, PTL DEF Spec, ImplementsTranscriptStore, Store!Spec

(***************************************************************************)
(* The relay process                                                       *)
(***************************************************************************)
\* The registry is closed at the end of Run only, when the serving goroutine
\* is gone; from the end of Shutdown on no request arrives.
RunInv ==
  /\ runtime \in Run
  /\ runtime.at \in {"new", "probe", "close_unserved"} => runtime.serve = "none"
  /\ runtime.at = "close" => runtime.serve = "returned"
  /\ runtime.at = "done" => runtime.serve \in {"none", "returned"}
  /\ ~runtime.registry => runtime.at \in {"close", "close_unserved", "done"}
  /\ runtime.at \notin {"select", "shutdown"} => Busy = {} \/ runtime.timeout

\* closed is set by finish alone, and the channel closed after it.  Whoever of
\* finish and Subscribe comes second sees the other: finish stops what was
\* active, Subscribe what finish found closed.
Released(f) ==
  /\ f.closed <=> f.fin \in {"stopping", "closing", "done"}
  /\ f.updates = (IF f.fin = "done" THEN "closed" ELSE "open")
  /\ f.setup = "none" => ~f.consuming /\ f.fin = "none"
  /\ f.setup = "returned" /\ f.fin \in {"closing", "done"} => ~f.consuming
  /\ f.setup = "returned" /\ f.fin = "stopping" /\ ~f.active => ~f.consuming

\* The handler subscribes once, and the reader runs after it.
Subscribed(x) ==
  /\ handler[x] \in {"none", "register", "check", "subscribe"} =>
       feed[x].setup = "none" /\ reader[x] = "none"
  /\ handler[x] = "consume" => feed[x].setup = "consuming" /\ reader[x] = "none"
  /\ reader[x] # "none" => source = "live" \/ feed[x].setup = "returned"

StreamTypes ==
  /\ handler \in [Stream -> {"none", "register", "check", "subscribe", "consume", "loop",
                             "returned"}]
  /\ feed \in [Stream -> Feed]
  /\ reader \in [Stream -> {"none", "run", "unsubscribe", "end"}]

StreamInv == StreamTypes /\ \A x \in Stream : Released(feed[x]) /\ Subscribed(x)

ProcessInv == RunInv /\ StreamInv

\* A step of the runtime that leaves the streams alone keeps what it keeps of Run.
LEMMA RunMoves ==
  ASSUME ProcessInv, UNCHANGED <<source, handler, feed, reader>>, RunInv'
  PROVE  ProcessInv'
  BY Zenon DEF ProcessInv, StreamInv, StreamTypes, Subscribed

\* The streams other than x stay what they are.
OthersStay(x) ==
  \A y \in Stream \ {x} :
    handler'[y] = handler[y] /\ feed'[y] = feed[y] /\ reader'[y] = reader[y]

\* A step of the stream x that Run does not notice.
LEMMA StreamMoves ==
  ASSUME ProcessInv, runtime' = runtime, source' = source, NEW x \in Stream,
         StreamTypes', OthersStay(x), Released(feed'[x]), Subscribed(x)',
         handler'[x] = "returned" \/ x \in Busy \/ Accepting \/ handler'[x] = handler[x]
  PROVE  ProcessInv'
<1>1. StreamInv'
  <2>1. ASSUME NEW y \in Stream, y # x  PROVE Released(feed'[y]) /\ Subscribed(y)'
    BY <2>1, Zenon DEF ProcessInv, StreamInv, Subscribed, OthersStay
  <2>. QED
    BY <2>1, Zenon DEF StreamInv
<1>2. runtime.at \notin {"select", "shutdown"} => Busy' = {} \/ runtime.timeout
  <2>1. SUFFICES ASSUME runtime.at \notin {"select", "shutdown"}, Busy = {}  PROVE Busy' = {}
    BY Zenon DEF ProcessInv, RunInv
  <2>2. handler'[x] = "returned" \/ handler'[x] = handler[x]
    BY <2>1, Zenon DEF Accepting
  <2>. QED
    BY <2>1, <2>2, Zenon DEF Busy, OthersStay
<1>. QED
  BY <1>1, <1>2, Zenon DEF ProcessInv, RunInv

\* A step that leaves Run and the streams alone.
LEMMA QuietKeeps ==
  ASSUME ProcessInv, UNCHANGED <<source, runtime, handler, feed, reader>>
  PROVE  ProcessInv'
<1>1. Busy' = Busy
  BY Zenon DEF Busy
<1>. QED
  BY <1>1, RunMoves, Zenon DEF ProcessInv, RunInv

\* A step of Run and its serving goroutine.
LEMMA RunKeeps ==
  ASSUME ProcessInv,
         Start \/ ServeStep \/ ServeFails \/ ParentCanceled \/ RunStep
  PROVE  ProcessInv'
<1>. /\ RunInv /\ UNCHANGED <<source, handler, feed, reader>> /\ Busy' = Busy
  BY Zenon DEF ProcessInv, Busy, Start, ServeStep, ServeFails, ParentCanceled, RunStep, Probe,
     Drain,
         Shutdown, Await, CloseRegistry, Finished, RunFrame, registryVars, streamVars
<1>1. CASE Start
  BY <1>1, RunMoves, Zenon DEF RunInv, Run, Start
<1>2. CASE ServeStep
  BY <1>2, RunMoves, Zenon DEF RunInv, Run, ServeStep
<1>3. CASE ServeFails
  BY <1>3, RunMoves, Zenon DEF RunInv, Run, ServeFails
<1>4. CASE ParentCanceled
  BY <1>4, RunMoves, Zenon DEF RunInv, Run, ParentCanceled
<1>5. CASE Probe
  BY <1>5, RunMoves, Zenon DEF RunInv, Run, Probe
<1>6. CASE Drain
  BY <1>6, RunMoves, Zenon DEF RunInv, Run, Drain
<1>7. CASE Shutdown
  BY <1>7, RunMoves, Zenon DEF RunInv, Run, Shutdown
<1>8. CASE Await
  BY <1>8, RunMoves, Zenon DEF RunInv, Run, Await
<1>9. CASE CloseRegistry
  BY <1>9, RunMoves, Zenon DEF RunInv, Run, CloseRegistry
<1>10. CASE Finished
  BY <1>10, RunMoves, Zenon DEF RunInv, Run, Finished
<1>. QED
  BY <1>1, <1>2, <1>3, <1>4, <1>5, <1>6, <1>7, <1>8, <1>9, <1>10, Zenon DEF RunStep

\* A step of the handler of x that opens no subscription.
LEMMA HandlerKeeps ==
  ASSUME ProcessInv, UNCHANGED <<source, runtime, feed, reader>>, NEW x \in Stream, NEW at,
         Goto(x, at),
         \/ handler[x] = "none" /\ at = "register" /\ Accepting
         \/ handler[x] = "register" /\ at = "check"
         \/ handler[x] = "check" /\ at = "subscribe"
         \/ at = "returned"
  PROVE  ProcessInv'
<1>. /\ StreamTypes /\ Released(feed[x]) /\ Subscribed(x)
     /\ handler' = [handler EXCEPT ![x] = at] /\ feed' = feed /\ reader' = reader
  BY Zenon DEF ProcessInv, StreamInv, Goto
<1>1. StreamTypes' /\ OthersStay(x) /\ handler'[x] = at
  BY Zenon DEF StreamTypes, OthersStay
<1>2. at = "returned" \/ x \in Busy \/ Accepting
  BY Zenon DEF Busy
<1>3. Subscribed(x)'
  BY <1>1, Zenon DEF Subscribed
<1>. QED
  BY <1>1, <1>2, <1>3, StreamMoves, Zenon

\* Subscribe, and the return of Consume.
LEMMA SubscribeKeeps ==
  ASSUME ProcessInv, NEW x \in Stream, Subscribe(x) \/ Consumed(x)
  PROVE  ProcessInv'
<1>. /\ runtime' = runtime /\ source' = source /\ x \in Busy
     /\ StreamTypes /\ feed[x] \in Feed /\ Released(feed[x]) /\ Subscribed(x)
  BY Zenon DEF ProcessInv, StreamInv, StreamTypes, Subscribe, Consumed, registryVars, Busy
<1>1. ASSUME handler[x] = "subscribe", Goto(x, "returned"), UNCHANGED <<feed, reader>>
      PROVE  ProcessInv'
  BY <1>1, HandlerKeeps, Zenon
<1>2. ASSUME handler[x] = "subscribe", source = "live", Goto(x, "loop"), feed' = feed,
             reader' = [reader EXCEPT ![x] = "run"]
      PROVE  ProcessInv'
  <2>1. StreamTypes' /\ OthersStay(x) /\ handler'[x] = "loop"
    BY <1>2, Zenon DEF StreamTypes, OthersStay, Goto
  <2>2. Subscribed(x)'
    BY <1>2, <2>1, Zenon DEF Subscribed
  <2>. QED
    BY <1>2, <2>1, <2>2, StreamMoves, Zenon
<1>3. ASSUME handler[x] = "subscribe", Goto(x, "consume"), reader' = reader,
             feed' = [feed EXCEPT ![x].setup = "consuming", ![x].consuming = TRUE]
      PROVE  ProcessInv'
  <2>1. feed'[x] = [feed[x] EXCEPT !.setup = "consuming", !.consuming = TRUE]
    BY <1>3, Zenon DEF StreamTypes
  <2>2. StreamTypes' /\ OthersStay(x) /\ handler'[x] = "consume"
    <3>1. feed'[x] \in Feed
      BY <2>1, Zenon DEF Feed
    <3>2. feed' = [feed EXCEPT ![x] = feed'[x]]
      BY <1>3, <2>1, Zenon DEF StreamTypes
    <3>. QED
      BY <1>3, <3>1, <3>2, Zenon DEF StreamTypes, OthersStay, Goto
  <2>3. Released(feed'[x]) /\ feed'[x].setup = "consuming"
    <3>1. feed[x].setup = "none"
      BY <1>3, Zenon DEF Subscribed
    <3>. QED
      BY <2>1, <3>1, Zenon DEF Released, Feed
  <2>4. Subscribed(x)'
    BY <1>3, <2>2, <2>3, Zenon DEF Subscribed
  <2>. QED
    BY <2>2, <2>3, <2>4, StreamMoves, Zenon
<1>4. CASE Consumed(x)
  <2>1. feed'[x] = [feed[x] EXCEPT !.setup = "returned", !.consuming = @ /\ ~feed[x].closed]
    BY <1>4, Zenon DEF Consumed, StreamTypes
  <2>2. StreamTypes' /\ OthersStay(x) /\ handler'[x] = "loop"
    BY <1>4, Zenon DEF Consumed, StreamTypes, OthersStay, Goto, Feed
  <2>3. Released(feed'[x]) /\ feed'[x].setup = "returned"
    BY <2>1, Zenon DEF Released, Feed
  <2>4. Subscribed(x)'
    BY <2>2, <2>3, Zenon DEF Subscribed
  <2>. QED
    BY <2>2, <2>3, <2>4, StreamMoves, Zenon
<1>. QED
  BY <1>1, <1>2, <1>3, <1>4, Zenon DEF Subscribe

\* A step of the subscription of x that leaves its set-up alone, and of its reader.
LEMMA FeedMoves ==
  ASSUME ProcessInv, NEW x \in Stream, NEW f \in Feed,
         runtime' = runtime, source' = source, handler' = handler,
         feed' = [feed EXCEPT ![x] = f], Released(f), f.setup = feed[x].setup,
         \/ reader' = reader
         \/ /\ reader[x] # "none"
            /\ \E rd \in {"unsubscribe", "end"} : reader' = [reader EXCEPT ![x] = rd]
  PROVE  ProcessInv'
<1>. StreamTypes /\ Subscribed(x)
  BY Zenon DEF ProcessInv, StreamInv
<1>1. StreamTypes' /\ OthersStay(x) /\ feed'[x] = f
  BY Zenon DEF StreamTypes, OthersStay
<1>2. reader'[x] # "none" <=> reader[x] # "none"
  BY Zenon DEF StreamTypes
<1>3. Subscribed(x)'
  BY <1>1, <1>2, Zenon DEF Subscribed
<1>. QED
  BY <1>1, <1>3, StreamMoves, Zenon

\* A step of the goroutines of the subscription of x.
LEMMA FeedKeeps ==
  ASSUME ProcessInv, NEW x \in Stream,
         Deliver(x) \/ ConsumeError(x) \/ ContextDone(x) \/ Finish(x)
  PROVE  ProcessInv'
<1>. /\ runtime' = runtime /\ source' = source /\ handler' = handler /\ reader' = reader
     /\ feed \in [Stream -> Feed] /\ feed[x] \in Feed /\ Released(feed[x])
  BY Zenon DEF ProcessInv, StreamInv, StreamTypes, Deliver, ConsumeError, ContextDone, Finish,
     registryVars
<1>1. CASE Deliver(x)
  <2>1. feed[x].updates = "open"
    BY <1>1, Zenon DEF Released, Deliver
  <2>2. feed' = [feed EXCEPT ![x] = feed[x]]
    BY <1>1, <2>1, Zenon DEF Deliver, Sent, Feed
  <2>. QED
    BY <2>2, FeedMoves, Zenon
<1>2. CASE ConsumeError(x) \/ ContextDone(x)
  <2>1. PICK f : f = [feed[x] EXCEPT !.fin = "asked"]
    BY Zenon
  <2>2. feed' = [feed EXCEPT ![x] = f]
    BY <1>2, <2>1, Zenon DEF ConsumeError, ContextDone
  <2>3. f \in Feed /\ Released(f) /\ f.setup = feed[x].setup
    BY <1>2, <2>1, Zenon DEF Released, ConsumeError, ContextDone, Feed
  <2>. QED
    BY <2>2, <2>3, FeedMoves, Zenon
<1>3. CASE Finish(x)
  <2>1. PICK f : /\ feed' = [feed EXCEPT ![x] = f]
                 /\ \/ /\ feed[x].fin = "asked"
                       /\ f = [feed[x] EXCEPT !.fin = "stopping", !.closed = TRUE,
                                              !.active = (feed[x].setup = "returned")]
                    \/ /\ feed[x].fin = "stopping"
                       /\ f = [feed[x] EXCEPT !.fin = "closing",
                                              !.consuming = feed[x].consuming /\ ~feed[x].active]
                    \/ /\ feed[x].fin = "closing"
                       /\ f = [feed[x] EXCEPT !.fin = "done", !.updates = "closed"]
    BY <1>3, Zenon DEF Finish
  <2>2. f \in Feed /\ Released(f) /\ f.setup = feed[x].setup
    BY <2>1, Zenon DEF Released, Feed
  <2>. QED
    BY <2>1, <2>2, FeedMoves, Zenon
<1>. QED
  BY <1>1, <1>2, <1>3, Zenon

\* A step of the goroutine that reads for x.
LEMMA ReaderKeeps ==
  ASSUME ProcessInv, NEW x \in Stream, Quit(x) \/ Unsubscribe(x)
  PROVE  ProcessInv'
<1>. /\ runtime' = runtime /\ source' = source /\ handler' = handler
     /\ feed \in [Stream -> Feed] /\ feed[x] \in Feed /\ Released(feed[x]) /\ Subscribed(x)
     /\ reader[x] # "none"
  BY Zenon DEF ProcessInv, StreamInv, StreamTypes, Quit, Unsubscribe, registryVars
<1>1. CASE Quit(x)
  <2>1. PICK f : f = [feed[x] EXCEPT !.fin = IF @ = "none" /\ source = "jetstream" THEN "asked" ELSE @]
    BY Zenon
  <2>2. feed' = [feed EXCEPT ![x] = f]
    BY <1>1, <2>1, Zenon DEF Quit
  <2>3. source = "jetstream" => feed[x].setup = "returned"
    BY Zenon DEF Subscribed
  <2>4. f \in Feed /\ Released(f) /\ f.setup = feed[x].setup
    BY <2>1, <2>3, Zenon DEF Released, Feed
  <2>. QED
    BY <1>1, <2>2, <2>4, FeedMoves, Zenon DEF Quit
<1>2. CASE Unsubscribe(x)
  <2>1. feed' = [feed EXCEPT ![x] = feed[x]]
    BY <1>2, Zenon DEF Unsubscribe
  <2>. QED
    BY <1>2, <2>1, FeedMoves, Zenon DEF Unsubscribe
<1>. QED
  BY <1>1, <1>2, Zenon

\* Every step of the process keeps the invariant.
LEMMA ProcessNextKeeps ==
  ASSUME ProcessInv, [ProcessNext]_processVars
  PROVE  ProcessInv'
<1>1. ASSUME NEW s \in Session, Activate(s) \/ NotifyRevoked(s)  PROVE ProcessInv'
  BY <1>1, QuietKeeps, Zenon DEF Activate, NotifyRevoked, streamVars
<1>2. ASSUME NEW s, NEW op, RevokeSession(s, op)  PROVE ProcessInv'
  BY <1>2, QuietKeeps, Zenon DEF RevokeSession, streamVars
<1>3. ASSUME LoopStep \/ Tick \/ UNCHANGED processVars  PROVE ProcessInv'
  BY <1>3, QuietKeeps, Zenon
     DEF LoopStep, Reset, Woken, TimerFires, NotifyExpired, Tick, processVars, registryVars,
         streamVars
<1>4. ASSUME NEW x \in Stream, Arrive(x) \/ HandlerStep(x) \/ StreamDrops(x)  PROVE ProcessInv'
  <2>1. CASE Arrive(x)
    BY <2>1, HandlerKeeps, Zenon DEF Arrive, registryVars
  <2>2. CASE Register(x)
    BY <2>2, HandlerKeeps, Zenon DEF Register
  <2>3. CASE Check(x)
    BY <2>3, HandlerKeeps, Zenon DEF Check
  <2>4. CASE StreamLoop(x) \/ StreamDrops(x)
    BY <2>4, HandlerKeeps, Zenon DEF StreamLoop, StreamDrops, Leave, registryVars
  <2>. QED
    BY <1>4, <2>1, <2>2, <2>3, <2>4, SubscribeKeeps, Zenon DEF HandlerStep
<1>5. ASSUME NEW x \in Stream, ReaderStep(x) \/ ReadFails(x)  PROVE ProcessInv'
  BY <1>5, ReaderKeeps, Zenon DEF ReaderStep, Read, ReadFails
<1>. QED
  BY <1>1, <1>2, <1>3, <1>4, <1>5, RunKeeps, FeedKeeps, Zenon DEF ProcessNext

\* What a process has started with.
LEMMA ProcessInitHolds == ProcessInit => ProcessInv
<1>. SUFFICES ASSUME ProcessInit  PROVE ProcessInv
  BY Zenon
<1>1. RunInv
  BY Zenon DEF ProcessInit, RunInv, Run, Busy
<1>2. NewFeed \in Feed /\ Released(NewFeed) /\ NewFeed.setup = "none"
  BY Zenon DEF NewFeed, Feed, Released
<1>3. StreamInv
  BY <1>2, Zenon DEF ProcessInit, StreamInv, StreamTypes, Subscribed
<1>. QED
  BY <1>1, <1>3, Zenon DEF ProcessInv

\* The invariant holds of every reachable state of the process.
THEOREM ProcessInvariant == ProcessSpec => []ProcessInv
  BY ProcessInitHolds, ProcessNextKeeps, PTL DEF ProcessSpec

\* The registry is closed only when no request is being handled, unless
\* Shutdown ran into its timeout, for any number of streams and sessions.
THEOREM RegistryOutlivesRequests == ProcessSpec => []ResourcesOutliveRequests
<1>1. ProcessInv => ResourcesOutliveRequests
  BY Zenon DEF ProcessInv, RunInv, ResourcesOutliveRequests
<1>. QED
  BY <1>1, ProcessInvariant, PTL

\* finish and Subscribe release the subscription between them, whatever ends
\* it, and nothing is sent on its closed channel (live.go).
THEOREM SubscriptionsAreReleased == ProcessSpec => []FeedIsReleased
<1>1. ProcessInv => FeedIsReleased
  BY Zenon DEF ProcessInv, StreamInv, Released, FeedIsReleased
<1>. QED
  BY <1>1, ProcessInvariant, PTL

\* The state Run ends with is final: the goroutine that announces readiness
\* has returned before.
THEOREM RunStateIsFinal == ProcessSpec => FinalStateStays
<1>1. ASSUME ProcessInv, [ProcessNext]_processVars, runtime.at = "done"
      PROVE  runtime'.state = runtime.state
  <2>1. ASSUME Start \/ ServeStep \/ ServeFails \/ ParentCanceled \/ RunStep
        PROVE  runtime'.state = runtime.state
    BY <1>1, <2>1, Zenon
       DEF ProcessInv, RunInv, Run, Start, ServeStep, ServeFails, ParentCanceled, RunStep, Probe,
           Drain, Shutdown, Await, CloseRegistry, Finished
  <2>2. \/ Start \/ ServeStep \/ ServeFails \/ ParentCanceled \/ RunStep
        \/ runtime' = runtime
    <3>1. ASSUME NEW s \in Session, Activate(s) \/ NotifyRevoked(s)  PROVE runtime' = runtime
      BY <3>1, Zenon DEF Activate, NotifyRevoked
    <3>2. ASSUME NEW s, NEW op, RevokeSession(s, op)  PROVE runtime' = runtime
      BY <3>2, Zenon DEF RevokeSession
    <3>3. ASSUME LoopStep \/ Tick \/ UNCHANGED processVars  PROVE runtime' = runtime
      BY <3>3, Zenon DEF LoopStep, Reset, Woken, TimerFires, NotifyExpired, Tick, processVars
    <3>4. ASSUME NEW x \in Stream,
                 \/ Arrive(x) \/ HandlerStep(x) \/ StreamDrops(x) \/ Deliver(x)
                 \/ ConsumeError(x) \/ ContextDone(x) \/ Finish(x) \/ ReaderStep(x)
                 \/ ReadFails(x)
          PROVE  runtime' = runtime
      BY <3>4, Zenon
         DEF Arrive, HandlerStep, Register, Check, Subscribe, Consumed, StreamLoop, StreamDrops,
             Leave, Deliver, ConsumeError, ContextDone, Finish, ReaderStep, Read, ReadFails, Quit,
             Unsubscribe
    <3>. QED
      BY <1>1, <3>1, <3>2, <3>3, <3>4, Zenon DEF ProcessNext
  <2>. QED
    BY <2>1, <2>2, Zenon
<1>2. ProcessInv /\ [ProcessNext]_processVars =>
        [runtime.at = "done" => runtime'.state = runtime.state]_processVars
  BY <1>1, Zenon
<1>. QED
  BY <1>2, ProcessInvariant, PTL DEF ProcessSpec, FinalStateStays

(***************************************************************************)
(* The transcript                                                          *)
(***************************************************************************)
\* A request has found or appended the record of its event, and answers with
\* the signature it saw on it.
ServeInv(q) ==
  q.pc # "append" =>
    /\ q.outcome # "none"
    /\ q.sequence \in 1..Len(records)
    /\ records[q.sequence].event = q.event /\ records[q.sequence].body = q.body
    /\ q.pc = "respond" => /\ q.signature # {}
                           /\ records[q.sequence].signature = q.signature

RequestInv == \A r \in Request : \A q \in request[r] : ServeInv(q)

\* The record x was read at place n: it is the one there, which may have been
\* signed since.
ReadAt(x, n) ==
  /\ n \in 1..Len(records)
  /\ x.signature # {} => x = records[n]

SignedPrefix(seen) == \A i \in 1..Len(seen) : seen[i].signature # {} /\ ReadAt(seen[i], i)

\* The stream sends what follows on what its client has seen.
FollowInv(V, Z) ==
  /\ V = {} => Z = {}
  /\ \A v \in V : SignedPrefix(v.seen)
  /\ \A v \in V, s \in Z : v.pc = "stream" /\ s.cursor = Len(v.seen)
  /\ \A s \in Z : \A i \in 1..Len(s.batch) : ReadAt(s.batch[i], s.cursor + i)

WatchInv == \A w \in Watcher : FollowInv(watch[w], stream[w])

TranscriptInv == TranscriptTypeOK /\ OneRecordPerEvent /\ ReceiptsAgree /\ RequestInv /\ WatchInv

\* What the store does to a transcript: records are added, and unsigned ones
\* signed.
Extends ==
  /\ Len(records) <= Len(records')
  /\ \A n \in 1..Len(records) :
       /\ records'[n].event = records[n].event /\ records'[n].body = records[n].body
       /\ records[n].signature # {} => records'[n] = records[n]

LEMMA ReadAtStays ==
  ASSUME records \in Seq(Record), records' \in Seq(Record), Extends, NEW x, NEW n, ReadAt(x, n)
  PROVE  ReadAt(x, n)'
<1>1. n \in 1..Len(records')
  BY DEF ReadAt, Extends
<1>. QED
  BY <1>1, Zenon DEF ReadAt, Extends

\* Watchers that do not move.
LEMMA WatchStays ==
  ASSUME TranscriptTypeOK, TranscriptTypeOK', Extends, WatchInv, watch' = watch,
         \/ stream' = stream
         \/ stream' = [w \in Watcher |-> {[s EXCEPT !.signal = TRUE] : s \in stream[w]}]
  PROVE  WatchInv'
<1>1. records \in Seq(Record) /\ records' \in Seq(Record)
  BY Zenon DEF TranscriptTypeOK
<1>2. SUFFICES ASSUME NEW w \in Watcher  PROVE FollowInv(watch[w], stream[w])'
  BY Zenon DEF WatchInv
<1>. FollowInv(watch[w], stream[w])
  BY Zenon DEF WatchInv
<1>3. ASSUME NEW v \in watch[w]  PROVE SignedPrefix(v.seen)'
  <2>1. SignedPrefix(v.seen)
    BY Zenon DEF FollowInv
  <2>. QED
    BY <1>1, <2>1, ReadAtStays, Zenon DEF SignedPrefix
<1>4. ASSUME NEW s \in stream'[w]
      PROVE  \E z \in stream[w] : s.cursor = z.cursor /\ s.batch = z.batch
  <2>1. CASE stream' = stream
    BY <2>1, Zenon
  <2>2. CASE stream' = [u \in Watcher |-> {[s_1 EXCEPT !.signal = TRUE] : s_1 \in stream[u]}]
    <3>1. PICK z \in stream[w] : s = [z EXCEPT !.signal = TRUE]
      BY <2>2, Zenon
    <3>2. z \in Streaming
      BY Zenon DEF TranscriptTypeOK
    <3>. QED
      BY <3>1, <3>2, Zenon DEF Streaming
  <2>. QED
    BY <2>1, <2>2, Zenon
<1>5. ASSUME NEW s \in stream'[w], NEW i \in 1..Len(s.batch)
      PROVE  ReadAt(s.batch[i], s.cursor + i)'
  <2>1. PICK z \in stream[w] : s.cursor = z.cursor /\ s.batch = z.batch
    BY <1>4, Zenon
  <2>2. ReadAt(s.batch[i], s.cursor + i)
    BY <2>1, Zenon DEF FollowInv
  <2>. QED
    BY <1>1, <2>2, ReadAtStays, Zenon
<1>. QED
  BY <1>3, <1>4, <1>5, Zenon DEF FollowInv

\* Receipts that were given stay true.
LEMMA ReceiptsStay ==
  ASSUME TranscriptTypeOK, TranscriptTypeOK', Extends, ReceiptsAgree, answered' = answered
  PROVE  ReceiptsAgree'
<1>1. ASSUME NEW a \in answered
      PROVE  /\ a.signature # {} /\ a.sequence \in 1..Len(records')
             /\ records'[a.sequence] = [event |-> a.event, body |-> a.body, signature |-> a.signature]
  <2>1. /\ a.signature # {} /\ a.sequence \in 1..Len(records)
        /\ records[a.sequence] = [event |-> a.event, body |-> a.body, signature |-> a.signature]
    BY Zenon DEF ReceiptsAgree
  <2>2. records'[a.sequence] = records[a.sequence]
    BY <2>1 DEF Extends
  <2>3. Len(records) \in Nat /\ Len(records') \in Nat
    BY DEF TranscriptTypeOK
  <2>. QED
    BY <2>1, <2>2, <2>3 DEF Extends
<1>. QED
  BY <1>1, Zenon DEF ReceiptsAgree

\* The request r moves to the states Q, at most one.
LEMMA RequestMoves ==
  ASSUME TranscriptTypeOK, records' \in Seq(Record), Extends, RequestInv, NEW r \in Request,
         NEW Q \in SUBSET Serving, request' = [request EXCEPT ![r] = Q],
         \A q \in Q : ServeInv(q)'
  PROVE  RequestInv' /\ request' \in [Request -> SUBSET Serving]
<1>1. request' \in [Request -> SUBSET Serving]
  BY Zenon DEF TranscriptTypeOK
<1>2. ASSUME NEW u \in Request, NEW q \in request'[u]  PROVE ServeInv(q)'
  <2>1. CASE u = r
    BY <2>1, Zenon DEF TranscriptTypeOK
  <2>2. CASE u # r
    <3>1. ServeInv(q)
      BY <2>2, Zenon DEF RequestInv, TranscriptTypeOK
    <3>2. Len(records) \in Nat /\ Len(records') \in Nat
      BY DEF TranscriptTypeOK
    <3>. QED
      BY <3>1, <3>2 DEF ServeInv, Extends
  <2>. QED
    BY <2>1, <2>2, Zenon
<1>. QED
  BY <1>1, <1>2, Zenon DEF RequestInv

\* A step of a request, of which the watchers notice the records at most.
LEMMA PublisherKeeps ==
  ASSUME TranscriptInv, records' \in Seq(Record), Extends, OneRecordPerEvent',
         UNCHANGED <<answered, watch, stream>>,
         NEW r \in Request, NEW Q \in SUBSET Serving, request' = [request EXCEPT ![r] = Q],
         \A q \in Q : ServeInv(q)'
  PROVE  TranscriptInv'
<1>1. RequestInv' /\ request' \in [Request -> SUBSET Serving]
  BY RequestMoves, Zenon DEF TranscriptInv
<1>2. TranscriptTypeOK'
  BY <1>1, Zenon DEF TranscriptInv, TranscriptTypeOK
<1>. QED
  BY <1>1, <1>2, ReceiptsStay, WatchStays, Zenon DEF TranscriptInv

\* A transaction that writes nothing.
LEMMA NothingWritten ==
  ASSUME TranscriptInv, records' = records
  PROVE  records' \in Seq(Record) /\ Extends /\ OneRecordPerEvent'
  BY DEF TranscriptInv, TranscriptTypeOK, Extends, OneRecordPerEvent

\* A request that fails or that finds the record of its event.
LEMMA FoundKeeps ==
  ASSUME TranscriptInv, NEW r \in Request, NEW q \in Serving, records' = records,
         UNCHANGED <<answered, watch, stream>>, Existing(r, q) \/ Fail(r)
  PROVE  TranscriptInv'
<1>1. CASE Fail(r)
  <2>1. {} \in SUBSET Serving /\ \A k \in {} : ServeInv(k)'
    BY Zenon
  <2>. QED
    BY <1>1, <2>1, NothingWritten, PublisherKeeps, Zenon DEF Fail
<1>2. ASSUME NEW n \in Find(q.event), records[n].body = q.body,
             NEW at \in {"sign", "respond"}, at = "respond" => records[n].signature # {},
             MoveTo(r, [q EXCEPT !.outcome = "duplicate", !.sequence = n,
                               !.signature = records[n].signature], at)
      PROVE  TranscriptInv'
  <2>1. PICK k : k = [q EXCEPT !.outcome = "duplicate", !.sequence = n,
                               !.signature = records[n].signature, !.pc = at]
    BY Zenon
  <2>2. /\ n \in 1..Len(records) /\ n \in Nat /\ records[n] \in Record
        /\ records[n].event = q.event /\ records[n].signature \in SUBSET Signature
    <3>1. n \in 1..Len(records) /\ records[n].event = q.event
      BY Zenon DEF Find
    <3>2. records \in Seq(Record)
      BY Zenon DEF TranscriptInv, TranscriptTypeOK
    <3>3. records[n] \in Record /\ n \in Nat
      BY <3>1, <3>2
    <3>. QED
      BY <3>1, <3>3, Zenon DEF Record
  <2>3. k \in Serving
    <3>1. k = [pc |-> at, event |-> q.event, body |-> q.body, outcome |-> "duplicate",
               sequence |-> n, signature |-> records[n].signature]
      BY <2>1, Zenon DEF Serving
    <3>. QED
      BY <2>2, <3>1, Zenon DEF Serving
  <2>4. ServeInv(k)'
    BY <1>2, <2>1, <2>2, Zenon DEF ServeInv, Serving
  <2>5. request' = [request EXCEPT ![r] = {k}]
    BY <1>2, <2>1, Zenon DEF MoveTo, Serving
  <2>. QED
    BY <2>3, <2>4, <2>5, NothingWritten, PublisherKeeps, Zenon
<1>. QED
  BY <1>1, <1>2, Zenon DEF Existing

\* Store.AppendChecked adds a record whose event is not on record.
LEMMA AppendKeeps ==
  ASSUME TranscriptInv, NEW r \in Request, NEW q \in Serving, Find(q.event) = {},
         AppendNew(r, q), UNCHANGED <<answered, watch, stream>>
  PROVE  TranscriptInv'
<1>1. PICK x : x = [event |-> q.event, body |-> q.body, signature |-> {}]
  BY Zenon
<1>2. x \in Record
  BY <1>1, Zenon DEF Record, Serving
<1>3. records \in Seq(Record) /\ Len(records) \in Nat /\ records' = Append(records, x)
  BY <1>1 DEF TranscriptInv, TranscriptTypeOK, AppendNew
<1>4. /\ records' \in Seq(Record) /\ Len(records') = Len(records) + 1
      /\ \A n \in 1..Len(records) : records'[n] = records[n]
      /\ records'[Len(records) + 1] = x
  BY <1>2, <1>3, AppendFacts
<1>5. Extends
  BY <1>3, <1>4 DEF Extends
<1>6. \A n \in 1..Len(records) : records[n].event # q.event
  BY Zenon DEF Find
<1>7. OneRecordPerEvent'
  <2>1. x.event = q.event
    BY <1>1, Zenon
  <2>2. ASSUME NEW m \in 1..Len(records'), NEW n \in 1..Len(records'),
               records'[m].event = records'[n].event
        PROVE  m = n
    <3>1. CASE m \in 1..Len(records) /\ n \in 1..Len(records)
      BY <1>4, <2>2, <3>1, Zenon DEF TranscriptInv, OneRecordPerEvent
    <3>2. CASE m = Len(records) + 1 /\ n \in 1..Len(records)
      BY <1>4, <1>6, <2>1, <2>2, <3>2, Zenon
    <3>3. CASE n = Len(records) + 1 /\ m \in 1..Len(records)
      BY <1>4, <1>6, <2>1, <2>2, <3>3, Zenon
    <3>. QED
      BY <1>3, <1>4, <3>1, <3>2, <3>3
  <2>. QED
    BY <2>2, Zenon DEF OneRecordPerEvent
<1>8. CASE Fail(r)
  <2>1. {} \in SUBSET Serving /\ \A k \in {} : ServeInv(k)'
    BY Zenon
  <2>. QED
    BY <1>4, <1>5, <1>7, <1>8, <2>1, PublisherKeeps, Zenon DEF Fail
<1>9. CASE MoveTo(r, [q EXCEPT !.outcome = "appended", !.sequence = Len(records) + 1], "sign")
  <2>1. PICK k : k = [pc |-> "sign", event |-> q.event, body |-> q.body, outcome |-> "appended",
                      sequence |-> Len(records) + 1, signature |-> q.signature]
    BY Zenon
  <2>2. k \in Serving
    BY <1>3, <2>1 DEF Serving
  <2>3. ServeInv(k)'
    BY <1>1, <1>3, <1>4, <2>1 DEF ServeInv
  <2>4. request' = [request EXCEPT ![r] = {k}]
    <3>1. PICK j : j = [q EXCEPT !.outcome = "appended", !.sequence = Len(records) + 1]
      BY Zenon
    <3>2. j = [pc |-> q.pc, event |-> q.event, body |-> q.body, outcome |-> "appended",
               sequence |-> Len(records) + 1, signature |-> q.signature]
      BY <3>1, Zenon DEF Serving
    <3>3. PICK i : i = [j EXCEPT !.pc = "sign"]
      BY Zenon
    <3>4. i = [pc |-> "sign", event |-> q.event, body |-> q.body, outcome |-> "appended",
               sequence |-> Len(records) + 1, signature |-> q.signature]
      BY <3>2, <3>3, Zenon
    <3>. QED
      BY <1>9, <2>1, <3>1, <3>3, <3>4, Zenon DEF MoveTo
  <2>. QED
    BY <1>4, <1>5, <1>7, <2>2, <2>3, <2>4, PublisherKeeps, Zenon
<1>. QED
  BY <1>8, <1>9, Zenon DEF AppendNew

LEMMA SignedRecord ==
  ASSUME NEW x \in Record, NEW S
  PROVE  [x EXCEPT !.signature = S] = [event |-> x.event, body |-> x.body, signature |-> S]
  BY DEF Record

\* Store.AttachSignature signs a record that is not signed, or is with s.
LEMMA AttachFacts ==
  ASSUME TranscriptInv, NEW n \in 1..Len(records), NEW s \in Signature, AttachSignature(n, s)
  PROVE  /\ records' \in Seq(Record) /\ Extends /\ OneRecordPerEvent' /\ Len(records') = Len(records)
         /\ records'[n].event = records[n].event /\ records'[n].body = records[n].body
         /\ records'[n].signature = {s}
<1>1. records \in Seq(Record) /\ Len(records) \in Nat /\ records[n] \in Record
  BY DEF TranscriptInv, TranscriptTypeOK
<1>2. PICK x : x = [event |-> records[n].event, body |-> records[n].body, signature |-> {s}]
  BY Zenon
<1>3. x \in Record
  BY <1>1, <1>2, Zenon DEF Record
<1>4. records' = [records EXCEPT ![n] = x]
  <2>1. x = [records[n] EXCEPT !.signature = {s}]
    BY <1>1, <1>2, SignedRecord, Zenon
  <2>. QED
    BY <2>1, Zenon DEF AttachSignature
<1>5. /\ records' \in Seq(Record) /\ Len(records') = Len(records) /\ records'[n] = x
      /\ \A m \in 1..Len(records) : m # n => records'[m] = records[m]
  BY <1>1, <1>3, <1>4
<1>6. records[n].signature # {} => x = records[n]
  BY <1>1, <1>2, Zenon DEF AttachSignature, Record
<1>7. Extends
  BY <1>1, <1>2, <1>5, <1>6 DEF Extends
<1>8. OneRecordPerEvent'
  BY <1>5, <1>7, Zenon DEF Extends, TranscriptInv, OneRecordPerEvent
<1>. QED
  BY <1>2, <1>5, <1>7, <1>8

LEMMA SignKeeps ==
  ASSUME TranscriptInv, NEW r \in Request, NEW q \in request[r], EnsureSigned(r, q)
  PROVE  TranscriptInv'
<1>1. q \in Serving /\ ServeInv(q) /\ q.pc = "sign" /\ UNCHANGED <<answered, watch, stream>>
  BY Zenon DEF TranscriptInv, TranscriptTypeOK, RequestInv, EnsureSigned, readers
<1>2. CASE Fail(r) /\ UNCHANGED records
  BY <1>1, <1>2, FoundKeeps, Zenon
<1>3. ASSUME NEW s \in Signs[q.event], AttachSignature(q.sequence, s),
             MoveTo(r, [q EXCEPT !.signature = {s}], "respond") \/ Fail(r)
      PROVE  TranscriptInv'
  <2>1. q.sequence \in 1..Len(records) /\ s \in Signature
    BY <1>1, TranscriptAssumption, Zenon DEF ServeInv, Serving
  <2>2. /\ records' \in Seq(Record) /\ Extends /\ OneRecordPerEvent' /\ Len(records') = Len(records)
        /\ records'[q.sequence].event = records[q.sequence].event
        /\ records'[q.sequence].body = records[q.sequence].body
        /\ records'[q.sequence].signature = {s}
    BY <1>3, <2>1, AttachFacts, Zenon
  <2>3. CASE Fail(r)
    <3>1. {} \in SUBSET Serving /\ \A k \in {} : ServeInv(k)'
      BY Zenon
    <3>. QED
      BY <1>1, <2>2, <2>3, <3>1, PublisherKeeps, Zenon DEF Fail
  <2>4. CASE MoveTo(r, [q EXCEPT !.signature = {s}], "respond")
    <3>1. PICK k : k = [pc |-> "respond", event |-> q.event, body |-> q.body, outcome |-> q.outcome,
                        sequence |-> q.sequence, signature |-> {s}]
      BY Zenon
    <3>2. k \in Serving
      BY <1>1, <2>1, <3>1, Zenon DEF Serving
    <3>3. ServeInv(k)'
      BY <1>1, <2>2, <3>1, Zenon DEF ServeInv
    <3>4. request' = [request EXCEPT ![r] = {k}]
      <4>1. PICK j : j = [q EXCEPT !.signature = {s}]
        BY Zenon
      <4>2. j = [pc |-> q.pc, event |-> q.event, body |-> q.body, outcome |-> q.outcome,
                 sequence |-> q.sequence, signature |-> {s}]
        BY <1>1, <4>1, Zenon DEF Serving
      <4>3. PICK i : i = [j EXCEPT !.pc = "respond"]
        BY Zenon
      <4>4. i = [pc |-> "respond", event |-> q.event, body |-> q.body, outcome |-> q.outcome,
                 sequence |-> q.sequence, signature |-> {s}]
        BY <4>2, <4>3, Zenon
      <4>. QED
        BY <2>4, <3>1, <4>1, <4>3, <4>4, Zenon DEF MoveTo
    <3>. QED
      BY <1>1, <2>2, <3>2, <3>3, <3>4, PublisherKeeps, Zenon
  <2>. QED
    BY <1>3, <2>3, <2>4, Zenon
<1>. QED
  BY <1>2, <1>3, Zenon DEF EnsureSigned

\* The request r starts, or comes to the transaction.
LEMMA AppendCheckedKeeps ==
  ASSUME TranscriptInv, NEW r \in Request, NEW q \in request[r], AppendChecked(r, q)
  PROVE  TranscriptInv'
<1>1. q \in Serving /\ UNCHANGED <<answered, watch, stream>>
  BY Zenon DEF TranscriptInv, TranscriptTypeOK, AppendChecked, readers
<1>. QED
  BY <1>1, FoundKeeps, AppendKeeps, Zenon DEF AppendChecked

LEMMA LookupKeeps ==
  ASSUME TranscriptInv, NEW r \in Request, NEW e \in Event, NEW b \in Body, Lookup(r, e, b)
  PROVE  TranscriptInv'
<1>1. PICK q : q = [pc |-> "append", event |-> e, body |-> b, outcome |-> "none", sequence |-> 0,
                    signature |-> {}]
  BY Zenon
<1>2. q \in Serving
  BY <1>1, Zenon DEF Serving
<1>3. /\ records' = records /\ UNCHANGED <<answered, watch, stream>>
      /\ Existing(r, q) \/ MoveTo(r, q, "append")
  BY <1>1, Zenon DEF Lookup, readers
<1>4. CASE MoveTo(r, q, "append")
  <2>1. PICK k : k = [q EXCEPT !.pc = "append"]
    BY Zenon
  <2>2. k = [pc |-> "append", event |-> e, body |-> b, outcome |-> "none", sequence |-> 0,
             signature |-> {}]
    BY <1>1, <2>1, Zenon
  <2>3. {q} \in SUBSET Serving /\ \A j \in {q} : ServeInv(j)'
    BY <1>1, <1>2 DEF ServeInv
  <2>4. request' = [request EXCEPT ![r] = {q}]
    BY <1>1, <1>4, <2>1, <2>2, Zenon DEF MoveTo
  <2>. QED
    BY <1>3, <2>3, <2>4, NothingWritten, PublisherKeeps, Zenon
<1>. QED
  BY <1>2, <1>3, <1>4, FoundKeeps, Zenon

\* A receipt is what the record says.
LEMMA RespondKeeps ==
  ASSUME TranscriptInv, NEW r \in Request, NEW q \in request[r], Respond(r, q)
  PROVE  TranscriptInv'
<1>1. PICK a : a = [event |-> q.event, body |-> q.body, outcome |-> q.outcome,
                    sequence |-> q.sequence, signature |-> q.signature]
  BY Zenon
<1>2. /\ q \in Serving /\ ServeInv(q) /\ q.pc = "respond"
      /\ records' = records /\ watch' = watch /\ answered' = answered \cup {a}
      /\ request' = [request EXCEPT ![r] = {}]
      /\ \/ stream' = stream
         \/ stream' = [w \in Watcher |-> {[s EXCEPT !.signal = TRUE] : s \in stream[w]}]
  BY <1>1, Zenon DEF TranscriptInv, TranscriptTypeOK, RequestInv, Respond, Notify
<1>3. /\ q.sequence \in 1..Len(records) /\ q.signature # {}
      /\ records[q.sequence].event = q.event /\ records[q.sequence].body = q.body
      /\ records[q.sequence].signature = q.signature /\ q.outcome # "none"
  BY <1>2, Zenon DEF ServeInv
<1>4. records \in Seq(Record) /\ records[q.sequence] \in Record
  BY <1>3 DEF TranscriptInv, TranscriptTypeOK
<1>5. a \in ReceiptGiven
  <2>1. /\ q.event \in Event /\ q.body \in Body /\ q.outcome \in {"appended", "duplicate"}
        /\ q.sequence \in Nat /\ q.signature \in (SUBSET Signature) \ {{}}
    <3>1. /\ q.event \in Event /\ q.body \in Body /\ q.sequence \in Nat
          /\ q.signature \in SUBSET Signature /\ q.outcome \in {"none", "appended", "duplicate"}
      BY <1>2, Zenon DEF Serving
    <3>2. q.signature \notin {{}} /\ q.outcome \in {"appended", "duplicate"}
      BY <1>3, <3>1, Zenon
    <3>. QED
      BY <3>1, <3>2, Zenon
  <2>. QED
    BY <1>1, <2>1, Zenon DEF ReceiptGiven
<1>6. ReceiptsAgree'
  <2>1. records[q.sequence] = [event |-> q.event, body |-> q.body, signature |-> q.signature]
    BY <1>3, <1>4, Zenon DEF Record
  <2>2. ASSUME NEW c \in answered'
        PROVE  /\ c.signature # {} /\ c.sequence \in 1..Len(records)
               /\ records[c.sequence] = [event |-> c.event, body |-> c.body, signature |-> c.signature]
    BY <1>1, <1>2, <1>3, <2>1 DEF TranscriptInv, ReceiptsAgree
  <2>. QED
    BY <1>2, <2>2, Zenon DEF ReceiptsAgree
<1>7. records' \in Seq(Record) /\ Extends /\ OneRecordPerEvent'
  BY <1>2, NothingWritten, Zenon
<1>8. RequestInv' /\ request' \in [Request -> SUBSET Serving]
  <2>1. {} \in SUBSET Serving /\ \A k \in {} : ServeInv(k)'
    BY Zenon
  <2>. QED
    BY <1>2, <1>7, <2>1, RequestMoves, Zenon DEF TranscriptInv
<1>9. stream' \in [Watcher -> SUBSET Streaming]
  <2>1. ASSUME NEW w \in Watcher, NEW s \in stream[w]  PROVE [s EXCEPT !.signal = TRUE] \in Streaming
    <3>1. s \in Streaming
      BY Zenon DEF TranscriptInv, TranscriptTypeOK
    <3>2. PICK z : z = [s EXCEPT !.signal = TRUE]
      BY Zenon
    <3>3. z \in Streaming
      BY <3>1, <3>2, Zenon DEF Streaming
    <3>. QED
      BY <3>2, <3>3, Zenon
  <2>. QED
    BY <1>2, <2>1 DEF TranscriptInv, TranscriptTypeOK
<1>10. TranscriptTypeOK'
  BY <1>2, <1>5, <1>7, <1>8, <1>9, Zenon DEF TranscriptInv, TranscriptTypeOK
<1>11. WatchInv'
  BY <1>2, <1>7, <1>10, WatchStays, Zenon DEF TranscriptInv
<1>. QED
  BY <1>6, <1>7, <1>8, <1>10, <1>11, Zenon DEF TranscriptInv

\* The client w and its stream move.
LEMMA WatcherMoves ==
  ASSUME TranscriptInv, UNCHANGED <<records, request, answered>>, NEW w \in Watcher,
         NEW V \in SUBSET Watching, NEW Z \in SUBSET Streaming, FollowInv(V, Z),
         watch' = [watch EXCEPT ![w] = V], stream' = [stream EXCEPT ![w] = Z]
  PROVE  TranscriptInv'
<1>1. TranscriptTypeOK'
  BY Zenon DEF TranscriptInv, TranscriptTypeOK
<1>2. ASSUME NEW u \in Watcher  PROVE FollowInv(watch'[u], stream'[u])
  BY Zenon DEF TranscriptInv, TranscriptTypeOK, WatchInv
<1>3. WatchInv'
  BY <1>2 DEF WatchInv, FollowInv, SignedPrefix, ReadAt
<1>4. OneRecordPerEvent' /\ ReceiptsAgree' /\ RequestInv'
  BY Zenon DEF TranscriptInv, OneRecordPerEvent, ReceiptsAgree, RequestInv, ServeInv
<1>. QED
  BY <1>1, <1>3, <1>4, Zenon DEF TranscriptInv

\* A client that has gone.
LEMMA CloseKeeps ==
  ASSUME TranscriptInv, UNCHANGED <<records, request, answered>>, NEW w \in Watcher, Close(w)
  PROVE  TranscriptInv'
<1>1. FollowInv({}, {})
  BY Zenon DEF FollowInv
<1>. QED
  BY <1>1, WatcherMoves, Zenon DEF Close

\* What a client has seen is not longer than the transcript.
LEMMA SeenFits ==
  ASSUME TranscriptInv, NEW w \in Watcher, NEW v \in watch[w]
  PROVE  /\ records \in Seq(Record) /\ Len(records) \in Nat
         /\ v \in Watching /\ v.seen \in Seq(Record) /\ Len(v.seen) \in 0..Len(records)
         /\ SignedPrefix(v.seen)
<1>1. /\ records \in Seq(Record) /\ Len(records) \in Nat
      /\ v \in Watching /\ SignedPrefix(v.seen)
  BY DEF TranscriptInv, TranscriptTypeOK, WatchInv, FollowInv
<1>2. v.seen \in Seq(Record) /\ Len(v.seen) \in Nat
  BY <1>1 DEF Watching
<1>3. Len(v.seen) > 0 => Len(v.seen) \in 1..Len(records)
  BY <1>1, <1>2 DEF SignedPrefix, ReadAt
<1>. QED
  BY <1>1, <1>2, <1>3

\* A page holds the records that follow.
LEMMA PageFacts ==
  ASSUME records \in Seq(Record), NEW after \in 0..Len(records)
  PROVE  /\ Page(after) \in Seq(Record) /\ Len(Page(after)) \in Nat
         /\ \A i \in 1..Len(Page(after)) : /\ after + i \in 1..Len(records)
                                           /\ Page(after)[i] = records[after + i]
<1>1. PICK last \in Nat : /\ last = (IF after + Limit < Len(records) THEN after + Limit ELSE Len(records))
                          /\ last <= Len(records) /\ after <= last
  BY TranscriptAssumption
<1>2. Page(after) = SubSeq(records, after + 1, last)
  BY <1>1, Zenon DEF Page
<1>3. /\ SubSeq(records, after + 1, last) \in Seq(Record)
      /\ Len(SubSeq(records, after + 1, last)) = last - after
      /\ \A i \in 1..(last - after) : SubSeq(records, after + 1, last)[i] = records[after + i]
  <2>1. after \in Nat /\ Len(records) \in Nat
    OBVIOUS
  <2>. QED
    BY <1>1, <2>1, PartFacts
<1>4. /\ Page(after) \in Seq(Record) /\ Len(Page(after)) = last - after
      /\ \A i \in 1..(last - after) : Page(after)[i] = records[after + i]
  BY <1>2, <1>3, Zenon
<1>5. last - after \in Nat /\ \A i \in 1..(last - after) : after + i \in 1..Len(records)
  BY <1>1
<1>. QED
  BY <1>4, <1>5, Zenon

LEMMA WatchKeeps ==
  ASSUME TranscriptInv, NEW w \in Watcher, Watch(w)
  PROVE  TranscriptInv'
<1>1. PICK v : v = [pc |-> "replay", seen |-> << >>]
  BY Zenon
<1>2. v \in Watching /\ v.seen = << >>
  BY <1>1 DEF Watching
<1>3. stream[w] = {} /\ stream' = [stream EXCEPT ![w] = {}]
  BY Zenon DEF Watch, TranscriptInv, WatchInv, FollowInv, TranscriptTypeOK
<1>4. FollowInv({v}, {})
  BY <1>2 DEF FollowInv, SignedPrefix
<1>5. watch' = [watch EXCEPT ![w] = {v}] /\ UNCHANGED <<records, request, answered>>
  BY <1>1, Zenon DEF Watch
<1>. QED
  BY <1>2, <1>3, <1>4, <1>5, WatcherMoves, Zenon

\* The pages of the replay follow on each other.
LEMMA ReplayKeeps ==
  ASSUME TranscriptInv, NEW w \in Watcher, NEW v \in watch[w], Replay(w, v)
  PROVE  TranscriptInv'
<1>1. PICK page : page = Page(Len(v.seen))
  BY Zenon
<1>. UNCHANGED <<records, request, answered>>
  BY Zenon DEF Replay
<1>2. CASE Close(w)
  BY <1>2, CloseKeeps, Zenon
<1>3. ASSUME Complete(page), UNCHANGED stream,
             watch' = [watch EXCEPT ![w] =
               {[pc |-> IF Len(page) < Limit THEN "connect" ELSE "replay",
                 seen |-> v.seen \o page]}]
      PROVE  TranscriptInv'
  <2>1. /\ page \in Seq(Record) /\ Len(page) \in Nat
        /\ \A i \in 1..Len(page) : /\ Len(v.seen) + i \in 1..Len(records)
                                   /\ page[i] = records[Len(v.seen) + i]
    BY <1>1, SeenFits, PageFacts, Zenon
  <2>2. /\ v \in Watching /\ v.seen \in Seq(Record) /\ Len(v.seen) \in Nat
        /\ SignedPrefix(v.seen)
    BY SeenFits
  <2>3. PICK seen : seen = v.seen \o page
    BY Zenon
  <2>4. /\ seen \in Seq(Record) /\ Len(seen) = Len(v.seen) + Len(page)
        /\ \A i \in 1..Len(v.seen) : seen[i] = v.seen[i]
        /\ \A i \in 1..Len(page) : seen[Len(v.seen) + i] = page[i]
    BY <2>1, <2>2, <2>3
  <2>5. ASSUME NEW i \in 1..Len(seen)  PROVE seen[i].signature # {} /\ ReadAt(seen[i], i)
    <3>1. CASE i <= Len(v.seen)
      BY <3>1, <2>2, <2>4 DEF SignedPrefix
    <3>2. CASE i > Len(v.seen)
      <4>1. PICK j \in 1..Len(page) : i = Len(v.seen) + j
        <5>1. i - Len(v.seen) \in 1..Len(page) /\ i = Len(v.seen) + (i - Len(v.seen))
          BY <3>2, <2>1, <2>2, <2>4
        <5>. QED
          BY <5>1, Zenon
      <4>2. page[j].signature # {} /\ seen[i] = page[j]
        BY <4>1, <1>3, <2>4, Zenon DEF Complete
      <4>3. i \in 1..Len(records) /\ page[j] = records[i]
        BY <4>1, <2>1, Zenon
      <4>. QED
        BY <4>2, <4>3, Zenon DEF ReadAt
    <3>. QED
      BY <3>1, <3>2, <2>1, <2>2, <2>4
  <2>6. PICK u : u = [pc |-> IF Len(page) < Limit THEN "connect" ELSE "replay", seen |-> seen]
    BY Zenon
  <2>7. u \in Watching /\ u.seen = seen
    BY <2>4, <2>6, Zenon DEF Watching
  <2>8. stream[w] = {}
    BY Zenon DEF Replay, TranscriptInv, WatchInv, FollowInv
  <2>9. stream' = [stream EXCEPT ![w] = {}]
    BY <1>3, <2>8, Zenon DEF TranscriptInv, TranscriptTypeOK
  <2>10. FollowInv({u}, {})
    BY <2>5, <2>7, Zenon DEF FollowInv, SignedPrefix
  <2>11. watch' = [watch EXCEPT ![w] = {u}]
    BY <1>3, <2>3, <2>6, Zenon
  <2>. QED
    BY <2>7, <2>9, <2>10, <2>11, WatcherMoves, Zenon
<1>. QED
  BY <1>1, <1>2, <1>3, Zenon DEF Replay

\* The stream starts where the replay ended.
LEMMA ConnectKeeps ==
  ASSUME TranscriptInv, NEW w \in Watcher, NEW v \in watch[w], Connect(w, v)
  PROVE  TranscriptInv'
<1>1. /\ v \in Watching /\ v.seen \in Seq(Record) /\ Len(v.seen) \in Nat
      /\ SignedPrefix(v.seen)
  BY SeenFits
<1>2. PICK u : u = [v EXCEPT !.pc = "stream"]
  BY Zenon
<1>3. u = [pc |-> "stream", seen |-> v.seen]
  BY <1>1, <1>2, Zenon DEF Watching
<1>4. u \in Watching /\ u.pc = "stream" /\ u.seen = v.seen
  BY <1>1, <1>3, Zenon DEF Watching
<1>5. PICK z : z = [pc |-> "read", cursor |-> Len(v.seen), batch |-> << >>, more |-> FALSE,
                    signal |-> FALSE]
  BY Zenon
<1>6. z \in Streaming /\ z.cursor = Len(v.seen) /\ z.batch = << >>
  BY <1>1, <1>5 DEF Streaming
<1>7. FollowInv({u}, {z})
  BY <1>1, <1>4, <1>6 DEF FollowInv
<1>8. /\ watch' = [watch EXCEPT ![w] = {u}] /\ stream' = [stream EXCEPT ![w] = {z}]
      /\ UNCHANGED <<records, request, answered>>
  BY <1>2, <1>5, Zenon DEF Connect
<1>. QED
  BY <1>4, <1>6, <1>7, <1>8, WatcherMoves, Zenon

\* A stream has its client, and starts its next read inside the transcript.
LEMMA CursorFits ==
  ASSUME TranscriptInv, NEW w \in Watcher, NEW s \in stream[w]
  PROVE  /\ s \in Streaming /\ s.cursor \in 0..Len(records) /\ s.batch \in Seq(Record)
         /\ \A i \in 1..Len(s.batch) : ReadAt(s.batch[i], s.cursor + i)
<1>1. PICK v \in watch[w] : s.cursor = Len(v.seen)
  BY Zenon DEF TranscriptInv, WatchInv, FollowInv
<1>2. s \in Streaming /\ \A i \in 1..Len(s.batch) : ReadAt(s.batch[i], s.cursor + i)
  BY Zenon DEF TranscriptInv, TranscriptTypeOK, WatchInv, FollowInv
<1>. QED
  BY <1>1, <1>2, SeenFits, Zenon DEF Streaming

\* The stream moves on at its cursor.
LEMMA StreamReads ==
  ASSUME TranscriptInv, UNCHANGED <<records, request, answered, watch>>,
         NEW w \in Watcher, NEW s \in stream[w], NEW z \in Streaming, z.cursor = s.cursor,
         \A i \in 1..Len(z.batch) : ReadAt(z.batch[i], s.cursor + i),
         stream' = [stream EXCEPT ![w] = {z}]
  PROVE  TranscriptInv'
<1>1. PICK V \in SUBSET Watching : V = watch[w]
  BY Zenon DEF TranscriptInv, TranscriptTypeOK
<1>2. FollowInv(V, {z})
  BY <1>1, Zenon DEF TranscriptInv, WatchInv, FollowInv
<1>3. watch' = [watch EXCEPT ![w] = V]
  BY <1>1, Zenon DEF TranscriptInv, TranscriptTypeOK
<1>. QED
  BY <1>2, <1>3, WatcherMoves, Zenon

LEMMA ReadBatchKeeps ==
  ASSUME TranscriptInv, NEW w \in Watcher, NEW s \in stream[w], ReadBatch(w, s)
  PROVE  TranscriptInv'
<1>1. s \in Streaming /\ s.cursor \in 0..Len(records)
  BY CursorFits, Zenon
<1>2. PICK page : page = Page(s.cursor)
  BY Zenon
<1>3. /\ page \in Seq(Record)
      /\ \A i \in 1..Len(page) : /\ s.cursor + i \in 1..Len(records)
                                 /\ page[i] = records[s.cursor + i]
  BY <1>1, <1>2, PageFacts, Zenon DEF TranscriptInv, TranscriptTypeOK
<1>4. PICK more \in BOOLEAN : more = (Len(page) = Limit)
  BY Zenon
<1>5. PICK z : z = [s EXCEPT !.pc = "send", !.batch = page, !.more = more]
  BY Zenon
<1>6. z = [pc |-> "send", cursor |-> s.cursor, batch |-> page, more |-> more,
           signal |-> s.signal]
  BY <1>1, <1>5, Zenon DEF Streaming
<1>7. z \in Streaming /\ z.cursor = s.cursor /\ z.batch = page
  BY <1>1, <1>3, <1>4, <1>6, Zenon DEF Streaming
<1>8. /\ stream' = [stream EXCEPT ![w] = {z}]
      /\ UNCHANGED <<records, request, answered, watch>>
  BY <1>2, <1>4, <1>5, Zenon DEF ReadBatch
<1>9. \A i \in 1..Len(z.batch) : ReadAt(z.batch[i], s.cursor + i)
  BY <1>3, <1>7, Zenon DEF ReadAt
<1>. QED
  BY <1>7, <1>8, <1>9, StreamReads, Zenon

LEMMA EndBatchKeeps ==
  ASSUME TranscriptInv, NEW w \in Watcher, NEW s \in stream[w], EndBatch(w, s)
  PROVE  TranscriptInv'
<1>1. s \in Streaming /\ \A i \in 1..Len(s.batch) : ReadAt(s.batch[i], s.cursor + i)
  BY CursorFits, Zenon
<1>2. PICK pc \in {"read", "wait"} : pc = IF s.more THEN "read" ELSE "wait"
  BY Zenon
<1>3. PICK z : z = [s EXCEPT !.pc = pc]
  BY Zenon
<1>4. z = [pc |-> pc, cursor |-> s.cursor, batch |-> s.batch, more |-> s.more,
           signal |-> s.signal]
  BY <1>1, <1>3, Zenon DEF Streaming
<1>5. z \in Streaming /\ z.cursor = s.cursor /\ z.batch = s.batch
  BY <1>1, <1>2, <1>4, Zenon DEF Streaming
<1>6. /\ stream' = [stream EXCEPT ![w] = {z}]
      /\ UNCHANGED <<records, request, answered, watch>>
  BY <1>2, <1>3, Zenon DEF EndBatch
<1>7. \A i \in 1..Len(z.batch) : ReadAt(z.batch[i], s.cursor + i)
  BY <1>1, <1>5, Zenon
<1>. QED
  BY <1>5, <1>6, <1>7, StreamReads, Zenon

LEMMA WakeKeeps ==
  ASSUME TranscriptInv, NEW w \in Watcher, NEW s \in stream[w], Wake(w, s)
  PROVE  TranscriptInv'
<1>1. s \in Streaming /\ \A i \in 1..Len(s.batch) : ReadAt(s.batch[i], s.cursor + i)
  BY CursorFits, Zenon
<1>2. PICK z : z = [s EXCEPT !.pc = "read", !.signal = FALSE]
  BY Zenon
<1>3. z = [pc |-> "read", cursor |-> s.cursor, batch |-> s.batch, more |-> s.more,
           signal |-> FALSE]
  BY <1>1, <1>2, Zenon DEF Streaming
<1>4. z \in Streaming /\ z.cursor = s.cursor /\ z.batch = s.batch
  BY <1>1, <1>3, Zenon DEF Streaming
<1>5. /\ stream' = [stream EXCEPT ![w] = {z}]
      /\ UNCHANGED <<records, request, answered, watch>>
  BY <1>2, Zenon DEF Wake
<1>6. \A i \in 1..Len(z.batch) : ReadAt(z.batch[i], s.cursor + i)
  BY <1>1, <1>4, Zenon
<1>. QED
  BY <1>4, <1>5, <1>6, StreamReads, Zenon

\* A signed record of the batch is the transcript's next one.
LEMMA SendKeeps ==
  ASSUME TranscriptInv, NEW w \in Watcher, NEW s \in stream[w], Send(w, s)
  PROVE  TranscriptInv'
<1>1. /\ s \in Streaming /\ s.cursor \in 0..Len(records) /\ s.batch \in Seq(Record)
      /\ \A i \in 1..Len(s.batch) : ReadAt(s.batch[i], s.cursor + i)
  BY CursorFits, Zenon
<1>. UNCHANGED <<records, request, answered>> /\ s.batch # << >>
  BY Zenon DEF Send
<1>2. CASE Close(w)
  BY <1>2, CloseKeeps, Zenon
<1>3. ASSUME Head(s.batch).signature # {},
             stream' = [stream EXCEPT ![w] = {[s EXCEPT !.cursor = @ + 1, !.batch = Tail(@)]}],
             watch' = [watch EXCEPT ![w] =
                        {[v EXCEPT !.seen = Append(@, Head(s.batch))] : v \in @}]
      PROVE  TranscriptInv'
  <2>1. PICK x \in Record : x = Head(s.batch) /\ x = s.batch[1]
    BY <1>1
  <2>2. PICK rest \in Seq(Record) :
          /\ rest = Tail(s.batch) /\ Len(rest) = Len(s.batch) - 1
          /\ \A i \in 1..Len(rest) : i + 1 \in 1..Len(s.batch) /\ rest[i] = s.batch[i + 1]
    <3>1. /\ Tail(s.batch) \in Seq(Record) /\ Len(Tail(s.batch)) = Len(s.batch) - 1
          /\ Len(s.batch) \in Nat \ {0}
          /\ \A i \in 1..(Len(s.batch) - 1) : Tail(s.batch)[i] = s.batch[i + 1]
      BY <1>1
    <3>2. \A i \in 1..Len(Tail(s.batch)) :
            i + 1 \in 1..Len(s.batch) /\ Tail(s.batch)[i] = s.batch[i + 1]
      BY <3>1
    <3>. QED
      BY <3>1, <3>2, Zenon
  <2>3. x.signature # {} /\ ReadAt(x, s.cursor + 1)
    BY <1>1, <1>3, <2>1
  <2>4. PICK cursor \in Nat : cursor = s.cursor + 1
    BY <1>1
  <2>5. PICK z : z = [s EXCEPT !.cursor = cursor, !.batch = rest]
    BY Zenon
  <2>6. z = [pc |-> s.pc, cursor |-> cursor, batch |-> rest, more |-> s.more,
             signal |-> s.signal]
    BY <1>1, <2>5, Zenon DEF Streaming
  <2>7. z \in Streaming /\ z.cursor = cursor /\ z.batch = rest
    BY <1>1, <2>2, <2>4, <2>6, Zenon DEF Streaming
  <2>8. \A i \in 1..Len(rest) : ReadAt(rest[i], cursor + i)
    <3>1. ASSUME NEW i \in 1..Len(rest)  PROVE ReadAt(rest[i], cursor + i)
      <4>1. cursor + i = s.cursor + (i + 1) /\ i + 1 \in 1..Len(s.batch)
        BY <1>1, <2>2, <2>4
      <4>. QED
        BY <4>1, <1>1, <2>2, Zenon
    <3>. QED
      BY <3>1, Zenon
  <2>9. PICK V : V = {[v EXCEPT !.seen = Append(@, x)] : v \in watch[w]}
    BY Zenon
  <2>10. ASSUME NEW u \in V
         PROVE  u \in Watching /\ SignedPrefix(u.seen) /\ u.pc = "stream" /\ cursor = Len(u.seen)
    <3>1. PICK v \in watch[w] : u = [v EXCEPT !.seen = Append(v.seen, x)]
      BY <2>9, Zenon
    <3>2. /\ v \in Watching /\ v.seen \in Seq(Record) /\ Len(v.seen) \in Nat
          /\ SignedPrefix(v.seen) /\ v.pc = "stream" /\ s.cursor = Len(v.seen)
      BY SeenFits DEF TranscriptInv, WatchInv, FollowInv
    <3>3. u = [pc |-> v.pc, seen |-> Append(v.seen, x)]
      BY <3>1, <3>2, Zenon DEF Watching
    <3>4. PICK seen \in Seq(Record) :
            /\ seen = Append(v.seen, x) /\ Len(seen) = Len(v.seen) + 1
            /\ \A i \in 1..Len(v.seen) : seen[i] = v.seen[i]
            /\ seen[Len(v.seen) + 1] = x
      <4>1. /\ Append(v.seen, x) \in Seq(Record) /\ Len(Append(v.seen, x)) = Len(v.seen) + 1
            /\ \A i \in 1..Len(v.seen) : Append(v.seen, x)[i] = v.seen[i]
            /\ Append(v.seen, x)[Len(v.seen) + 1] = x
        BY <2>1, <3>2, AppendFacts
      <4>. QED
        BY <4>1, Zenon
    <3>5. u \in Watching /\ u.pc = "stream" /\ u.seen = seen
      BY <3>2, <3>3, <3>4, Zenon DEF Watching
    <3>6. ASSUME NEW i \in 1..Len(seen)  PROVE seen[i].signature # {} /\ ReadAt(seen[i], i)
      <4>1. CASE i \in 1..Len(v.seen)
        BY <4>1, <3>2, <3>4, Zenon DEF SignedPrefix
      <4>2. CASE i = Len(v.seen) + 1
        BY <4>2, <3>2, <3>4, <2>3, Zenon
      <4>. QED
        BY <4>1, <4>2, <3>2, <3>4
    <3>. QED
      BY <2>4, <3>2, <3>4, <3>5, <3>6, Zenon DEF SignedPrefix
  <2>11. FollowInv(V, {z})
    <3>1. V # {}
      <4>1. watch[w] # {}
        BY Zenon DEF TranscriptInv, WatchInv, FollowInv
      <4>. QED
        BY <4>1, <2>9, Zenon
    <3>. QED
      BY <3>1, <2>7, <2>8, <2>10, Zenon DEF FollowInv
  <2>12. watch' = [watch EXCEPT ![w] = V]
    BY <1>3, <2>1, <2>9, Zenon
  <2>13. stream' = [stream EXCEPT ![w] = {z}]
    BY <1>3, <2>2, <2>4, <2>5, Zenon
  <2>. QED
    BY <2>7, <2>10, <2>11, <2>12, <2>13, WatcherMoves, Zenon
<1>. QED
  BY <1>2, <1>3, Zenon DEF Send

LEMMA RestartKeeps ==
  ASSUME TranscriptInv, Restart
  PROVE  TranscriptInv'
<1>1. TranscriptTypeOK' /\ RequestInv'
  BY Zenon DEF Restart, TranscriptInv, TranscriptTypeOK, RequestInv
<1>2. OneRecordPerEvent' /\ ReceiptsAgree'
  BY Zenon DEF Restart, TranscriptInv, OneRecordPerEvent, ReceiptsAgree
<1>3. WatchInv'
  BY Zenon DEF Restart, WatchInv, FollowInv
<1>. QED
  BY <1>1, <1>2, <1>3, Zenon DEF TranscriptInv

LEMMA TranscriptNextKeeps ==
  ASSUME TranscriptInv, [TranscriptNext]_transcriptVars
  PROVE  TranscriptInv'
<1>1. ASSUME NEW r \in Request, NEW p \in Published, Lookup(r, p[1], p[2])  PROVE TranscriptInv'
  BY <1>1, LookupKeeps, TranscriptAssumption, Zenon
<1>2. ASSUME NEW r \in Request, Serve(r)  PROVE TranscriptInv'
  BY <1>2, AppendCheckedKeeps, SignKeeps, RespondKeeps, Zenon DEF Serve
<1>3. ASSUME NEW w \in Watcher, Follow(w)  PROVE TranscriptInv'
  BY <1>3, ReplayKeeps, ConnectKeeps, ReadBatchKeeps, SendKeeps, EndBatchKeeps, WakeKeeps, Zenon
     DEF Follow
<1>4. ASSUME NEW w \in Watcher, Disconnect(w)  PROVE TranscriptInv'
  BY <1>4, CloseKeeps, Zenon DEF Disconnect
<1>5. CASE UNCHANGED transcriptVars
  BY <1>5 DEF transcriptVars, TranscriptInv, TranscriptTypeOK, OneRecordPerEvent, ReceiptsAgree,
     RequestInv, ServeInv,
              WatchInv, FollowInv, SignedPrefix, ReadAt
<1>. QED
  BY <1>1, <1>2, <1>3, <1>4, <1>5, WatchKeeps, RestartKeeps, Zenon DEF TranscriptNext

LEMMA TranscriptInitHolds == TranscriptInit => TranscriptInv
<1>. SUFFICES ASSUME TranscriptInit  PROVE TranscriptInv
  BY Zenon
<1>1. TranscriptTypeOK /\ RequestInv
  BY DEF TranscriptInit, TranscriptTypeOK, RequestInv
<1>2. OneRecordPerEvent /\ ReceiptsAgree
  BY DEF TranscriptInit, OneRecordPerEvent, ReceiptsAgree
<1>3. WatchInv
  BY Zenon DEF TranscriptInit, WatchInv, FollowInv
<1>. QED
  BY <1>1, <1>2, <1>3, Zenon DEF TranscriptInv

\* What a client has seen, read back as a prefix.
LEMMA SeenIsPrefix ==
  ASSUME TranscriptInv, NEW w \in Watcher, NEW v \in watch[w]
  PROVE  Complete(v.seen) /\ \E n \in 0..Len(records) : v.seen = SubSeq(records, 1, n)
<1>1. /\ records \in Seq(Record) /\ v.seen \in Seq(Record)
      /\ Len(v.seen) \in 0..Len(records) /\ SignedPrefix(v.seen)
  BY SeenFits, Zenon
<1>2. \A i \in 1..Len(v.seen) : v.seen[i].signature # {} /\ v.seen[i] = records[i]
  BY <1>1, Zenon DEF SignedPrefix, ReadAt
<1>3. v.seen = SubSeq(records, 1, Len(v.seen))
  BY <1>1, <1>2
<1>. QED
  BY <1>1, <1>2, <1>3, Zenon DEF Complete

\* The invariant of the transcript: one record for an event ID, receipts that
\* repeat what is on record, requests that hold the record they found, and
\* streams that continue what their client has seen, in every reachable state.
THEOREM TranscriptInvariant == TranscriptSpec => []TranscriptInv
<1>1. TranscriptInit => TranscriptInv
  BY TranscriptInitHolds, Zenon
<1>2. TranscriptInv /\ [TranscriptNext]_transcriptVars => TranscriptInv'
  BY TranscriptNextKeeps, Zenon
<1>. QED
  BY <1>1, <1>2, PTL DEF TranscriptSpec

\* Any number of requests, retries and restarts of AppendChecked: an event
\* ID has one record and every receipt handed out for it is the one on record.
THEOREM RetriesGetOneReceipt == TranscriptSpec => []RetriesAgree
<1>1. TranscriptInv => RetriesAgree
  BY Zenon DEF TranscriptInv, RetriesAgree
<1>. QED
  BY <1>1, TranscriptInvariant, PTL

\* Whatever is appended, signed or lost while Watch replays, connects and
\* streams, a client has seen a prefix of the transcript, every record signed.
THEOREM WatchersSeeSignedPrefix == TranscriptSpec => []WatcherSeesSignedPrefix
<1>1. TranscriptInv => WatcherSeesSignedPrefix
  BY SeenIsPrefix, Zenon DEF WatcherSeesSignedPrefix
<1>. QED
  BY <1>1, TranscriptInvariant, PTL
=============================================================================
