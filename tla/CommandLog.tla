----------------------------- MODULE CommandLog -----------------------------
(***************************************************************************)
(* The JetStream relay adapter (internal/relay/jetstream). A tenant's      *)
(* state is nothing but a log of commands on one subject: an operation     *)
(* loads the whole log, reduces it, decides, and publishes a command       *)
(* expecting the revision it loaded. A refused or unacknowledged publish   *)
(* is retried from the load, at most maxMutationAttempts times. The broker *)
(* (external) keeps the log: a publish lands only on the revision it       *)
(* expects; its acknowledgement may be lost, and an unacknowledged publish *)
(* may land later. The stream refuses direct reads, so a load sees the     *)
(* head of the log. Reducing the log is deterministic and starts from the  *)
(* first command, so the model keeps what every load of the log computes,  *)
(* applying each command when it lands.                                    *)
(***************************************************************************)
EXTENDS Naturals, Sequences, RelayEvents

CONSTANTS Key, Uri, Receipt,
          Operation,            \* the operations callers ask for
          Client,
          maxMutationAttempts,
          MaxLog                \* bound: commands on the subject

VARIABLES revision, \* commands on the tenant's subject
          tenant,   \* the state the log reduces to
          call,     \* what each client's operation is doing
          strays    \* unacknowledged publishes that may still land

vars == <<revision, tenant, call, strays>>

ASSUME AttemptsAssumption == maxMutationAttempts \in Nat \ {0}

ChannelCreated == [kind : {"channel_created"}, key : Key, uri : Uri]
RecordAppended == [kind : {"record_appended"}, key : Key, event : Event, body : Body,
                   receipt : Receipt]
SignatureAttached == [kind : {"signature_attached"}, key : Key, receipt : Receipt,
                      body : Body, signature : Signature]

ASSUME OperationAssumption ==
    Operation \subseteq ChannelCreated \cup RecordAppended \cup SignatureAttached

-----------------------------------------------------------------------------
(* The reducer. A command it refuses makes the whole tenant unreadable:    *)
(* every later load of the log stops at it with an error.                  *)

ChannelId(key) == key[1]

Put(f, x, v) == [y \in DOMAIN f \cup {x} |-> IF y = x THEN v ELSE f[y]]

NewTenantState == [ok |-> TRUE, transcripts |-> << >>, channelURIs |-> << >>,
                   events |-> << >>, receipts |-> << >>]

\* What the conflict checks ask of a channel, in the reducer and before a publish.
UriIsFree(state, key, uri) ==
    /\ ChannelId(key) \in DOMAIN state.channelURIs => state.channelURIs[ChannelId(key)] = uri
    /\ \A other \in DOMAIN state.transcripts :
           state.transcripts[other].uri = uri => ChannelId(other) = ChannelId(key)

ApplyChannel(state, cmd) ==
    IF cmd.key \in DOMAIN state.transcripts \/ ~UriIsFree(state, cmd.key, cmd.uri)
    THEN [state EXCEPT !.ok = FALSE]
    ELSE [state EXCEPT
            !.channelURIs = Put(@, ChannelId(cmd.key), cmd.uri),
            !.transcripts = Put(@, cmd.key, [uri |-> cmd.uri, records |-> << >>])]

EventKey(cmd) == <<ChannelId(cmd.key), cmd.event>>

NewRecord(cmd, seq) ==
    [key |-> cmd.key, seq |-> seq, event |-> cmd.event, body |-> cmd.body,
     receipt |-> cmd.receipt, signature |-> {}]

ApplyRecord(state, cmd) ==
    LET id == EventKey(cmd)
        record == NewRecord(cmd, cmd.seq)
    IN IF \/ cmd.key \notin DOMAIN state.transcripts
          \/ cmd.seq # Len(state.transcripts[cmd.key].records) + 1
          \/ id \in DOMAIN state.events
          \/ cmd.receipt \in DOMAIN state.receipts
       THEN [state EXCEPT !.ok = FALSE]
       ELSE [state EXCEPT
               !.transcripts[cmd.key].records = Append(@, record),
               !.events = Put(@, id, record),
               !.receipts = Put(@, cmd.receipt, record)]

\* The receipt exists in the transcript, for the same unsigned receipt.
HasReceipt(state, cmd) ==
    /\ cmd.receipt \in DOMAIN state.receipts
    /\ state.receipts[cmd.receipt].key = cmd.key
    /\ state.receipts[cmd.receipt].body = cmd.body

Signed(record, cmd) == [record EXCEPT !.signature = {cmd.signature}]

\* Mutant: the event index keeps the unsigned record.
ApplySignatureToTranscript(state, cmd) ==
    IF ~HasReceipt(state, cmd) \/ state.receipts[cmd.receipt].signature # {}
    THEN [state EXCEPT !.ok = FALSE]
    ELSE LET signed == Signed(state.receipts[cmd.receipt], cmd)
         IN [state EXCEPT !.transcripts[cmd.key].records[signed.seq] = signed,
                          !.receipts[cmd.receipt] = signed]

ApplySignature(state, cmd) ==
    IF ~HasReceipt(state, cmd) \/ state.receipts[cmd.receipt].signature # {}
    THEN [state EXCEPT !.ok = FALSE]
    ELSE LET signed == Signed(state.receipts[cmd.receipt], cmd)
         IN [state EXCEPT
               !.transcripts[cmd.key].records[signed.seq] = signed,
               !.events[EventKey(signed)] = signed,
               !.receipts[cmd.receipt] = signed]

Apply(state, cmd) ==
    IF ~state.ok THEN state
    ELSE CASE cmd.kind = "channel_created" -> ApplyChannel(state, cmd)
           [] cmd.kind = "record_appended" -> ApplyRecord(state, cmd)
           [] cmd.kind = "signature_attached" -> ApplySignature(state, cmd)

-----------------------------------------------------------------------------
(* What an operation decides on the state it loaded: a reply, or a command *)
(* to publish on that revision and the reply once it is acknowledged.      *)

Refused == [outcome |-> "refused"]
Created == [outcome |-> "created"]
Answer(outcome, record) == [outcome |-> outcome, record |-> record]
Publish(cmd, reply) == [outcome |-> "publish", cmd |-> cmd, reply |-> reply]

DecideCreate(state, op) ==
    IF op.key \in DOMAIN state.transcripts
    THEN IF state.transcripts[op.key].uri = op.uri THEN Created ELSE Refused
    ELSE IF UriIsFree(state, op.key, op.uri) THEN Publish(op, Created) ELSE Refused

RecordCommand(op, seq) ==
    [kind |-> op.kind, key |-> op.key, event |-> op.event, body |-> op.body,
     receipt |-> op.receipt, seq |-> seq]

\* A receipt identifier that is taken is refused before anything is published.
PublishRecord(state, op) ==
    LET seq == Len(state.transcripts[op.key].records) + 1
    IN IF op.receipt \in DOMAIN state.receipts
       THEN Refused
       ELSE Publish(RecordCommand(op, seq), Answer("appended", NewRecord(op, seq)))

DecideAppend(state, op) ==
    LET id == EventKey(op)
    IN CASE op.key \notin DOMAIN state.transcripts -> Refused
         [] op.key \in DOMAIN state.transcripts /\ id \notin DOMAIN state.events ->
                PublishRecord(state, op)
         [] OTHER ->
                IF state.events[id].key = op.key /\ state.events[id].body = op.body
                THEN Answer("duplicate", state.events[id])
                ELSE Refused

DecideAttach(state, op) ==
    IF ~HasReceipt(state, op) THEN Refused
    ELSE LET record == state.receipts[op.receipt]
         IN CASE record.signature = {} -> Publish(op, Answer("signed", Signed(record, op)))
              [] record.signature = {op.signature} -> Answer("signed", record)
              [] OTHER -> Refused

Decide(state, op) ==
    CASE op.kind = "channel_created" -> DecideCreate(state, op)
      [] op.kind = "record_appended" -> DecideAppend(state, op)
      [] op.kind = "signature_attached" -> DecideAttach(state, op)

-----------------------------------------------------------------------------
(* The clients. *)

Idle == [at |-> "done", reply |-> [outcome |-> "none"]]
Failed == [at |-> "done", reply |-> [outcome |-> "error"]]
Done(reply) == [at |-> "done", reply |-> reply]
Loading(op, attempt) == [at |-> "load", op |-> op, attempt |-> attempt]

Init ==
    /\ revision = 0
    /\ tenant = NewTenantState
    /\ call = [c \in Client |-> Idle]
    /\ strays = {}

\* One round: load, reduce, decide. A log that cannot be reduced is an error.
LoadAndDecide(c, op, attempt) ==
    LET decision == Decide(tenant, op)
    IN call' = [call EXCEPT ![c] =
           CASE ~tenant.ok -> Failed
             [] tenant.ok /\ decision.outcome # "publish" -> Done(decision)
             [] OTHER -> [at |-> "publish", op |-> op, attempt |-> attempt,
                          revision |-> revision, cmd |-> decision.cmd,
                          reply |-> decision.reply]]

Begin(c, op) ==
    /\ call[c].at = "done"
    /\ LoadAndDecide(c, op, 1)
    /\ UNCHANGED <<revision, tenant, strays>>

Reload(c) ==
    /\ call[c].at = "load"
    /\ LoadAndDecide(c, call[c].op, call[c].attempt)
    /\ UNCHANGED <<revision, tenant, strays>>

\* Mutant: the publish does not state the revision it expects.
LandUnconditionally(expected, cmd) ==
    /\ revision < MaxLog
    /\ revision' = revision + 1
    /\ tenant' = Apply(tenant, cmd)
    /\ strays' = {}

\* The broker takes a publish only on the revision it expects. Publishes that
\* expected the old head can no longer land.
Land(expected, cmd) ==
    /\ expected = revision
    /\ revision < MaxLog
    /\ revision' = revision + 1
    /\ tenant' = Apply(tenant, cmd)
    /\ strays' = {}

PublishAcknowledged(c) ==
    /\ call[c].at = "publish"
    /\ Land(call[c].revision, call[c].cmd)
    /\ call' = [call EXCEPT ![c] = Done(call[c].reply)]

\* After a publish that returned an error: another round, or
\* ErrCommitIndeterminate when the attempts are used up.
TryAgain(c) ==
    call' = [call EXCEPT ![c] =
        IF call[c].attempt < maxMutationAttempts
        THEN Loading(call[c].op, call[c].attempt + 1)
        ELSE Failed]

PublishRefused(c) ==
    /\ call[c].at = "publish"
    /\ call[c].revision # revision
    /\ TryAgain(c)
    /\ UNCHANGED <<revision, tenant, strays>>

\* The command is on the subject, the acknowledgement is lost.
AcknowledgementLost(c) ==
    /\ call[c].at = "publish"
    /\ Land(call[c].revision, call[c].cmd)
    /\ TryAgain(c)

\* The publish fails towards the client and may reach the broker later.
PublishDelayed(c) ==
    /\ call[c].at = "publish"
    /\ call[c].revision = revision
    /\ strays' = strays \cup {call[c].cmd}
    /\ TryAgain(c)
    /\ UNCHANGED <<revision, tenant>>

\* A cancelled context, a failed load, or an admission check that refuses.
Abandon(c) ==
    /\ call[c].at = "load"
    /\ call' = [call EXCEPT ![c] = Failed]
    /\ UNCHANGED <<revision, tenant, strays>>

StrayLands(cmd) ==
    /\ Land(revision, cmd)
    /\ UNCHANGED call

Next ==
    \/ \E c \in Client :
        \/ \E op \in Operation : Begin(c, op)
        \/ Reload(c)
        \/ PublishAcknowledged(c)
        \/ PublishRefused(c)
        \/ AcknowledgementLost(c)
        \/ PublishDelayed(c)
        \/ Abandon(c)
    \/ \E cmd \in strays : StrayLands(cmd)

Spec == Init /\ [][Next]_vars

-----------------------------------------------------------------------------
(* Properties. *)

Command == ChannelCreated \cup SignatureAttached
           \cup [kind : {"record_appended"}, key : Key, event : Event, body : Body,
                 receipt : Receipt, seq : Nat \ {0}]

StoredRecord == [key : Key, seq : Nat \ {0}, event : Event, body : Body,
                 receipt : Receipt, signature : {{}} \cup {{s} : s \in Signature}]

\* The calls, the strays and the indexes of the reduced state have their types.
TypeOK ==
    /\ revision \in 0..MaxLog
    /\ strays \subseteq Command
    /\ DOMAIN tenant.transcripts \subseteq Key
    /\ DOMAIN tenant.receipts \subseteq Receipt
    /\ \A r \in DOMAIN tenant.receipts : tenant.receipts[r] \in StoredRecord
    /\ \A c \in Client :
        \/ call[c].at = "done"
        \/ /\ call[c].at \in {"load", "publish"}
           /\ call[c].op \in Operation
           /\ call[c].attempt \in 1..maxMutationAttempts
           /\ call[c].at = "publish" => call[c].cmd \in Command /\ call[c].revision \in 0..revision

\* The log stays readable: whatever order concurrent operations, retries and
\* delayed publishes put their commands in, the reducer refuses none of them.
\* A single refused command would fail every later load of the tenant.
LogStaysReadable == tenant.ok

\* A record that was returned to a caller is in its transcript, at the
\* sequence the caller was told, with the signature the caller was shown.
ReturnedIsStored ==
    \A c \in Client :
        (call[c].at = "done" /\ "record" \in DOMAIN call[c].reply) =>
            LET told == call[c].reply.record
                records == tenant.transcripts[told.key].records
            IN /\ told.seq \in DOMAIN records
               /\ [records[told.seq] EXCEPT !.signature = told.signature] = told
               /\ told.signature \subseteq records[told.seq].signature

\* The command log implements the store contract of the in-memory adapter:
\* each command takes effect as one atomic operation of it.
Store == INSTANCE TranscriptStore WITH
    transcripts <- tenant.transcripts,
    channelURIs <- tenant.channelURIs,
    events <- tenant.events

ImplementsTranscriptStore == Store!Spec
=============================================================================
