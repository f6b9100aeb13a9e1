--------------------------- MODULE RelayTranscript ---------------------------
(***************************************************************************)
(* One transcript of the reference relay: AppendService and                *)
(* RelayApplication of internal/relay/service over a durable relay.Store   *)
(* (the SQLite adapter), the HTTP handler that serves them, and the Go     *)
(* client's Watch.  A store operation is one transaction; signing is not   *)
(* part of it, so a committed record may have no signature yet.  A         *)
(* transaction that reports an error may have committed.                   *)
(***************************************************************************)
EXTENDS Integers, Sequences, FiniteSets, RelayEvents

CONSTANTS
  Published,  \* the <<event, body>> pairs clients publish
  Signs,      \* Signs[e]: what Signer.Sign may return for e; the port promises no single one
  Request,    \* concurrent publish requests
  Watcher,    \* clients that watch
  Limit       \* page size

ASSUME TranscriptAssumption ==
  /\ Published \subseteq Event \X Body
  /\ Signs \in [Event -> SUBSET Signature]
  /\ Limit \in Nat \ {0}

VARIABLES
  records,   \* accepted_records in server_sequence order
  request,   \* request[r]: {} or the publish request r is serving
  answered,  \* the receipts publishers were given
  watch,     \* watch[w]: {} or the Watch of client w
  stream     \* stream[w]: {} or the server's stream for w

transcriptVars == <<records, request, answered, watch, stream>>

\* A record; its signature is {} until one is attached.
Record == [event: Event, body: Body, signature: SUBSET Signature]

Serving == [pc: {"append", "sign", "respond"}, event: Event, body: Body,
            outcome: {"none", "appended", "duplicate"}, sequence: Nat,
            signature: SUBSET Signature]

\* Whom a receipt answers and what it says.
ReceiptGiven == [event: Event, body: Body, outcome: {"appended", "duplicate"}, sequence: Nat,
                 signature: (SUBSET Signature) \ {{}}]

Watching == [pc: {"replay", "connect", "stream"}, seen: Seq(Record)]

\* signal is the subscription's channel of capacity one.
Streaming == [pc: {"read", "send", "wait"}, cursor: Nat, batch: Seq(Record),
              more: BOOLEAN, signal: BOOLEAN]

TranscriptTypeOK ==
  /\ records \in Seq(Record)
  /\ request \in [Request -> SUBSET Serving]
  /\ answered \in SUBSET ReceiptGiven
  /\ watch \in [Watcher -> SUBSET Watching]
  /\ stream \in [Watcher -> SUBSET Streaming]

TranscriptInit ==
  /\ records = << >>
  /\ request = [r \in Request |-> {}]
  /\ answered = {}
  /\ watch = [w \in Watcher |-> {}]
  /\ stream = [w \in Watcher |-> {}]

readers == <<watch, stream>>

(***************************************************************************)
(* AppendService.AppendChecked                                             *)
(***************************************************************************)
Fail(r) == request' = [request EXCEPT ![r] = {}]

MoveTo(r, q, pc) == request' = [request EXCEPT ![r] = {[q EXCEPT !.pc = pc]}]

Find(e) == {n \in 1..Len(records) : records[n].event = e}

\* The event is on record: a collision, or a duplicate that may still have
\* to be signed.
Existing(r, q) ==
  \E n \in Find(q.event) :
    IF records[n].body # q.body
    THEN Fail(r)
    ELSE MoveTo(r, [q EXCEPT !.outcome = "duplicate", !.sequence = n,
                           !.signature = records[n].signature],
              IF records[n].signature = {} THEN "sign" ELSE "respond")

\* Store.Lookup, then Signer.Select, before any transaction.
Lookup(r, e, b) ==
  LET q == [pc |-> "append", event |-> e, body |-> b, outcome |-> "none", sequence |-> 0,
            signature |-> {}]
  IN  /\ request[r] = {}
      /\ Existing(r, q) \/ (Find(e) = {} /\ MoveTo(r, q, "append"))
      /\ UNCHANGED <<records, answered, readers>>

AppendNew(r, q) ==
  /\ records' = Append(records, [event |-> q.event, body |-> q.body, signature |-> {}])
  /\ \/ MoveTo(r, [q EXCEPT !.outcome = "appended", !.sequence = Len(records) + 1], "sign")
     \/ Fail(r)

\* Store.AppendChecked looks the event up again in the transaction that
\* allocates its sequence; admission may refuse it.
AppendChecked(r, q) ==
  /\ q.pc = "append"
  /\ \/ Existing(r, q) /\ UNCHANGED records
     \/ Find(q.event) = {} /\ AppendNew(r, q)
     \/ Fail(r) /\ UNCHANGED records
  /\ UNCHANGED <<answered, readers>>

AttachOverwrites(n, s) == records' = [records EXCEPT ![n].signature = {s}]

\* Store.AttachSignature keeps the first signature and refuses another.
AttachSignature(n, s) ==
  /\ records[n].signature \in {{}, {s}}
  /\ records' = [records EXCEPT ![n].signature = {s}]

\* ensureSigned: Signer.Sign, then AttachSignature.  Either may fail, and an
\* attachment that reports an error may have been committed.
EnsureSigned(r, q) ==
  /\ q.pc = "sign"
  /\ \/ \E s \in Signs[q.event] :
          /\ AttachSignature(q.sequence, s)
          /\ MoveTo(r, [q EXCEPT !.signature = {s}], "respond") \/ Fail(r)
     \/ Fail(r) /\ UNCHANGED records
  /\ UNCHANGED <<answered, readers>>

(***************************************************************************)
(* LiveChanges and the end of RelayApplication.Append                      *)
(***************************************************************************)
\* Every subscriber's channel holds at most one signal.
Notify == stream' = [w \in Watcher |-> {[s EXCEPT !.signal = TRUE] : s \in stream[w]}]

Respond(r, q) ==
  /\ q.pc = "respond"
  /\ request' = [request EXCEPT ![r] = {}]
  /\ answered' = answered \cup {[event |-> q.event, body |-> q.body, outcome |-> q.outcome,
                                 sequence |-> q.sequence, signature |-> q.signature]}
  /\ IF q.outcome = "appended" THEN Notify ELSE UNCHANGED stream
  /\ UNCHANGED <<records, watch>>

(***************************************************************************)
(* Watch: replay page by page, then follow the stream                      *)
(***************************************************************************)
Page(after) ==
  SubSeq(records, after + 1, IF after + Limit < Len(records) THEN after + Limit ELSE Len(records))
Complete(page) == \A i \in 1..Len(page) : page[i].signature # {}

Close(w) ==
  /\ watch' = [watch EXCEPT ![w] = {}]
  /\ stream' = [stream EXCEPT ![w] = {}]

Watch(w) ==
  /\ watch[w] = {}
  /\ watch' = [watch EXCEPT ![w] = {[pc |-> "replay", seen |-> << >>]}]
  /\ UNCHANGED <<records, request, answered, stream>>

\* An incomplete page ends the Watch; a short one ends the replay.
Replay(w, v) ==
  /\ v.pc = "replay"
  /\ LET page == Page(Len(v.seen))
     IN  IF Complete(page)
         THEN /\ watch' = [watch EXCEPT ![w] =
                   {[pc |-> IF Len(page) < Limit THEN "connect" ELSE "replay",
                     seen |-> v.seen \o page]}]
              /\ UNCHANGED stream
         ELSE Close(w)
  /\ UNCHANGED <<records, request, answered>>

ConnectWaiting(w, v) ==
  /\ v.pc = "connect"
  /\ watch' = [watch EXCEPT ![w] = {[v EXCEPT !.pc = "stream"]}]
  /\ stream' = [stream EXCEPT ![w] =
       {[pc |-> "wait", cursor |-> Len(v.seen), batch |-> << >>, more |-> FALSE,
         signal |-> FALSE]}]
  /\ UNCHANGED <<records, request, answered>>

\* RelayApplication.Stream subscribes before its first read.
Connect(w, v) ==
  /\ v.pc = "connect"
  /\ watch' = [watch EXCEPT ![w] = {[v EXCEPT !.pc = "stream"]}]
  /\ stream' = [stream EXCEPT ![w] =
       {[pc |-> "read", cursor |-> Len(v.seen), batch |-> << >>, more |-> FALSE,
         signal |-> FALSE]}]
  /\ UNCHANGED <<records, request, answered>>

ReadBatch(w, s) ==
  /\ s.pc = "read"
  /\ stream' = [stream EXCEPT ![w] =
       {[s EXCEPT !.pc = "send", !.batch = Page(s.cursor),
                  !.more = (Len(Page(s.cursor)) = Limit)]}]
  /\ UNCHANGED <<records, request, answered, watch>>

SendUnsigned(w, s) ==
  /\ s.pc = "send" /\ s.batch # << >>
  /\ stream' = [stream EXCEPT ![w] = {[s EXCEPT !.cursor = @ + 1, !.batch = Tail(@)]}]
  /\ watch' = [watch EXCEPT ![w] = {[v EXCEPT !.seen = Append(@, Head(s.batch))] : v \in @}]
  /\ UNCHANGED <<records, request, answered>>

\* A signed record reaches the client; an unsigned one is a boundary that
\* ends the stream.
Send(w, s) ==
  /\ s.pc = "send" /\ s.batch # << >>
  /\ IF Head(s.batch).signature = {}
     THEN Close(w)
     ELSE /\ stream' = [stream EXCEPT ![w] = {[s EXCEPT !.cursor = @ + 1, !.batch = Tail(@)]}]
          /\ watch' = [watch EXCEPT ![w] =
               {[v EXCEPT !.seen = Append(@, Head(s.batch))] : v \in @}]
  /\ UNCHANGED <<records, request, answered>>

\* The batch is out: read on after a full one, else wait for a signal.
EndBatch(w, s) ==
  /\ s.pc = "send" /\ s.batch = << >>
  /\ stream' = [stream EXCEPT ![w] = {[s EXCEPT !.pc = IF s.more THEN "read" ELSE "wait"]}]
  /\ UNCHANGED <<records, request, answered, watch>>

Wake(w, s) ==
  /\ s.pc = "wait" /\ s.signal
  /\ stream' = [stream EXCEPT ![w] = {[s EXCEPT !.pc = "read", !.signal = FALSE]}]
  /\ UNCHANGED <<records, request, answered, watch>>

\* The client goes away, its session is revoked, the stream's lifetime ends,
\* or a write or a read fails.
Disconnect(w) ==
  /\ watch[w] # {}
  /\ Close(w)
  /\ UNCHANGED <<records, request, answered>>

\* The relay process stops; what the store committed stays.
Restart ==
  /\ request' = [r \in Request |-> {}]
  /\ watch' = [w \in Watcher |-> {}]
  /\ stream' = [w \in Watcher |-> {}]
  /\ UNCHANGED <<records, answered>>

(***************************************************************************)
(* Specification                                                           *)
(***************************************************************************)
Serve(r) ==
  \E q \in request[r] :
    AppendChecked(r, q) \/ EnsureSigned(r, q) \/ Respond(r, q)

Follow(w) ==
  \/ \E v \in watch[w] : Replay(w, v) \/ Connect(w, v)
  \/ \E s \in stream[w] : ReadBatch(w, s) \/ Send(w, s) \/ EndBatch(w, s) \/ Wake(w, s)

TranscriptNext ==
  \/ \E r \in Request, p \in Published : Lookup(r, p[1], p[2])
  \/ \E r \in Request : Serve(r)
  \/ \E w \in Watcher : Watch(w) \/ Follow(w) \/ Disconnect(w)
  \/ Restart

\* The goroutine of an open stream runs on.
TranscriptFairness == \A w \in Watcher : WF_transcriptVars(Follow(w))

TranscriptSpec == TranscriptInit /\ [][TranscriptNext]_transcriptVars /\ TranscriptFairness

(***************************************************************************)
(* Properties                                                              *)
(***************************************************************************)

\* However requests interleave with retries, crashes and lost answers, an
\* event ID has one record: the lookup before the transaction is not what
\* makes a retry safe, the one inside it is.
OneRecordPerEvent == \A m, n \in 1..Len(records) : records[m].event = records[n].event => m = n

\* Every receipt handed out for an event is the same receipt, and it is the
\* one on record: "exact retry returns byte-identical signed receipt output".
ReceiptsAgree ==
  \A a \in answered :
    /\ a.signature # {}
    /\ a.sequence \in 1..Len(records)
    /\ records[a.sequence] = [event |-> a.event, body |-> a.body, signature |-> a.signature]

\* An exact retry of a publish finds the one record and its one receipt.
RetriesAgree == OneRecordPerEvent /\ ReceiptsAgree

\* What a watcher has been shown is the transcript's prefix, record for
\* record and signed, also when it moved from replay to stream while records
\* were appended: "unsigned sequence n prevents delivery of n and every later
\* record".
WatcherSeesSignedPrefix ==
  \A w \in Watcher : \A v \in watch[w] :
    /\ \E n \in 0..Len(records) : v.seen = SubSeq(records, 1, n)
    /\ Complete(v.seen)

\* A publish succeeded with outcome o and sequence n, and w's stream has not
\* got that far.
Behind(w, n, o) ==
  /\ \E a \in answered : a.sequence = n /\ a.outcome = o
  /\ \E s \in stream[w] : s.cursor < n

\* A record whose append succeeded reaches every open stream, unless the
\* stream ends first: no notification is lost between the durable read and
\* the wait, however many were coalesced.
AppendedIsDelivered ==
  \A w \in Watcher, n \in 1..Cardinality(Event) :
    Behind(w, n, "appended") ~> \A s \in stream[w] : s.cursor >= n

\* The same for every successful publish, a retry that completed a pending
\* signature included: "after Subscribe returns, a later successful append
\* eventually signals".
SuccessIsDelivered ==
  \A w \in Watcher, n \in 1..Cardinality(Event) :
    (\E o \in {"appended", "duplicate"} : Behind(w, n, o)) ~> \A s \in stream[w] : s.cursor >= n
=============================================================================
