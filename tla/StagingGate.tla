------------------------------ MODULE StagingGate ------------------------------
(***************************************************************************)
(* The request path of the staging service in front of Store.Consume:      *)
(* the runtime's readiness test, the handler's slots, the authorization    *)
(* pipeline of internal/primitivesauth with the authenticator, the proof   *)
(* replay store and the audit gate of internal/primitivesstaging, and the  *)
(* nonce store behind them.  Requests are numbered like the calls they may *)
(* make.  A request's clock is read once, before the replay transaction    *)
(* that uses it; the wall clock may have stepped back.                     *)
(***************************************************************************)
EXTENDS NonceStore

CONSTANTS
  Proof,           \* [jti, iat]: proofs that the registered key signs
  ProofPast,       \* how old a proof may be
  ProofFuture,     \* how far in the future it may have been issued
  ClockTolerance,  \* how far the clock may lag the high-water mark
  ProofRetain,     \* how long a proof is kept after its issue
  MaxReplay,       \* ReplayStore.maxEntries
  ReplayBatch,     \* the LIMIT of the deletion
  MaxConcurrent,   \* the handler's slots
  Expires,         \* Registration.expiresAt
  MaxSkew,         \* bound on a step of the clock
  MaxStart         \* bound on the number of starts of the process

ASSUME GateAssumption ==
  /\ {ProofPast, ProofFuture, ClockTolerance, ProofRetain, MaxSkew} \subseteq Nat
  /\ {MaxReplay, ReplayBatch, MaxConcurrent, Expires, MaxStart} \subseteq Nat \ {0}
  /\ \A p \in Proof : p.iat \in Nat
  /\ ProofRetain > ProofPast + ClockTolerance

VARIABLES
  phase,     \* the process
  starts,    \* how often it was started
  failed,    \* AuditGate.failed
  trail,     \* the records of the audit ledger about requests
  replays,   \* the replay database
  requests   \* requests[c]: {} or the one state of request c

gateVars == <<phase, starts, failed, trail, replays, requests>>

Row == [proof: Proof, retain: Int]

Recorded == {"dependency", "authentication", "action", "scope"}

\* open: AuditGate.record has found the latch down.
Admission == [step: Recorded \cup {"reserve", "run", "ended"}, open: BOOLEAN,
              proof: Proof, at: Int, outcome: {"none", "allow", "deny", "unavailable"}]

GateTypeOK ==
  /\ TypeOK
  /\ phase \in {"down", "serving"}
  /\ starts \in 0..MaxStart
  /\ failed \in BOOLEAN
  /\ trail \subseteq [request: Call, step: Recorded, outcome: {"allow", "deny", "unavailable"}]
  /\ replays \in [high: Int, rows: SUBSET Row]
  /\ requests \in [Call -> SUBSET Admission]

\* The first start has created the replay database with its time.
GateInit ==
  /\ Init
  /\ phase = "serving" /\ starts = 1 /\ failed = FALSE /\ trail = {}
  /\ replays = [high |-> 0, rows |-> {}]
  /\ requests = [c \in Call |-> {}]

\* What a reading of the wall clock may answer.
Wall == (now - MaxSkew)..now

(***************************************************************************)
(* The state of a request                                                  *)
(***************************************************************************)
NewRequest(p, t) ==
  [step |-> "reserve", open |-> FALSE, proof |-> p, at |-> t, outcome |-> "none"]

\* The clock is forgotten once authentication is over, and a proof that was
\* not accepted with it.
Settle(r, step, outcome) ==
  IF outcome = "allow"
  THEN [r EXCEPT !.step = step, !.outcome = outcome, !.at = 0]
  ELSE [NewRequest(CHOOSE p \in Proof : TRUE, 0) EXCEPT !.step = step, !.outcome = outcome]

Ended(r) == [Settle(r, "ended", r.outcome) EXCEPT !.open = FALSE]

(***************************************************************************)
(* The process                                                             *)
(***************************************************************************)
\* openApplication: the registration must be running; a lifecycle record
\* that fails keeps the process down.
OpenApplication ==
  /\ phase = "down" /\ starts < MaxStart
  /\ \E w \in Wall : w < Expires
  /\ phase' = "serving" /\ starts' = starts + 1 /\ failed' = FALSE
  /\ UNCHANGED <<vars, trail, replays, requests>>

\* The process ends, after its shutdown or at any time: what it was doing
\* ends with it, and the databases and the bucket stay.
Exit ==
  /\ phase = "serving"
  /\ phase' = "down"
  /\ requests' = [c \in Call |-> {Ended(r) : r \in requests[c]}]
  /\ calls' = [c \in Call |-> {[s EXCEPT !.pc = IF @ \in {"create", "reconcile"}
                                                THEN "failed" ELSE @] : s \in calls[c]}]
  /\ UNCHANGED <<bucketVars, starts, failed, trail, replays>>

(***************************************************************************)
(* The replay store: Reserve is one immediate transaction                  *)
(***************************************************************************)
Older(X, Y) == \A x \in X, y \in Y : x.retain <= y.retain

\* The deletion takes the oldest rows whose retention is over, at most a batch.
Deletes(rows, t, X) ==
  LET over == {x \in rows : x.retain <= t}
  IN  /\ X \subseteq over
      /\ Older(X, over \ X)
      /\ Cardinality(X) = IF Cardinality(over) < ReplayBatch THEN Cardinality(over) ELSE ReplayBatch

RetainUntilOneShort(iat, t) == iat + ProofPast + ClockTolerance

\* The second case is out of reach: a fresh proof is younger.
RetainUntil(iat, t) ==
  IF iat + ProofRetain > t THEN iat + ProofRetain ELSE t + ClockTolerance

Reserve(db, p, t, X) ==
  LET kept == db.rows \ X
  IN  IF t < db.high - ClockTolerance \/ Cardinality(kept) >= MaxReplay
      THEN [res |-> "unavailable", db |-> db]
      ELSE IF \E x \in kept : x.proof.jti = p.jti
      THEN [res |-> "deny", db |-> db]
      ELSE [res |-> "allow",
            db |-> [high |-> IF t > db.high THEN t ELSE db.high,
                    rows |-> kept \cup {[proof |-> p, retain |-> RetainUntil(p.iat, t)]}]]

ReplayReady(t) == t >= replays.high - ClockTolerance

(***************************************************************************)
(* Requests                                                                *)
(***************************************************************************)
Put(c, r) == requests' = [requests EXCEPT ![c] = {r}]

End(c, r) == Put(c, Ended(r))

\* A request keeps its slot until it is answered.
InFlight(c) ==
  \E r \in requests[c] :
    /\ r.step \notin {"dependency", "ended"}
    /\ \A s \in calls[c] : s.pc \in {"create", "reconcile"}

\* verifyDPoP, of a proof the registered key has signed for this target.
Fresh(iat, t) == iat <= t + ProofFuture /\ iat >= t - ProofPast

\* ReadinessSet.Ready: the authenticator and the gate.
Ready(t) == t < Expires /\ ReplayReady(t) /\ ~failed

\* publicHandler while a dependency is not ready: the refusal is recorded, and
\* the answer is 503 in any case.
Unready(c, p, t) ==
  /\ ~Ready(t)
  /\ Put(c, Settle(NewRequest(p, t), "dependency", IF t >= Expires THEN "deny" ELSE "unavailable"))

\* ServeHTTP takes a slot, and Authenticate reads the clock and verifies the
\* proof before it reserves it.
ServeHTTP(c, p, t) ==
  IF Cardinality({d \in Call : InFlight(d)}) >= MaxConcurrent
  THEN End(c, NewRequest(p, t))
  ELSE IF t < Expires /\ Fresh(p.iat, t)
  THEN Put(c, NewRequest(p, t))
  ELSE Put(c, Settle(NewRequest(p, t), "authentication", "deny"))

\* Readiness was tested with an earlier reading of the clock, u.
Arrive(c, p) ==
  /\ phase = "serving"
  /\ requests[c] = {}
  /\ \E t \in Wall : \/ Unready(c, p, t)
                     \/ (\E u \in Wall : Ready(u)) /\ ServeHTTP(c, p, t)
  /\ UNCHANGED <<vars, phase, starts, failed, trail, replays>>

\* The transaction commits, or fails with or without its effect.
Authenticate(c, r) ==
  /\ r.step = "reserve"
  /\ \E X \in SUBSET replays.rows :
       /\ Deletes(replays.rows, r.at, X)
       /\ LET a == Reserve(replays, r.proof, r.at, X)
          IN  \/ /\ replays' = a.db
                 /\ Put(c, Settle(r, "authentication", a.res))
              \/ /\ replays' \in {replays, a.db}
                 /\ Put(c, Settle(r, "authentication", "unavailable"))
  /\ UNCHANGED <<vars, phase, starts, failed, trail>>

\* AuditGate.record looks at the latch before it asks the ledger.
Latch(c, r) ==
  /\ r.step \in Recorded /\ ~r.open
  /\ IF failed THEN End(c, r) ELSE Put(c, [r EXCEPT !.open = TRUE])
  /\ UNCHANGED <<vars, phase, starts, failed, trail, replays>>

\* Registration.AuthorizeAction and AuthorizeScope allow the one registered
\* identity every action and every well-formed scope: only authentication
\* can be denied.
Decision(r) == IF r.step \in {"action", "scope"} THEN "allow" ELSE r.outcome

\* Where a request goes once the record of its decision is durable.
Following(r) ==
  IF Decision(r) # "allow" THEN "ended"
  ELSE CASE r.step = "authentication" -> "action"
         [] r.step = "action" -> "scope"
         [] r.step = "scope" -> "run"

RecordOf(c, r) == [request |-> c, step |-> r.step, outcome |-> Decision(r)]

RecordUnchecked(c, r) ==
  /\ r.open
  /\ Put(c, [r EXCEPT !.step = Following(r), !.open = FALSE])
  /\ \/ trail' = trail \cup {RecordOf(c, r)} /\ UNCHANGED failed
     \/ failed' = TRUE /\ UNCHANGED trail
  /\ UNCHANGED <<vars, phase, starts, replays>>

\* The ledger's answer: the record is durable, or the ledger or the request's
\* own context failed and the latch falls.  Nobody asks whether the failed
\* record is durable all the same; it is taken not to be.
Record(c, r) ==
  /\ r.open
  /\ \/ /\ trail' = trail \cup {RecordOf(c, r)}
        /\ Put(c, [r EXCEPT !.step = Following(r), !.open = FALSE])
        /\ UNCHANGED failed
     \/ failed' = TRUE /\ End(c, r) /\ UNCHANGED trail
  /\ UNCHANGED <<vars, phase, starts, replays>>

\* readCanonicalBody and dispatch come before the scope is authorized, and
\* refuse the body or run out of time.
RefuseBody(c, r) ==
  /\ r.step = "scope" /\ ~r.open
  /\ End(c, r)
  /\ UNCHANGED <<vars, phase, starts, failed, trail, replays>>

ConsumeNonce(c) == \E k \in Key, d \in Digest, e \in Expiry : Consume(c, k, d, e)

\* The operation is called once, and refuses an expiry out of range.
Run(c, r) ==
  /\ r.step = "run"
  /\ \/ ConsumeNonce(c) /\ UNCHANGED requests
     \/ calls[c] = {} /\ End(c, r) /\ UNCHANGED vars
  /\ UNCHANGED <<phase, starts, failed, trail, replays>>

OfCall == \E c \in Call : \E s \in calls[c] : Create(c, s) \/ Reconcile(c, s) \/ GiveUp(c, s)

GateNext ==
  \/ OpenApplication \/ Exit
  \/ \E c \in Call, p \in Proof : Arrive(c, p)
  \/ \E c \in Call : \E r \in requests[c] : Authenticate(c, r)
  \/ \E c \in Call : \E r \in requests[c] : Latch(c, r)
  \/ \E c \in Call : \E r \in requests[c] : Record(c, r)
  \/ \E c \in Call : \E r \in requests[c] : RefuseBody(c, r)
  \/ \E c \in Call : \E r \in requests[c] : Run(c, r)
  \/ OfCall /\ UNCHANGED gateVars
  \/ BucketNext /\ UNCHANGED <<calls, gateVars>>

GateSpec == GateInit /\ [][GateNext]_<<vars, gateVars>>

(***************************************************************************)
(* Properties                                                              *)
(***************************************************************************)
\* A signed proof authenticates at most one request, also when its row was
\* deleted by a request with a later clock, the clock stepped back afterwards,
\* the process was restarted or the commit of the reservation went unanswered.
ProofAcceptedOnce ==
  \A c, d \in Call : \A q \in requests[c], r \in requests[d] :
    c # d /\ q.outcome = "allow" /\ r.outcome = "allow" => q.proof # r.proof

\* No operation of the nonce store starts before the authentication and both
\* authorizations of its request are durable in the audit ledger, whatever
\* records of other requests fail in between.
OperationIsAudited ==
  \A c \in Call : calls[c] # {} =>
    \A step \in {"authentication", "action", "scope"} :
      [request |-> c, step |-> step, outcome |-> "allow"] \in trail
=============================================================================
