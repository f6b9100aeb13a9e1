------------------------------ MODULE NonceStore ------------------------------
(***************************************************************************)
(* Store.Consume of internal/coordination/jetstreamkv/store.go: a nonce is *)
(* consumed by creating its key, and an answer that was lost is reconciled *)
(* by one read.  Calls are numbered; a client that got no answer may send  *)
(* the same nonce again as another call.                                   *)
(***************************************************************************)
EXTENDS KVBucket

CONSTANTS
  Call,                \* the calls of Consume that are ever made
  Digest,              \* value digests
  MaxLifetime,         \* Config.MaxLifetime
  ReplaySafetyWindow   \* Config.ReplaySafetyWindow: no call takes longer

ASSUME NonceAssumption ==
  /\ MaxLifetime \in Nat \ {0}
  /\ ReplaySafetyWindow \in Nat \ {0}
  /\ Retention - MaxLifetime > ReplaySafetyWindow

VARIABLE calls   \* calls[c]: {} or the one state of call c

vars == <<bucketVars, calls>>

Value == [digest: Digest, expires: Nat]

State == [pc: {"create", "reconcile", "consumed", "replayed", "failed"},
          key: Key, value: Value, started: Nat]

TypeOK ==
  /\ BucketTypeOK({"consume"}, Value)
  /\ calls \in [Call -> SUBSET State]

Init ==
  /\ BucketInit
  /\ calls = [c \in Call |-> {}]

Expiry == 0..(MaxTime + MaxLifetime + 1)

ValidExpiry(e) == now < e /\ e <= now + MaxLifetime

Write(s) == [op |-> "consume", key |-> s.key, expect |-> 0, value |-> s.value]

Become(c, s, pc) == calls' = [calls EXCEPT ![c] = {[s EXCEPT !.pc = pc]}]

\* The caller's context has not run out.
InTime(s) == now <= s.started + ReplaySafetyWindow

Consume(c, k, d, e) ==
  /\ calls[c] = {}
  /\ ValidExpiry(e)
  /\ calls' = [calls EXCEPT ![c] = {[pc |-> "create", key |-> k, started |-> now,
                                     value |-> [digest |-> d, expires |-> e]]}]
  /\ UNCHANGED bucketVars

Create(c, s) ==
  /\ s.pc = "create"
  /\ InTime(s)
  /\ \/ Accept(Write(s)) /\ Become(c, s, "consumed")
     \/ Refuse(Write(s)) /\ Become(c, s, "replayed")
     \/ Ambiguous(Write(s)) /\ Become(c, s, "reconcile")

ReconcileAnyValue(c, s) ==
  /\ s.pc = "reconcile"
  /\ \/ Become(c, s, "failed")
     \/ \E r \in 1..Len(log) : Get(s.key, r) /\ Become(c, s, "consumed")
  /\ UNCHANGED bucketVars

\* The read fails, finds another value, or finds exactly this one.
Reconcile(c, s) ==
  /\ s.pc = "reconcile"
  /\ \/ Become(c, s, "failed")
     \/ \E r \in 1..Len(log) :
          /\ Get(s.key, r)
          /\ log[r].value = s.value
          /\ Become(c, s, "consumed")
  /\ UNCHANGED bucketVars

\* The caller's context ran out before the bucket was asked.
GiveUp(c, s) ==
  /\ s.pc = "create"
  /\ Become(c, s, "failed")
  /\ UNCHANGED bucketVars

Next ==
  \/ \E c \in Call, k \in Key, d \in Digest, e \in Expiry : Consume(c, k, d, e)
  \/ \E c \in Call : \E s \in calls[c] : Create(c, s)
  \/ \E c \in Call : \E s \in calls[c] : Reconcile(c, s)
  \/ \E c \in Call : \E s \in calls[c] : GiveUp(c, s)
  \/ BucketNext /\ UNCHANGED calls

Spec == Init /\ [][Next]_vars

Answered(c, outcome) == \E s \in calls[c] : s.pc = outcome

\* Once a nonce was consumed with one value, a call with another value can
\* consume it only after the first value has expired: retention outlives
\* every lifetime, however late a stray create arrives.
ChangedValueIsReplayed ==
  \A c, d \in Call : \A s \in calls[c], t \in calls[d] :
    s.pc = "consumed" /\ t.pc = "consumed" /\ s.key = t.key /\ s.value # t.value
      => s.value.expires <= now \/ t.value.expires <= now

\* A call answers consumed or replayed only when the nonce really is in the
\* bucket's history, and consumed only when its own value is.
AnswerIsOnRecord ==
  \A c \in Call : \A s \in calls[c] :
    /\ s.pc = "consumed" => \E r \in 1..Len(log) : log[r].key = s.key /\ log[r].value = s.value
    /\ s.pc = "replayed" => \E r \in 1..Len(log) : log[r].key = s.key

\* What Consume answers is true of the bucket and of every other answer.
AnswersAreTrue == ChangedValueIsReplayed /\ AnswerIsOnRecord
=============================================================================
