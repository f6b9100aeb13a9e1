------------------------------ MODULE KVBucket ------------------------------
(***************************************************************************)
(* A NATS JetStream key-value bucket, as the adapters under                *)
(* internal/coordination/jetstreamkv use it.  The bucket is a stream: a    *)
(* revision is the position of a message in it, so revisions are shared    *)
(* by every key of the bucket.  Create and Update are compare-and-set on   *)
(* the last revision of one key.  What the adapters have to survive is     *)
(* kept: an accepted write whose answer is lost, a write that reaches the  *)
(* bucket after its caller gave up or never reaches it, and reads answered *)
(* by a replica that lags (the bucket profile insists on AllowDirect).     *)
(***************************************************************************)
EXTENDS Integers, Sequences, FiniteSets

CONSTANTS
  Key,        \* the keys of the bucket
  Retention,  \* KeyValueConfig.TTL: how long a message is kept
  MaxTime,    \* bound on the clock
  MaxLog,     \* bound on the number of messages
  MaxStray,   \* bound on the number of stray requests
  Lossy       \* whether an answer of the bucket can be lost

ASSUME BucketAssumption ==
  /\ Retention \in Nat \ {0}
  /\ MaxTime \in Nat
  /\ MaxLog \in Nat
  /\ MaxStray \in Nat
  /\ Lossy \in BOOLEAN

VARIABLES
  log,    \* the stream: one entry for each accepted write
  stray,  \* writes whose callers gave up before the bucket served them
  now     \* the clock

bucketVars == <<log, stray, now>>

\* An adapter names the operations O that write and the values V they store.
Request(O, V) == [op: O, key: Key, expect: Nat, value: V]

Entry(O, V) == [op: O, key: Key, expect: Nat, value: V, at: Nat]

BucketTypeOK(O, V) ==
  /\ log \in Seq(Entry(O, V))
  /\ stray \in SUBSET Request(O, V)
  /\ now \in Nat

BucketInit ==
  /\ log = << >>
  /\ stray = {}
  /\ now = 0

(***************************************************************************)
(* Reads                                                                   *)
(***************************************************************************)
Kept(i) == log[i].at + Retention > now

\* A replica that has seen the first n messages answers Get(k) with
\* revision r; r = 0 stands for ErrKeyNotFound.
Latest(n, k, r) ==
  \/ /\ r = 0
     /\ \A i \in 1..n : log[i].key = k => ~Kept(i)
  \/ /\ r \in 1..n
     /\ log[r].key = k
     /\ Kept(r)
     /\ \A i \in (r + 1)..n : log[i].key # k

\* Some replica answers Get(k) with the entry at r.
Get(k, r) == \E n \in 0..Len(log) : Latest(n, k, r)

(***************************************************************************)
(* Writes: Create expects revision 0, Update the revision it replaces      *)
(***************************************************************************)
Matches(r) == Latest(Len(log), r.key, r.expect)

\* Retention drops an entry written at time t within the bounded clock.
DropsBy(t) == t + Retention <= MaxTime

\* A write on its way may still be accepted: an update that was overtaken never
\* is, a create once retention has dropped the entry it found.
MayLand(r) ==
  /\ Len(log) < MaxLog
  /\ \/ Matches(r)
     \/ /\ r.expect = 0
        /\ \E i \in 1..Len(log) : Latest(Len(log), r.key, i) /\ DropsBy(log[i].at)

\* A stray write outlives the acceptance of r, of which it is not a copy.
Outlives(s, r) ==
  /\ s # r
  /\ Len(log) + 1 < MaxLog
  /\ s.key = r.key => s.expect = 0 /\ DropsBy(now)

\* The bucket takes the write, and the stray writes it overtakes are forgotten
\* unless they may still land.  Writes of the same bytes are one.
Accept(r) ==
  /\ Matches(r)
  /\ Len(log) < MaxLog
  /\ log' = Append(log, [op |-> r.op, key |-> r.key, expect |-> r.expect,
                         value |-> r.value, at |-> now])
  /\ stray' = {s \in stray : Outlives(s, r)}
  /\ UNCHANGED now

\* The write is refused: ErrKeyExists, or a wrong last sequence.
Refuse(r) == ~Matches(r) /\ UNCHANGED bucketVars

\* The caller gets an error that says nothing about the write: it was
\* accepted, or is still on its way, or never gets there.
Ambiguous(r) ==
  /\ Lossy
  /\ \/ Accept(r)
     \/ /\ MayLand(r)
        /\ Cardinality(stray) < MaxStray
        /\ stray' = stray \cup {r}
        /\ UNCHANGED <<log, now>>
     \/ UNCHANGED bucketVars

\* A stray write reaches the bucket.
ServeStray == \E r \in stray : Accept(r)

Tick ==
  /\ now < MaxTime
  /\ now' = now + 1
  /\ UNCHANGED <<log, stray>>

BucketNext == ServeStray \/ Tick
=============================================================================
