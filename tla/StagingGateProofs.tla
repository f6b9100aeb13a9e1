--------------------------- MODULE StagingGateProofs ---------------------------
(***************************************************************************)
(* The staging service, for every set of requests, proofs, keys and        *)
(* values, every clock skew and every bound of StagingGate: what Consume   *)
(* answers is true, a signed proof authenticates one request, and no       *)
(* operation starts before its request is audited.                         *)
(*                                                                         *)
(* The argument for the nonces: a value has at most MaxLifetime left when  *)
(* its create is sent, so also when it lands; a second entry of a nonce    *)
(* lands only once retention dropped the first, which is later.  For the   *)
(* proofs: a row is only deleted by a transaction whose time is past the   *)
(* row's retention and that raises the high-water mark to it; from then on *)
(* a clock that the mark admits makes the proof too old.                   *)
(***************************************************************************)
EXTENDS StagingGate, KVBucketProofs

(***************************************************************************)
(* The inductive invariant                                                 *)
(***************************************************************************)
\* Every create is sent while its value has at most a lifetime left.
RequestsInBounds ==
  /\ \A r \in stray : r.expect = 0 /\ r.value.expires <= now + MaxLifetime
  /\ \A c \in Call : \A s \in calls[c] : s.value.expires <= now + MaxLifetime

\* Two entries of one nonce are a retention period apart.
LogInv ==
  /\ \A i \in 1..Len(log) : log[i].at <= now /\ log[i].value.expires <= log[i].at + MaxLifetime
  /\ \A i, j \in 1..Len(log) :
       i < j /\ log[i].key = log[j].key => log[i].at + Retention <= log[j].at

NonceInv == TypeOK /\ RequestsInBounds /\ LogInv /\ AnswerIsOnRecord

\* A proof that was accepted has its row, or the high-water mark has passed the
\* time until which the row was kept.
Spent(p) ==
  \/ \E x \in replays.rows : x.proof = p
  \/ replays.high >= p.iat + ProofRetain

RowsInv == \A x \in replays.rows : x.retain = x.proof.iat + ProofRetain

Audited(c, step) == [request |-> c, step |-> step, outcome |-> "allow"] \in trail

\* What the step of a request says of its proof and of its records.
RequestInv(c, r) ==
  /\ r.open => r.step \in Recorded
  /\ r.step = "reserve" => r.outcome = "none" /\ Fresh(r.proof.iat, r.at)
  /\ r.step \in {"dependency", "authentication"} => r.outcome # "none"
  /\ r.step = "dependency" => r.outcome # "allow"
  /\ r.step \in {"action", "scope", "run"} => Audited(c, "authentication")
  /\ r.step \in {"scope", "run"} => Audited(c, "action")
  /\ r.step = "run" => Audited(c, "scope")
  /\ r.outcome = "allow" => Spent(r.proof)

RequestsInv == \A c \in Call : \A r \in requests[c] : RequestInv(c, r)

GateInv ==
  /\ NonceInv
  /\ GateTypeOK
  /\ RowsInv
  /\ RequestsInv
  /\ ProofAcceptedOnce
  /\ OperationIsAudited

(***************************************************************************)
(* Consume                                                                 *)
(***************************************************************************)

\* The constants of the nonce store.
LEMMA NonceConstants ==
  /\ MaxLifetime \in Nat /\ Retention \in Nat \ {0} /\ MaxLifetime < Retention
  /\ MaxTime \in Nat
  BY NonceAssumption, BucketAssumption

\* The entries of the stream, one by one.
LEMMA EntryFields ==
  ASSUME TypeOK
  PROVE  /\ log \in Seq(Entry({"consume"}, Value)) /\ Len(log) \in Nat /\ now \in Nat
         /\ \A i \in 1..Len(log) : log[i].at \in Nat /\ log[i].value.expires \in Nat
<1>1. log \in Seq(Entry({"consume"}, Value)) /\ now \in Nat
  BY Zenon DEF TypeOK, BucketTypeOK
<1>2. \A i \in 1..Len(log) : log[i] \in Entry({"consume"}, Value)
  BY <1>1
<1>. QED
  BY <1>1, <1>2 DEF Entry, Value

\* A create that lands keeps the entries of its nonce a retention period apart.
LEMMA AcceptKeepsLog ==
  ASSUME TypeOK, LogInv, NEW r \in Request({"consume"}, Value), r.expect = 0,
         r.value.expires <= now + MaxLifetime, Accept(r)
  PROVE  /\ BucketTypeOK({"consume"}, Value)'
         /\ LogInv'
         /\ Len(log') = Len(log) + 1
         /\ \A i \in 1..Len(log) : log'[i] = log[i]
         /\ log'[Len(log) + 1].key = r.key /\ log'[Len(log) + 1].value = r.value
         /\ now' = now
<1>1. /\ BucketTypeOK({"consume"}, Value)'
      /\ Len(log') = Len(log) + 1
      /\ \A i \in 1..Len(log) : log'[i] = log[i]
      /\ log'[Len(log) + 1] = [op |-> r.op, key |-> r.key, expect |-> r.expect,
                               value |-> r.value, at |-> now]
      /\ now' = now
  BY AcceptAppends, Zenon DEF TypeOK
<1>2. Len(log) \in Nat /\ now \in Nat /\ \A i \in 1..Len(log) : log[i].at \in Nat
  BY EntryFields, Zenon
<1>3. PICK m \in Nat : m = Len(log) + 1
  BY <1>2
<1>4. /\ log'[m].key = r.key /\ log'[m].value = r.value /\ log'[m].at = now
      /\ Len(log') = m
      /\ \A i \in 1..m : i = m \/ (i \in 1..Len(log) /\ log'[i] = log[i])
  BY <1>1, <1>2, <1>3
<1>5. \A i \in 1..Len(log) : log[i].key = r.key => log[i].at + Retention <= now
  <2>1. \A i \in 1..Len(log) : log[i].key = r.key => ~Kept(i)
    BY DEF Accept, Matches, Latest
  <2>. QED
    BY <1>2, <2>1, NonceConstants DEF Kept
<1>6. LogInv'
  <2>1. ASSUME NEW i \in 1..m
        PROVE  log'[i].at <= now' /\ log'[i].value.expires <= log'[i].at + MaxLifetime
    BY <1>1, <1>2, <1>4 DEF LogInv
  <2>2. ASSUME NEW i \in 1..m, NEW j \in 1..m, i < j, log'[i].key = log'[j].key
        PROVE  log'[i].at + Retention <= log'[j].at
    <3>1. i \in 1..Len(log) /\ log'[i] = log[i]
      BY <1>2, <1>3, <1>4, <2>2
    <3>. QED
      BY <1>4, <1>5, <2>2, <3>1, Zenon DEF LogInv
  <2>. QED
    BY <1>4, <2>1, <2>2, Zenon DEF LogInv
<1>. QED
  BY <1>1, <1>6

\* The stream only grows.
Grows ==
  /\ Len(log) <= Len(log')
  /\ \A i \in 1..Len(log) : log'[i] = log[i]

\* The request a call sends.
LEMMA WriteFields ==
  ASSUME NEW s \in State
  PROVE  /\ Write(s) \in Request({"consume"}, Value)
         /\ Write(s).expect = 0 /\ Write(s).key = s.key /\ Write(s).value = s.value
  BY Zenon DEF Write, Request, State

\* What the bucket makes of one request.
LEMMA ServeKeeps ==
  ASSUME TypeOK, RequestsInBounds, LogInv, NEW r \in Request({"consume"}, Value), r.expect = 0,
         r.value.expires <= now + MaxLifetime,
         Accept(r) \/ Refuse(r) \/ Ambiguous(r)
  PROVE  /\ BucketTypeOK({"consume"}, Value)'
         /\ LogInv' /\ Grows /\ now' = now
         /\ \A q \in stray' : q.expect = 0 /\ q.value.expires <= now' + MaxLifetime
<1>1. CASE Accept(r)
  <2>1. /\ BucketTypeOK({"consume"}, Value)'
        /\ LogInv'
        /\ Len(log') = Len(log) + 1
        /\ \A i \in 1..Len(log) : log'[i] = log[i]
        /\ now' = now
    BY <1>1, AcceptKeepsLog, Zenon
  <2>2. Len(log) \in Nat
    BY EntryFields, Zenon
  <2>3. stray' \subseteq stray
    BY <1>1, Zenon DEF Accept
  <2>. QED
    BY <2>1, <2>2, <2>3 DEF Grows, RequestsInBounds
<1>2. CASE UNCHANGED <<log, now>> /\ stray' \subseteq stray \cup {r}
  <2>1. BucketTypeOK({"consume"}, Value)' /\ LogInv'
    BY <1>2, Zenon DEF TypeOK, BucketTypeOK, LogInv
  <2>2. Grows
    BY <1>2, EntryFields DEF Grows
  <2>. QED
    BY <1>2, <2>1, <2>2, Zenon DEF RequestsInBounds
<1>. QED
  BY <1>1, <1>2, Zenon DEF Refuse, Ambiguous, bucketVars

\* A call that goes on: what it answers is on record, and stays so.
LEMMA BecomeKeeps ==
  ASSUME NonceInv, BucketTypeOK({"consume"}, Value)', LogInv', Grows, now' = now,
         \A q \in stray' : q.expect = 0 /\ q.value.expires <= now' + MaxLifetime,
         NEW c \in Call, NEW s \in calls[c],
         NEW pc \in {"create", "reconcile", "consumed", "replayed", "failed"}, Become(c, s, pc),
         pc = "consumed" => \E r \in 1..Len(log') : log'[r].key = s.key /\ log'[r].value = s.value,
         pc = "replayed" => \E r \in 1..Len(log') : log'[r].key = s.key
  PROVE  NonceInv'
<1>1. s \in State /\ calls \in [Call -> SUBSET State] /\ Len(log) \in Nat /\ now \in Nat
  BY EntryFields, Zenon DEF NonceInv, TypeOK
<1> DEFINE z == [s EXCEPT !.pc = pc]
<1>2. z \in State /\ z.pc = pc /\ z.key = s.key /\ z.value = s.value
  BY <1>1, Zenon DEF State
<1>3. /\ calls' \in [Call -> SUBSET State]
      /\ \A d \in Call : calls'[d] = IF d = c THEN {z} ELSE calls[d]
  BY <1>1, <1>2, Zenon DEF Become
<1> HIDE DEF z
<1>4. TypeOK'
  BY <1>3, Zenon DEF TypeOK
<1>5. RequestsInBounds'
  <2>1. \A d \in Call : \A t \in calls'[d] : t.value.expires <= now' + MaxLifetime
    BY <1>2, <1>3, Zenon DEF NonceInv, RequestsInBounds
  <2>. QED
    BY <2>1, Zenon DEF RequestsInBounds
<1>6. AnswerIsOnRecord'
  <2>1. \A r \in 1..Len(log) : r \in 1..Len(log') /\ log'[r] = log[r]
    <3>1. log' \in Seq(Entry({"consume"}, Value))
      BY Zenon DEF BucketTypeOK
    <3>2. Len(log') \in Nat
      BY <3>1
    <3>. QED
      BY <1>1, <3>2 DEF Grows
  <2>2. ASSUME NEW d \in Call, NEW t \in calls'[d]
        PROVE  /\ t.pc = "consumed" =>
                    \E r \in 1..Len(log') : log'[r].key = t.key /\ log'[r].value = t.value
               /\ t.pc = "replayed" => \E r \in 1..Len(log') : log'[r].key = t.key
    <3>1. CASE d = c
      BY <1>2, <1>3, <3>1, Zenon
    <3>2. CASE d # c
      BY <1>3, <2>1, <3>2 DEF NonceInv, AnswerIsOnRecord
    <3>. QED
      BY <3>1, <3>2, Zenon
  <2>. QED
    BY <2>2, Zenon DEF AnswerIsOnRecord
<1>. QED
  BY <1>4, <1>5, <1>6, Zenon DEF NonceInv

\* Create, its reconciliation and the context that runs out.
LEMMA CallKeeps ==
  ASSUME NonceInv, NEW c \in Call, NEW s \in calls[c],
         Create(c, s) \/ Reconcile(c, s) \/ GiveUp(c, s)
  PROVE  NonceInv'
<1>0. /\ s \in State /\ TypeOK /\ LogInv /\ RequestsInBounds
      /\ log \in Seq(Entry({"consume"}, Value)) /\ Len(log) \in Nat /\ now \in Nat
  BY EntryFields, Zenon DEF NonceInv, TypeOK
<1>1. CASE Create(c, s)
  <2>1. /\ Write(s) \in Request({"consume"}, Value)
        /\ Write(s).expect = 0 /\ Write(s).key = s.key /\ Write(s).value = s.value
    BY <1>0, WriteFields, Zenon
  <2>2. Write(s).value.expires <= now + MaxLifetime
    BY <1>0, <2>1, Zenon DEF RequestsInBounds
  <2>3. Accept(Write(s)) \/ Refuse(Write(s)) \/ Ambiguous(Write(s))
    BY <1>1, Zenon DEF Create
  <2>4. /\ BucketTypeOK({"consume"}, Value)'
        /\ LogInv' /\ Grows /\ now' = now
        /\ \A q \in stray' : q.expect = 0 /\ q.value.expires <= now' + MaxLifetime
    BY <1>0, <2>1, <2>2, <2>3, ServeKeeps, Zenon
  <2>5. ASSUME Accept(Write(s)), Become(c, s, "consumed")  PROVE NonceInv'
    <3>1. /\ Len(log') = Len(log) + 1
          /\ log'[Len(log) + 1].key = s.key /\ log'[Len(log) + 1].value = s.value
      BY <1>0, <2>1, <2>2, <2>5, AcceptKeepsLog, Zenon
    <3>2. \E r \in 1..Len(log') : log'[r].key = s.key /\ log'[r].value = s.value
      BY <1>0, <3>1
    <3>. QED
      BY <2>4, <2>5, <3>2, BecomeKeeps, Zenon
  <2>6. ASSUME Refuse(Write(s)), Become(c, s, "replayed")  PROVE NonceInv'
    <3>1. \E r \in 1..Len(log) : log[r].key = s.key
      BY <2>1, <2>6, Zenon DEF Refuse, Matches, Latest
    <3>2. \E r \in 1..Len(log') : log'[r].key = s.key
      BY <2>6, <3>1, Zenon DEF Refuse, bucketVars
    <3>. QED
      BY <2>4, <2>6, <3>2, BecomeKeeps, Zenon
  <2>7. ASSUME Become(c, s, "reconcile")  PROVE NonceInv'
    BY <2>4, <2>7, BecomeKeeps, Zenon
  <2>. QED
    BY <1>1, <2>5, <2>6, <2>7, Zenon DEF Create
<1>2. CASE Reconcile(c, s) \/ GiveUp(c, s)
  <2>1. UNCHANGED <<log, stray, now>>
    BY <1>2, Zenon DEF Reconcile, GiveUp, bucketVars
  <2>2. /\ BucketTypeOK({"consume"}, Value)'
        /\ LogInv' /\ Grows
        /\ \A q \in stray' : q.expect = 0 /\ q.value.expires <= now' + MaxLifetime
    BY <1>0, <2>1 DEF TypeOK, BucketTypeOK, LogInv, Grows, RequestsInBounds
  <2>3. ASSUME Become(c, s, "failed")  PROVE NonceInv'
    BY <2>1, <2>2, <2>3, BecomeKeeps, Zenon
  <2>4. ASSUME NEW r \in 1..Len(log), Get(s.key, r), log[r].value = s.value, Become(c, s, "consumed")
        PROVE  NonceInv'
    <3>1. log[r].key = s.key
      BY <1>0, <2>4 DEF Get, Latest
    <3>2. \E q \in 1..Len(log') : log'[q].key = s.key /\ log'[q].value = s.value
      BY <2>1, <2>4, <3>1, Zenon
    <3>. QED
      BY <2>1, <2>2, <2>4, <3>2, BecomeKeeps, Zenon
  <2>. QED
    BY <1>2, <2>3, <2>4, Zenon DEF Reconcile, GiveUp
<1>. QED
  BY <1>1, <1>2, Zenon

\* Consume starts with a value that has at most a lifetime left.
LEMMA ConsumeKeeps ==
  ASSUME NonceInv, NEW c \in Call, ConsumeNonce(c)
  PROVE  NonceInv'
<1>0. PICK k \in Key, d \in Digest, e \in Expiry : Consume(c, k, d, e)
  BY Zenon DEF ConsumeNonce
<1>1. UNCHANGED <<log, stray, now>> /\ calls \in [Call -> SUBSET State] /\ now \in Nat
  BY <1>0, Zenon DEF Consume, bucketVars, NonceInv, TypeOK, BucketTypeOK
<1>2. e \in Nat
  BY NonceConstants DEF Expiry
<1> DEFINE z == [pc |-> "create", key |-> k, started |-> now,
                 value |-> [digest |-> d, expires |-> e]]
<1>3. z \in State /\ z.pc = "create" /\ z.value.expires = e
  BY <1>1, <1>2, Zenon DEF State, Value
<1>4. /\ calls' \in [Call -> SUBSET State]
      /\ \A b \in Call : calls'[b] = IF b = c THEN {z} ELSE calls[b]
  BY <1>0, <1>1, <1>3, Zenon DEF Consume
<1> HIDE DEF z
<1>5. TypeOK' /\ LogInv'
  BY <1>1, <1>4, Zenon DEF NonceInv, TypeOK, BucketTypeOK, LogInv
<1>6. RequestsInBounds'
  BY <1>0, <1>1, <1>3, <1>4, Zenon DEF NonceInv, RequestsInBounds, Consume, ValidExpiry
<1>7. AnswerIsOnRecord'
  BY <1>1, <1>3, <1>4 DEF NonceInv, AnswerIsOnRecord
<1>. QED
  BY <1>5, <1>6, <1>7, Zenon DEF NonceInv

\* A stray create lands, or time passes.
LEMMA BucketKeeps ==
  ASSUME NonceInv, BucketNext, UNCHANGED calls
  PROVE  NonceInv'
<1>0. /\ TypeOK /\ LogInv /\ RequestsInBounds /\ Len(log) \in Nat /\ now \in Nat
      /\ \A i \in 1..Len(log) : log[i].at \in Nat
      /\ \A c \in Call : \A s \in calls[c] : s.value.expires \in Nat
      /\ \A q \in stray : q.value.expires \in Nat
  <2>1. /\ TypeOK /\ LogInv /\ RequestsInBounds
    BY Zenon DEF NonceInv
  <2>2. \A c \in Call : \A s \in calls[c] : s \in State
    BY <2>1, Zenon DEF TypeOK
  <2>3. \A q \in stray : q \in Request({"consume"}, Value)
    BY <2>1, Zenon DEF TypeOK, BucketTypeOK
  <2>. QED
    BY <2>1, <2>2, <2>3, EntryFields, Zenon DEF State, Request, Value
<1>1. ASSUME NEW r \in stray, Accept(r)  PROVE NonceInv'
  <2>1. r \in Request({"consume"}, Value) /\ r.expect = 0 /\ r.value.expires <= now + MaxLifetime
    BY <1>0, Zenon DEF TypeOK, BucketTypeOK, RequestsInBounds
  <2>2. /\ BucketTypeOK({"consume"}, Value)'
        /\ LogInv'
        /\ Len(log') = Len(log) + 1
        /\ \A i \in 1..Len(log) : log'[i] = log[i]
        /\ now' = now
    BY <1>0, <1>1, <2>1, AcceptKeepsLog, Zenon
  <2>3. stray' \subseteq stray
    BY <1>1, Zenon DEF Accept
  <2>4. TypeOK' /\ RequestsInBounds'
    BY <1>0, <2>2, <2>3, Zenon DEF TypeOK, RequestsInBounds
  <2>5. AnswerIsOnRecord'
    <3>1. \A i \in 1..Len(log) : i \in 1..Len(log') /\ log'[i] = log[i]
      BY <1>0, <2>2
    <3>. QED
      BY <3>1 DEF NonceInv, AnswerIsOnRecord
  <2>. QED
    BY <2>2, <2>4, <2>5, Zenon DEF NonceInv
<1>2. CASE Tick
  <2>1. now' = now + 1 /\ log' = log /\ stray' = stray
    BY <1>2, Zenon DEF Tick
  <2>2. TypeOK'
    BY <1>0, <2>1 DEF TypeOK, BucketTypeOK
  <2>3. LogInv'
    BY <1>0, <2>1 DEF LogInv
  <2>4. RequestsInBounds'
    BY <1>0, <2>1, NonceConstants DEF RequestsInBounds
  <2>5. AnswerIsOnRecord'
    BY <2>1, Zenon DEF NonceInv, AnswerIsOnRecord
  <2>. QED
    BY <2>2, <2>3, <2>4, <2>5, Zenon DEF NonceInv
<1>. QED
  BY <1>1, <1>2, Zenon DEF BucketNext, ServeStray

\* The process ends: a call that was not answered fails.
LEMMA ExitKeepsCalls ==
  ASSUME NonceInv, Exit
  PROVE  NonceInv'
<1>1. UNCHANGED <<log, stray, now>> /\ calls \in [Call -> SUBSET State] /\ now \in Nat
  BY Zenon DEF Exit, bucketVars, NonceInv, TypeOK, BucketTypeOK
<1>2. ASSUME NEW c \in Call, NEW z \in calls'[c]
      PROVE  \E s \in calls[c] : /\ z \in State /\ z.key = s.key /\ z.value = s.value
                                 /\ z.pc = s.pc \/ z.pc = "failed"
  <2>1. PICK s \in calls[c] : z = [s EXCEPT !.pc = IF @ \in {"create", "reconcile"}
                                                   THEN "failed" ELSE @]
    BY <1>2, Zenon DEF Exit
  <2>2. s \in State /\ s.pc \in {"create", "reconcile", "consumed", "replayed", "failed"}
    BY <1>1 DEF State
  <2>3. PICK pc \in {"create", "reconcile", "consumed", "replayed", "failed"} :
          /\ z = [s EXCEPT !.pc = pc]
          /\ pc = s.pc \/ pc = "failed"
    BY <2>1, <2>2, Zenon
  <2>. QED
    BY <2>2, <2>3, Zenon DEF State
<1>3. calls' \in [Call -> SUBSET State]
  <2>1. DOMAIN calls' = Call /\ calls' = [c \in Call |-> calls'[c]]
    BY Zenon DEF Exit
  <2>. QED
    BY <1>2, <2>1, Zenon
<1>4. TypeOK' /\ LogInv'
  BY <1>1, <1>3, Zenon DEF NonceInv, TypeOK, BucketTypeOK, LogInv
<1>5. RequestsInBounds'
  BY <1>1, <1>2, Zenon DEF NonceInv, RequestsInBounds
<1>6. AnswerIsOnRecord'
  BY <1>1, <1>2 DEF NonceInv, AnswerIsOnRecord
<1>. QED
  BY <1>4, <1>5, <1>6, Zenon DEF NonceInv

\* What is kept longer than it lives is dropped after it expired.
LEMMA ExpiredBefore ==
  ASSUME NEW e \in Nat, NEW a \in Nat, NEW b \in Nat, NEW t \in Nat,
         e <= a + MaxLifetime, a + Retention <= b, b <= t
  PROVE  e <= t
  BY NonceConstants

\* Two values that were consumed are two entries of the stream, and the earlier
\* one expired before retention dropped it.
LEMMA NonceGives ==
  ASSUME NonceInv
  PROVE  AnswersAreTrue
<1>0. /\ Len(log) \in Nat /\ now \in Nat
      /\ \A i \in 1..Len(log) : log[i].at \in Nat /\ log[i].value.expires \in Nat
  BY EntryFields, Zenon DEF NonceInv
<1>1. ASSUME NEW i \in 1..Len(log), NEW j \in 1..Len(log), i < j, log[i].key = log[j].key
      PROVE  log[i].value.expires <= now
  <2>1. /\ log[i].at + Retention <= log[j].at /\ log[j].at <= now
        /\ log[i].value.expires <= log[i].at + MaxLifetime
    BY <1>1, Zenon DEF NonceInv, LogInv
  <2>2. /\ log[i].at \in Nat /\ log[j].at \in Nat /\ log[i].value.expires \in Nat /\ now \in Nat
    BY <1>0, Zenon
  <2>. QED
    BY <2>1, <2>2, ExpiredBefore, Zenon
<1>2. ASSUME NEW c \in Call, NEW d \in Call, NEW s \in calls[c], NEW t \in calls[d],
             s.pc = "consumed", t.pc = "consumed", s.key = t.key, s.value # t.value
      PROVE  s.value.expires <= now \/ t.value.expires <= now
  <2>1. PICK i \in 1..Len(log) : log[i].key = s.key /\ log[i].value = s.value
    BY <1>2, Zenon DEF NonceInv, AnswerIsOnRecord
  <2>2. PICK j \in 1..Len(log) : log[j].key = t.key /\ log[j].value = t.value
    BY <1>2, Zenon DEF NonceInv, AnswerIsOnRecord
  <2>3. i < j \/ j < i
    BY <1>0, <1>2, <2>1, <2>2
  <2>. QED
    BY <1>1, <1>2, <2>1, <2>2, <2>3, Zenon
<1>. QED
  BY <1>2, Zenon DEF AnswersAreTrue, ChangedValueIsReplayed, NonceInv

(***************************************************************************)
(* The state of a request                                                  *)
(***************************************************************************)
Outcome == {"none", "allow", "deny", "unavailable"}

\* The constants of the gate, as numbers.
LEMMA GateConstants ==
  /\ ProofPast \in Nat /\ ProofFuture \in Nat /\ ClockTolerance \in Nat /\ ProofRetain \in Nat
  /\ MaxSkew \in Nat /\ MaxStart \in Nat \ {0}
  /\ \A p \in Proof : p.iat \in Nat
  /\ ProofRetain > ProofPast + ClockTolerance
  BY GateAssumption, Zenon

\* A request as it arrives.
LEMMA NewFields ==
  ASSUME NEW p \in Proof, NEW t \in Int
  PROVE  /\ NewRequest(p, t) \in Admission
         /\ NewRequest(p, t).step = "reserve" /\ NewRequest(p, t).outcome = "none"
         /\ NewRequest(p, t).proof = p /\ NewRequest(p, t).at = t
         /\ ~NewRequest(p, t).open
  BY Zenon DEF NewRequest, Admission

\* Settle keeps the proof of a request that was allowed.
LEMMA SettleFields ==
  ASSUME NEW r \in Admission, NEW step \in Recorded \cup {"reserve", "run", "ended"},
         NEW outcome \in Outcome
  PROVE  /\ Settle(r, step, outcome) \in Admission
         /\ Settle(r, step, outcome).step = step
         /\ Settle(r, step, outcome).outcome = outcome
         /\ outcome = "allow" => /\ Settle(r, step, outcome).proof = r.proof
                                 /\ (Settle(r, step, outcome).open => r.open)
         /\ outcome # "allow" => ~Settle(r, step, outcome).open
<1>1. r.proof \in Proof /\ r.open \in BOOLEAN
  BY Zenon DEF Admission
<1>2. CASE outcome = "allow"
  <2>1. Settle(r, step, outcome) = [step |-> step, open |-> r.open, proof |-> r.proof,
                                    at |-> 0, outcome |-> outcome]
    BY <1>2, Zenon DEF Settle, Admission
  <2>. QED
    BY <1>1, <1>2, <2>1 DEF Admission, Outcome
<1>3. CASE outcome # "allow"
  <2>1. PICK p \in Proof : p = CHOOSE q \in Proof : TRUE
    BY <1>1, Zenon
  <2>2. PICK n \in Admission : n = NewRequest(p, 0) /\ ~n.open
    <3>1. NewRequest(p, 0) \in Admission /\ ~NewRequest(p, 0).open
      BY <2>1, NewFields
    <3>. QED
      BY <3>1, Zenon
  <2>3. Settle(r, step, outcome) = [n EXCEPT !.step = step, !.outcome = outcome]
    BY <1>3, <2>1, <2>2, Zenon DEF Settle
  <2> DEFINE z == [n EXCEPT !.step = step, !.outcome = outcome]
  <2>4. z \in Admission /\ z.step = step /\ z.outcome = outcome /\ (z.open => n.open)
    BY Zenon DEF Admission, Outcome
  <2> HIDE DEF z
  <2>5. Settle(r, step, outcome) = z
    BY <2>3, Zenon DEF z
  <2>. QED
    BY <1>3, <2>2, <2>4, <2>5, Zenon
<1>. QED
  BY <1>2, <1>3, Zenon

\* ... and so does the end of a request.
LEMMA EndedFields ==
  ASSUME NEW r \in Admission
  PROVE  /\ Ended(r) \in Admission
         /\ Ended(r).step = "ended" /\ Ended(r).outcome = r.outcome /\ ~Ended(r).open
         /\ r.outcome = "allow" => Ended(r).proof = r.proof
<1>1. r.outcome \in Outcome
  BY Zenon DEF Admission, Outcome
<1>2. /\ Settle(r, "ended", r.outcome) \in Admission
      /\ Settle(r, "ended", r.outcome).step = "ended"
      /\ Settle(r, "ended", r.outcome).outcome = r.outcome
      /\ r.outcome = "allow" => Settle(r, "ended", r.outcome).proof = r.proof
  BY <1>1, SettleFields
<1>3. ASSUME NEW z \in Admission
      PROVE  /\ [z EXCEPT !.open = FALSE] \in Admission
             /\ [z EXCEPT !.open = FALSE].step = z.step
             /\ [z EXCEPT !.open = FALSE].outcome = z.outcome
             /\ [z EXCEPT !.open = FALSE].proof = z.proof
             /\ ~[z EXCEPT !.open = FALSE].open
  BY Zenon DEF Admission
<1>. QED
  BY <1>2, <1>3, Zenon DEF Ended

\* The latch is passed, or the record is durable.
LEMMA MovedFields ==
  ASSUME NEW r \in Admission, NEW step \in Recorded \cup {"reserve", "run", "ended"}
  PROVE  /\ [r EXCEPT !.step = step, !.open = FALSE] \in Admission
         /\ [r EXCEPT !.step = step, !.open = FALSE].step = step
         /\ ~[r EXCEPT !.step = step, !.open = FALSE].open
         /\ [r EXCEPT !.step = step, !.open = FALSE].outcome = r.outcome
         /\ [r EXCEPT !.step = step, !.open = FALSE].proof = r.proof
         /\ [r EXCEPT !.open = TRUE] \in Admission
         /\ [r EXCEPT !.open = TRUE].step = r.step
         /\ [r EXCEPT !.open = TRUE].outcome = r.outcome
         /\ [r EXCEPT !.open = TRUE].proof = r.proof
  BY Zenon DEF Admission

(***************************************************************************)
(* What a step of a request has to keep                                    *)
(***************************************************************************)
\* Records and spent proofs stay.
Monotone ==
  /\ trail \subseteq trail'
  /\ \A p \in Proof : Spent(p) => Spent(p)'

\* A request that does not move keeps what its step says.
LEMMA RequestStays ==
  ASSUME Monotone, NEW c \in Call, NEW r \in Admission, RequestInv(c, r)
  PROVE  RequestInv(c, r)'
<1>1. r.proof \in Proof
  BY Zenon DEF Admission
<1>2. \A step : Audited(c, step) => Audited(c, step)'
  BY Zenon DEF Audited, Monotone
<1>. QED
  BY <1>1, <1>2, Zenon DEF RequestInv, Monotone, Fresh

\* What GateInv says of the requests.
AdmissionInv ==
  /\ requests \in [Call -> SUBSET Admission]
  /\ RequestsInv
  /\ ProofAcceptedOnce

\* A request that moves takes over its proof, or one that was not spent.
LEMMA PutKeepsRequests ==
  ASSUME AdmissionInv, Monotone, NEW c \in Call, NEW y \in Admission, Put(c, y), RequestInv(c, y)',
         y.outcome = "allow" => \/ \E r \in requests[c] : r.outcome = "allow" /\ r.proof = y.proof
                                \/ ~Spent(y.proof)
  PROVE  AdmissionInv'
<1>1. /\ requests' \in [Call -> SUBSET Admission]
      /\ \A d \in Call : requests'[d] = IF d = c THEN {y} ELSE requests[d]
  BY Zenon DEF AdmissionInv, Put
<1>2. \A d \in Call : \A r \in requests[d] : r \in Admission /\ RequestInv(d, r)
  BY Zenon DEF AdmissionInv, RequestsInv
<1>3. RequestsInv'
  <2>1. ASSUME NEW d \in Call, NEW r \in requests'[d]  PROVE RequestInv(d, r)'
    <3>1. CASE d = c
      BY <1>1, <3>1, Zenon
    <3>2. CASE d # c
      BY <1>1, <1>2, <3>2, RequestStays, Zenon
    <3>. QED
      BY <3>1, <3>2, Zenon
  <2>. QED
    BY <2>1, Zenon DEF RequestsInv
<1>4. ASSUME NEW d \in Call, NEW r \in requests[d], d # c, r.outcome = "allow", y.outcome = "allow"
      PROVE  r.proof # y.proof
  <2>1. Spent(r.proof)
    BY <1>2, <1>4, Zenon DEF RequestInv
  <2>. QED
    BY <1>4, <2>1, Zenon DEF AdmissionInv, ProofAcceptedOnce
<1>5. ProofAcceptedOnce'
  <2>1. ASSUME NEW a \in Call, NEW b \in Call, NEW q \in requests'[a], NEW r \in requests'[b],
               a # b, q.outcome = "allow", r.outcome = "allow"
        PROVE  q.proof # r.proof
    <3>1. CASE a = c
      BY <1>1, <1>4, <2>1, <3>1, Zenon
    <3>2. CASE b = c
      BY <1>1, <1>4, <2>1, <3>2, Zenon
    <3>3. CASE a # c /\ b # c
      BY <1>1, <2>1, <3>3 DEF AdmissionInv, ProofAcceptedOnce
    <3>. QED
      BY <3>1, <3>2, <3>3, Zenon
  <2>. QED
    BY <2>1, Zenon DEF ProofAcceptedOnce
<1>. QED
  BY <1>1, <1>3, <1>5, Zenon DEF AdmissionInv

\* A request that ends keeps its proof.
LEMMA EndKeepsRequests ==
  ASSUME AdmissionInv, Monotone, NEW c \in Call, NEW r \in requests[c], End(c, r)
  PROVE  AdmissionInv'
<1>1. r \in Admission /\ RequestInv(c, r)
  BY Zenon DEF AdmissionInv, RequestsInv
<1>2. PICK y \in Admission : /\ y = Ended(r)
                             /\ y.step = "ended" /\ y.outcome = r.outcome /\ ~y.open
                             /\ r.outcome = "allow" => y.proof = r.proof
  BY <1>1, EndedFields, Zenon
<1>3. RequestInv(c, y)
  BY <1>1, <1>2, Zenon DEF RequestInv
<1>4. RequestInv(c, y)'
  BY <1>3, RequestStays, Zenon
<1>5. Put(c, y)
  BY <1>2, Zenon DEF End
<1>. QED
  BY <1>2, <1>4, <1>5, PutKeepsRequests, Zenon

\* The requests of the others stay, and so do all of them.
LEMMA QuietKeepsRequests ==
  ASSUME AdmissionInv, Monotone, UNCHANGED requests
  PROVE  AdmissionInv'
<1>1. \A d \in Call : \A r \in requests[d] : RequestInv(d, r)'
  BY RequestStays, Zenon DEF AdmissionInv, RequestsInv
<1>. QED
  BY <1>1, Zenon DEF AdmissionInv, RequestsInv, ProofAcceptedOnce

(***************************************************************************)
(* The replay store                                                        *)
(***************************************************************************)
ReplayInv == replays \in [high: Int, rows: SUBSET Row] /\ RowsInv

\* A proof that Reserve accepts was not spent before, and is from then on; what
\* was spent stays so.
LEMMA ReserveFacts ==
  ASSUME ReplayInv, NEW p \in Proof, NEW t \in Int, Fresh(p.iat, t),
         NEW X \in SUBSET replays.rows, Deletes(replays.rows, t, X),
         NEW a, a = Reserve(replays, p, t, X)
  PROVE  /\ a.res \in {"unavailable", "deny", "allow"}
         /\ a.res = "allow" => ~Spent(p)
         /\ replays' = a.db => /\ ReplayInv'
                               /\ \A q \in Proof : Spent(q) => Spent(q)'
                               /\ a.res = "allow" => Spent(p)'
<1>1. /\ replays.high \in Int /\ replays.rows \subseteq Row /\ RowsInv
      /\ \A x \in replays.rows : x.proof \in Proof /\ x.retain \in Int
  BY Zenon DEF ReplayInv, Row
<1>2. p.iat \in Nat /\ p.iat >= t - ProofPast /\ p.iat + ProofRetain > t + ClockTolerance
  BY GateConstants DEF Fresh
<1>3. RetainUntil(p.iat, t) = p.iat + ProofRetain
  BY <1>2, GateConstants DEF RetainUntil
<1>4. \A x \in X : x.proof.iat + ProofRetain <= t
  BY <1>1, Zenon DEF Deletes, RowsInv
<1>5. CASE a.db = replays /\ a.res \in {"unavailable", "deny"}
  BY <1>5, Zenon DEF ReplayInv, RowsInv, Spent
<1>6. CASE /\ t >= replays.high - ClockTolerance
           /\ \A x \in replays.rows \ X : x.proof.jti # p.jti
           /\ a.res = "allow"
           /\ a.db = [high |-> IF t > replays.high THEN t ELSE replays.high,
                      rows |-> (replays.rows \ X) \cup {[proof |-> p, retain |-> p.iat + ProofRetain]}]
  <2>1. ~Spent(p)
    <3>1. ASSUME NEW x \in replays.rows, x.proof = p  PROVE FALSE
      <4>1. x \in X
        BY <1>6, <3>1, Zenon
      <4>. QED
        BY <1>2, <1>4, <3>1, <4>1, GateConstants
    <3>2. ~(replays.high >= p.iat + ProofRetain)
      BY <1>1, <1>2, <1>6, GateConstants
    <3>. QED
      BY <3>1, <3>2, Zenon DEF Spent
  <2>2. ASSUME replays' = a.db
        PROVE  ReplayInv' /\ (\A q \in Proof : Spent(q) => Spent(q)') /\ Spent(p)'
    <3> DEFINE row == [proof |-> p, retain |-> p.iat + ProofRetain]
    <3>0. PICK u \in Nat : u = p.iat + ProofRetain
      BY <1>2, GateConstants
    <3>1. row \in Row /\ row.proof = p /\ row.retain = p.iat + ProofRetain
      BY <3>0 DEF Row
    <3>2. PICK h \in Int : h = (IF t > replays.high THEN t ELSE replays.high)
      BY <1>1, Zenon
    <3>3. replays' = [high |-> h, rows |-> (replays.rows \ X) \cup {row}]
      BY <1>6, <2>2, <3>2, Zenon
    <3> HIDE DEF row
    <3>4. /\ replays'.high = h /\ replays'.rows = (replays.rows \ X) \cup {row}
          /\ replays' \in [high: Int, rows: SUBSET Row]
      BY <1>1, <3>1, <3>3, Zenon
    <3>5. RowsInv'
      BY <1>1, <3>1, <3>4, Zenon DEF RowsInv
    <3>6. ASSUME NEW q \in Proof, Spent(q)  PROVE Spent(q)'
      <4>0. q.iat \in Nat /\ h >= t /\ h >= replays.high
        BY <1>1, <3>2, GateConstants
      <4>1. CASE replays.high >= q.iat + ProofRetain
        BY <1>1, <3>4, <4>0, <4>1, GateConstants DEF Spent
      <4>2. ASSUME NEW x \in replays.rows, x.proof = q  PROVE Spent(q)'
        <5>1. CASE x \in X
          BY <1>4, <3>4, <4>0, <4>2, <5>1, GateConstants DEF Spent
        <5>2. CASE x \notin X
          BY <3>4, <4>2, <5>2, Zenon DEF Spent
        <5>. QED
          BY <5>1, <5>2, Zenon
      <4>. QED
        BY <3>6, <4>1, <4>2, Zenon DEF Spent
    <3>. QED
      BY <3>1, <3>4, <3>5, <3>6, Zenon DEF ReplayInv, Spent
  <2>. QED
    BY <1>6, <2>1, <2>2, Zenon
<1>7. CASE t < replays.high - ClockTolerance \/ Cardinality(replays.rows \ X) >= MaxReplay
  BY <1>5, <1>7, Zenon DEF Reserve
<1>8. CASE /\ ~(t < replays.high - ClockTolerance \/ Cardinality(replays.rows \ X) >= MaxReplay)
           /\ \E x \in replays.rows \ X : x.proof.jti = p.jti
  BY <1>5, <1>8, Zenon DEF Reserve
<1>9. CASE /\ ~(t < replays.high - ClockTolerance \/ Cardinality(replays.rows \ X) >= MaxReplay)
           /\ ~\E x \in replays.rows \ X : x.proof.jti = p.jti
  <2>1. t >= replays.high - ClockTolerance
    BY <1>1, <1>9, GateConstants
  <2>2. /\ a.res = "allow"
        /\ a.db = [high |-> IF t > replays.high THEN t ELSE replays.high,
                   rows |-> (replays.rows \ X) \cup {[proof |-> p, retain |-> p.iat + ProofRetain]}]
    BY <1>3, <1>9, Zenon DEF Reserve
  <2>. QED
    BY <1>6, <1>9, <2>1, <2>2, Zenon
<1>. QED
  BY <1>7, <1>8, <1>9, Zenon

(***************************************************************************)
(* The actions                                                             *)
(***************************************************************************)
ProcessTypeOK ==
  /\ phase \in {"down", "serving"}
  /\ starts \in 0..MaxStart
  /\ failed \in BOOLEAN
  /\ trail \subseteq [request: Call, step: Recorded, outcome: {"allow", "deny", "unavailable"}]

\* The parts of the invariant.
LEMMA GateParts ==
  GateInv <=> NonceInv /\ ProcessTypeOK /\ ReplayInv /\ AdmissionInv /\ OperationIsAudited
  BY Zenon DEF GateInv, NonceInv, GateTypeOK, ProcessTypeOK, ReplayInv, AdmissionInv

\* A step that leaves the nonce store alone.
LEMMA GateStep ==
  ASSUME GateInv, UNCHANGED vars, trail \subseteq trail',
         ProcessTypeOK', ReplayInv', AdmissionInv'
  PROVE  GateInv'
<1>1. NonceInv'
  BY DEF GateInv, NonceInv, vars, bucketVars, TypeOK, BucketTypeOK, RequestsInBounds, LogInv,
         AnswerIsOnRecord
<1>2. OperationIsAudited'
  BY Zenon DEF GateInv, OperationIsAudited, vars
<1>3. GateTypeOK'
  BY <1>1, Zenon DEF NonceInv, GateTypeOK, ProcessTypeOK, ReplayInv, AdmissionInv
<1>. QED
  BY <1>1, <1>2, <1>3, Zenon DEF GateInv, ReplayInv, AdmissionInv

\* A step that leaves the ledger and the replay store alone as well.
LEMMA QuietStep ==
  ASSUME GateInv, UNCHANGED <<vars, phase, starts, failed, trail, replays>>, AdmissionInv'
  PROVE  GateInv'
<1>1. ProcessTypeOK' /\ ReplayInv'
  BY GateParts, Zenon DEF ProcessTypeOK, ReplayInv, RowsInv
<1>. QED
  BY <1>1, GateStep, Zenon

\* Nothing is lost where the ledger and the replay store do not change.
LEMMA QuietIsMonotone ==
  ASSUME UNCHANGED <<trail, replays>>
  PROVE  Monotone
  BY Zenon DEF Monotone, Spent

\* A request arrives: it is refused, or its proof is fresh.
LEMMA ArriveKeeps ==
  ASSUME GateInv, NEW c \in Call, NEW p \in Proof, Arrive(c, p)
  PROVE  GateInv'
<1>1. UNCHANGED <<vars, phase, starts, failed, trail, replays>> /\ AdmissionInv /\ Monotone
  BY GateParts, QuietIsMonotone, Zenon DEF Arrive
<1>2. SUFFICES AdmissionInv'
  BY <1>1, QuietStep, Zenon
<1>3. PICK t \in Wall : Unready(c, p, t) \/ ServeHTTP(c, p, t)
  BY Zenon DEF Arrive
<1>4. t \in Int
  BY GateConstants DEF Wall, GateInv, NonceInv, TypeOK, BucketTypeOK
<1>5. PICK n \in Admission : /\ n = NewRequest(p, t)
                             /\ n.step = "reserve" /\ n.outcome = "none" /\ n.proof = p /\ n.at = t
                             /\ ~n.open
  BY <1>4, NewFields, Zenon
<1>6. ASSUME NEW y \in Admission, Put(c, y), y.outcome # "allow", ~y.open,
             \/ y.step = "ended"
             \/ y.step \in {"dependency", "authentication"} /\ y.outcome # "none"
             \/ y.step = "reserve" /\ y.outcome = "none" /\ Fresh(y.proof.iat, y.at)
      PROVE  AdmissionInv'
  <2>1. RequestInv(c, y)
    BY <1>6, Zenon DEF RequestInv
  <2>. QED
    BY <1>1, <1>6, <2>1, RequestStays, PutKeepsRequests, Zenon
<1>7. ASSUME NEW step \in {"dependency", "authentication"}, NEW o \in {"deny", "unavailable"},
             Put(c, Settle(n, step, o))
      PROVE  AdmissionInv'
  <2>1. step \in Recorded \cup {"reserve", "run", "ended"} /\ o \in Outcome /\ o # "allow" /\ o # "none"
    BY Zenon DEF Recorded, Outcome
  <2>. QED
    BY <1>6, <1>7, <2>1, SettleFields
<1>8. CASE Unready(c, p, t)
  <2>1. \E o \in {"deny", "unavailable"} : Put(c, Settle(n, "dependency", o))
    BY <1>5, <1>8, Zenon DEF Unready
  <2>. QED
    BY <1>7, <2>1, Zenon
<1>9. CASE ServeHTTP(c, p, t)
  <2>1. ASSUME End(c, n)  PROVE AdmissionInv'
    BY <1>5, <1>6, <2>1, EndedFields, Zenon DEF End
  <2>2. ASSUME Put(c, n), Fresh(p.iat, t)  PROVE AdmissionInv'
    BY <1>5, <1>6, <2>2, Zenon
  <2>3. ASSUME Put(c, Settle(n, "authentication", "deny"))  PROVE AdmissionInv'
    BY <1>7, <2>3, Zenon
  <2>. QED
    BY <1>5, <1>9, <2>1, <2>2, <2>3, Zenon DEF ServeHTTP
<1>. QED
  BY <1>3, <1>8, <1>9, Zenon

\* The replay transaction commits or fails, with or without its effect.
LEMMA AuthenticateKeeps ==
  ASSUME GateInv, NEW c \in Call, NEW r \in requests[c], Authenticate(c, r)
  PROVE  GateInv'
<1>1. UNCHANGED <<vars, phase, starts, failed, trail>> /\ AdmissionInv /\ ReplayInv /\ r.step = "reserve"
  BY GateParts, Zenon DEF Authenticate
<1>2. r \in Admission /\ RequestInv(c, r) /\ r.proof \in Proof /\ r.at \in Int
  BY <1>1 DEF AdmissionInv, RequestsInv, Admission
<1>3. Fresh(r.proof.iat, r.at) /\ ~r.open
  BY <1>1, <1>2, Zenon DEF RequestInv, Recorded
<1>4. PICK X \in SUBSET replays.rows :
        /\ Deletes(replays.rows, r.at, X)
        /\ LET a == Reserve(replays, r.proof, r.at, X)
           IN  \/ /\ replays' = a.db
                  /\ Put(c, Settle(r, "authentication", a.res))
               \/ /\ replays' \in {replays, a.db}
                  /\ Put(c, Settle(r, "authentication", "unavailable"))
  BY Zenon DEF Authenticate
<1> DEFINE a == Reserve(replays, r.proof, r.at, X)
<1>5. \/ replays' = a.db /\ Put(c, Settle(r, "authentication", a.res))
      \/ replays' \in {replays, a.db} /\ Put(c, Settle(r, "authentication", "unavailable"))
  BY <1>4, Zenon
<1>6. /\ a.res \in {"unavailable", "deny", "allow"}
      /\ a.res = "allow" => ~Spent(r.proof)
      /\ replays' = a.db => /\ ReplayInv'
                            /\ \A q \in Proof : Spent(q) => Spent(q)'
                            /\ a.res = "allow" => Spent(r.proof)'
  BY <1>1, <1>2, <1>3, <1>4, ReserveFacts, Zenon
<1> HIDE DEF a
<1>7. ReplayInv' /\ Monotone
  <2>1. CASE replays' = replays
    BY <1>1, <2>1, QuietIsMonotone, Zenon DEF ReplayInv, RowsInv
  <2>2. CASE replays' = a.db
    BY <1>1, <1>6, <2>2, Zenon DEF Monotone
  <2>. QED
    BY <1>5, <2>1, <2>2, Zenon
<1>8. ProcessTypeOK'
  BY <1>1, GateParts, Zenon DEF ProcessTypeOK
<1>9. ASSUME NEW o \in {"unavailable", "deny", "allow"}, Put(c, Settle(r, "authentication", o)),
             o = "allow" => ~Spent(r.proof) /\ Spent(r.proof)'
      PROVE  AdmissionInv'
  <2>1. "authentication" \in Recorded \cup {"reserve", "run", "ended"} /\ o \in Outcome
    BY Zenon DEF Recorded, Outcome
  <2>2. PICK y \in Admission : /\ y = Settle(r, "authentication", o)
                               /\ y.step = "authentication" /\ y.outcome = o
                               /\ o = "allow" => y.proof = r.proof /\ (y.open => r.open)
                               /\ o # "allow" => ~y.open
    <3>1. /\ Settle(r, "authentication", o) \in Admission
          /\ Settle(r, "authentication", o).step = "authentication"
          /\ Settle(r, "authentication", o).outcome = o
          /\ o = "allow" => /\ Settle(r, "authentication", o).proof = r.proof
                            /\ Settle(r, "authentication", o).open => r.open
          /\ o # "allow" => ~Settle(r, "authentication", o).open
      BY <1>2, <2>1, SettleFields, Zenon
    <3>. QED
      BY <3>1, Zenon
  <2>3. RequestInv(c, y)'
    BY <1>3, <1>9, <2>2, Zenon DEF RequestInv
  <2>4. Put(c, y)
    BY <1>9, <2>2, Zenon
  <2>5. y.outcome = "allow" => ~Spent(y.proof)
    BY <1>9, <2>2, Zenon
  <2>. QED
    BY <1>1, <1>7, <2>2, <2>3, <2>4, <2>5, PutKeepsRequests, Zenon
<1>10. AdmissionInv'
  <2>1. CASE replays' = a.db /\ Put(c, Settle(r, "authentication", a.res))
    BY <1>6, <1>9, <2>1, Zenon
  <2>2. CASE Put(c, Settle(r, "authentication", "unavailable"))
    BY <1>9, <2>2, Zenon
  <2>. QED
    BY <1>5, <2>1, <2>2, Zenon
<1>. QED
  BY <1>1, <1>7, <1>8, <1>10, GateStep, Zenon

\* A request passes the latch, or ends.
LEMMA LatchKeeps ==
  ASSUME GateInv, NEW c \in Call, NEW r \in requests[c], Latch(c, r) \/ RefuseBody(c, r)
  PROVE  GateInv'
<1>1. UNCHANGED <<vars, phase, starts, failed, trail, replays>> /\ AdmissionInv /\ Monotone
  BY GateParts, QuietIsMonotone, Zenon DEF Latch, RefuseBody
<1>2. r \in Admission /\ RequestInv(c, r)
  BY <1>1, Zenon DEF AdmissionInv, RequestsInv
<1>3. CASE End(c, r)
  BY <1>1, <1>3, EndKeepsRequests, QuietStep, Zenon
<1>4. ASSUME r.step \in Recorded, Put(c, [r EXCEPT !.open = TRUE])  PROVE GateInv'
  <2>1. r.step \in Recorded \cup {"reserve", "run", "ended"}
    BY <1>2, Zenon DEF Admission
  <2>2. PICK y \in Admission : /\ y = [r EXCEPT !.open = TRUE]
                               /\ y.step = r.step /\ y.outcome = r.outcome /\ y.proof = r.proof
    BY <1>2, <2>1, MovedFields, Zenon
  <2>3. RequestInv(c, y)
    <3>1. r.step # "reserve"
      BY <1>4, Zenon DEF Recorded
    <3>. QED
      BY <1>2, <1>4, <2>2, <3>1, Zenon DEF RequestInv
  <2>4. Put(c, y) /\ RequestInv(c, y)'
    BY <1>1, <1>4, <2>2, <2>3, RequestStays, Zenon
  <2>5. AdmissionInv'
    BY <1>1, <2>2, <2>4, PutKeepsRequests, Zenon
  <2>. QED
    BY <1>1, <2>5, QuietStep, Zenon
<1>. QED
  BY <1>3, <1>4, Zenon DEF Latch, RefuseBody

\* The record of a decision is durable, and the request goes on; or it fails.
LEMMA RecordKeeps ==
  ASSUME GateInv, NEW c \in Call, NEW r \in requests[c], Record(c, r)
  PROVE  GateInv'
<1>1. /\ UNCHANGED <<vars, phase, starts, replays>> /\ AdmissionInv /\ ReplayInv /\ ReplayInv'
      /\ ProcessTypeOK /\ r.open
  BY GateParts, Zenon DEF Record, ReplayInv, RowsInv
<1>2. r \in Admission /\ RequestInv(c, r) /\ r.step \in Recorded /\ r.outcome \in Outcome
  BY <1>1 DEF AdmissionInv, RequestsInv, RequestInv, Admission, Outcome
<1>3. CASE failed' = TRUE /\ End(c, r) /\ UNCHANGED trail
  <2>1. Monotone /\ ProcessTypeOK'
    BY <1>1, <1>3, QuietIsMonotone, Zenon DEF ProcessTypeOK
  <2>2. AdmissionInv'
    BY <1>1, <1>3, <2>1, EndKeepsRequests, Zenon
  <2>. QED
    BY <1>1, <1>3, <2>1, <2>2, GateStep, Zenon
<1>4. CASE /\ trail' = trail \cup {RecordOf(c, r)}
           /\ Put(c, [r EXCEPT !.step = Following(r), !.open = FALSE])
           /\ UNCHANGED failed
  <2>1. /\ Decision(r) \in {"allow", "deny", "unavailable"}
        /\ r.step \in {"action", "scope"} => Decision(r) = "allow"
        /\ r.step = "dependency" => Decision(r) # "allow"
    BY <1>2, Zenon DEF Decision, RequestInv, Recorded, Outcome
  <2>2. RecordOf(c, r) \in [request: Call, step: Recorded, outcome: {"allow", "deny", "unavailable"}]
    BY <1>2, <2>1, Zenon DEF RecordOf
  <2>3. ProcessTypeOK' /\ trail \subseteq trail' /\ Monotone
    BY <1>1, <1>4, <2>2, Zenon DEF ProcessTypeOK, Monotone, Spent
  <2>4. Decision(r) = "allow" => Audited(c, r.step)'
    BY <1>4, Zenon DEF RecordOf, Audited
  <2>5. /\ Following(r) \in {"ended", "action", "scope", "run"}
        /\ Following(r) = "action" => Decision(r) = "allow" /\ r.step = "authentication"
        /\ Following(r) = "scope" => Decision(r) = "allow" /\ r.step = "action"
        /\ Following(r) = "run" => Decision(r) = "allow" /\ r.step = "scope"
    BY <1>2, <2>1, Zenon DEF Following, Recorded
  <2>6. Following(r) \in Recorded \cup {"reserve", "run", "ended"}
    BY <2>5, Zenon DEF Recorded
  <2>7. PICK y \in Admission : /\ y = [r EXCEPT !.step = Following(r), !.open = FALSE]
                               /\ y.step = Following(r) /\ ~y.open
                               /\ y.outcome = r.outcome /\ y.proof = r.proof
    <3> DEFINE z == [r EXCEPT !.step = Following(r), !.open = FALSE]
    <3>1. z \in Admission /\ z.step = Following(r) /\ ~z.open /\ z.outcome = r.outcome /\ z.proof = r.proof
      BY <1>2, <2>6, MovedFields, Zenon
    <3>. QED
      BY <3>1, Zenon
  <2>8. RequestInv(c, r)'
    BY <1>2, <2>3, RequestStays, Zenon
  <2>9. RequestInv(c, y)'
    BY <2>4, <2>5, <2>7, <2>8, Zenon DEF RequestInv
  <2>10. Put(c, y)
    BY <1>4, <2>7, Zenon
  <2>11. AdmissionInv'
    BY <1>1, <2>3, <2>7, <2>9, <2>10, PutKeepsRequests, Zenon
  <2>. QED
    BY <1>1, <2>3, <2>11, GateStep, Zenon
<1>. QED
  BY <1>3, <1>4, Zenon DEF Record

\* A step of the nonce store: the calls that were made stay the same ones.
LEMMA NonceStep ==
  ASSUME GateInv, NonceInv', UNCHANGED gateVars,
         \A c \in Call : calls'[c] # {} => calls[c] # {}
  PROVE  GateInv'
<1>1. ProcessTypeOK' /\ ReplayInv'
  BY GateParts, Zenon DEF ProcessTypeOK, ReplayInv, RowsInv, gateVars
<1>2. AdmissionInv'
  BY GateParts, QuietIsMonotone, QuietKeepsRequests, Zenon DEF gateVars
<1>3. OperationIsAudited'
  BY Zenon DEF GateInv, OperationIsAudited, gateVars
<1>4. GateTypeOK'
  BY <1>1, <1>2, Zenon DEF NonceInv, GateTypeOK, ProcessTypeOK, ReplayInv, AdmissionInv
<1>. QED
  BY <1>1, <1>2, <1>3, <1>4, Zenon DEF GateInv, ReplayInv, AdmissionInv

\* Calls go on only where there is one.
LEMMA OfCallKeeps ==
  ASSUME GateInv, OfCall, UNCHANGED gateVars
  PROVE  GateInv'
<1>1. NonceInv'
  BY CallKeeps, Zenon DEF OfCall, GateInv
<1>2. ASSUME NEW c \in Call, calls'[c] # {}  PROVE calls[c] # {}
  <2>1. PICK d \in Call : \E s \in calls[d] : Create(d, s) \/ Reconcile(d, s) \/ GiveUp(d, s)
    BY Zenon DEF OfCall
  <2>2. calls[d] # {} /\ (c # d => calls'[c] = calls[c])
    BY <2>1, Zenon DEF Create, Reconcile, GiveUp, Become, GateInv, NonceInv, TypeOK
  <2>. QED
    BY <1>2, <2>2, Zenon
<1>. QED
  BY <1>1, <1>2, NonceStep, Zenon

\* The operation starts, or its body is refused.
LEMMA RunKeeps ==
  ASSUME GateInv, NEW c \in Call, NEW r \in requests[c], Run(c, r)
  PROVE  GateInv'
<1>1. UNCHANGED <<phase, starts, failed, trail, replays>> /\ AdmissionInv /\ r.step = "run" /\ Monotone
  BY GateParts, QuietIsMonotone, Zenon DEF Run
<1>2. CASE End(c, r) /\ UNCHANGED vars
  BY <1>1, <1>2, EndKeepsRequests, QuietStep, Zenon
<1>3. CASE ConsumeNonce(c) /\ UNCHANGED requests
  <2>1. NonceInv'
    BY <1>3, ConsumeKeeps, Zenon DEF GateInv
  <2>2. ProcessTypeOK' /\ ReplayInv' /\ AdmissionInv'
    BY <1>1, <1>3, GateParts, QuietKeepsRequests, Zenon DEF ProcessTypeOK, ReplayInv, RowsInv
  <2>3. \A d \in Call : d # c => calls'[d] = calls[d]
    BY <1>3, Zenon DEF ConsumeNonce, Consume, GateInv, NonceInv, TypeOK
  <2>4. \A step \in {"authentication", "action", "scope"} : Audited(c, step)
    BY <1>1, Zenon DEF AdmissionInv, RequestsInv, RequestInv
  <2>5. OperationIsAudited'
    BY <1>1, <2>3, <2>4, Zenon DEF GateInv, OperationIsAudited, Audited
  <2>6. GateTypeOK'
    BY <2>1, <2>2, Zenon DEF NonceInv, GateTypeOK, ProcessTypeOK, ReplayInv, AdmissionInv
  <2>. QED
    BY <2>1, <2>2, <2>5, <2>6, Zenon DEF GateInv, ReplayInv, AdmissionInv
<1>. QED
  BY <1>2, <1>3, Zenon DEF Run

\* The process ends and with it what it was doing.
LEMMA ExitKeeps ==
  ASSUME GateInv, Exit
  PROVE  GateInv'
<1>1. NonceInv'
  BY ExitKeepsCalls, Zenon DEF GateInv
<1>2. UNCHANGED <<starts, failed, trail, replays>> /\ phase' = "down" /\ AdmissionInv /\ Monotone
  BY GateParts, QuietIsMonotone, Zenon DEF Exit
<1>3. ProcessTypeOK' /\ ReplayInv'
  BY <1>2, GateParts, Zenon DEF ProcessTypeOK, ReplayInv, RowsInv
<1>4. ASSUME NEW c \in Call, NEW y \in requests'[c]
      PROVE  /\ y \in Admission /\ RequestInv(c, y)'
             /\ \E r \in requests[c] : y.outcome = "allow" => r.outcome = "allow" /\ r.proof = y.proof
  <2>1. PICK r \in requests[c] : y = Ended(r)
    BY <1>4, Zenon DEF Exit
  <2>2. r \in Admission /\ RequestInv(c, r)
    BY <1>2, Zenon DEF AdmissionInv, RequestsInv
  <2>3. /\ y \in Admission
        /\ y.step = "ended" /\ y.outcome = r.outcome /\ ~y.open
        /\ r.outcome = "allow" => y.proof = r.proof
    BY <2>1, <2>2, EndedFields, Zenon
  <2>4. RequestInv(c, y)
    BY <2>2, <2>3, Zenon DEF RequestInv
  <2>. QED
    BY <1>2, <2>3, <2>4, RequestStays, Zenon
<1>5. requests' \in [Call -> SUBSET Admission]
  <2>1. requests' = [c \in Call |-> requests'[c]]
    BY Zenon DEF Exit
  <2>. QED
    BY <1>4, <2>1, Zenon
<1>6. AdmissionInv'
  BY <1>2, <1>4, <1>5 DEF AdmissionInv, RequestsInv, ProofAcceptedOnce
<1>7. OperationIsAudited'
  <2>1. \A c \in Call : calls'[c] # {} => calls[c] # {}
    BY Zenon DEF Exit
  <2>. QED
    BY <1>2, <2>1, Zenon DEF GateInv, OperationIsAudited
<1>8. GateTypeOK'
  BY <1>1, <1>3, <1>6, Zenon DEF NonceInv, GateTypeOK, ProcessTypeOK, ReplayInv, AdmissionInv
<1>. QED
  BY <1>1, <1>3, <1>6, <1>7, <1>8, Zenon DEF GateInv, ReplayInv, AdmissionInv

\* The process starts again with what the databases hold.
LEMMA OpenKeeps ==
  ASSUME GateInv, OpenApplication
  PROVE  GateInv'
<1>1. UNCHANGED <<vars, trail, replays, requests>> /\ AdmissionInv /\ Monotone
  BY GateParts, QuietIsMonotone, Zenon DEF OpenApplication
<1>2. ProcessTypeOK' /\ ReplayInv'
  <2>1. failed' \in BOOLEAN
    BY Zenon DEF OpenApplication
  <2>2. starts' \in 0..MaxStart /\ phase' = "serving"
    BY GateParts, GateConstants DEF OpenApplication, ProcessTypeOK
  <2>. QED
    BY <1>1, <2>1, <2>2, GateParts, Zenon DEF ProcessTypeOK, ReplayInv, RowsInv
<1>3. AdmissionInv'
  BY <1>1, QuietKeepsRequests, Zenon
<1>. QED
  BY <1>1, <1>2, <1>3, GateStep, Zenon

(***************************************************************************)
(* The theorems                                                            *)
(***************************************************************************)

\* The first start finds nothing.
LEMMA GateInitHolds ==
  ASSUME GateInit
  PROVE  GateInv
<1>1. /\ log = << >> /\ stray = {} /\ now = 0 /\ \A c \in Call : calls[c] = {}
      /\ calls \in [Call -> SUBSET State]
  BY Zenon DEF GateInit, Init, BucketInit
<1>2. /\ Len(log) = 0 /\ log \in Seq(Entry({"consume"}, Value))
  BY <1>1
<1>3. NonceInv
  BY <1>1, <1>2 DEF NonceInv, TypeOK, BucketTypeOK, RequestsInBounds, LogInv, AnswerIsOnRecord
<1>4. ProcessTypeOK /\ ReplayInv
  <2>1. failed \in BOOLEAN
    BY Zenon DEF GateInit
  <2>2. starts \in 0..MaxStart /\ phase = "serving" /\ trail = {}
    BY GateConstants DEF GateInit
  <2>3. ReplayInv
    BY DEF GateInit, ReplayInv, RowsInv
  <2>. QED
    BY <2>1, <2>2, <2>3, Zenon DEF ProcessTypeOK
<1>5. AdmissionInv
  BY Zenon DEF GateInit, AdmissionInv, RequestsInv, ProofAcceptedOnce
<1>6. OperationIsAudited
  BY <1>1, Zenon DEF OperationIsAudited
<1>. QED
  BY <1>3, <1>4, <1>5, <1>6, GateParts, Zenon

\* Every step keeps the invariant.
LEMMA GateNextKeeps ==
  ASSUME GateInv, [GateNext]_<<vars, gateVars>>
  PROVE  GateInv'
<1>1. CASE UNCHANGED <<vars, gateVars>>
  <2>1. AdmissionInv'
    BY <1>1, GateParts, QuietIsMonotone, QuietKeepsRequests, Zenon DEF gateVars
  <2>. QED
    BY <1>1, <2>1, QuietStep, Zenon DEF gateVars
<1>2. CASE BucketNext /\ UNCHANGED <<calls, gateVars>>
  <2>1. NonceInv'
    BY <1>2, BucketKeeps, Zenon DEF GateInv
  <2>. QED
    BY <1>2, <2>1, NonceStep, Zenon
<1>. QED
  BY <1>1, <1>2, OpenKeeps, ExitKeeps, ArriveKeeps, AuthenticateKeeps, LatchKeeps, RecordKeeps,
     RunKeeps, OfCallKeeps, Zenon
  DEF GateNext

\* Every reachable state of the service satisfies the invariant.
LEMMA GateReachable == GateSpec => []GateInv
<1>1. GateInit => GateInv
  BY GateInitHolds, Zenon
<1>2. GateInv /\ [GateNext]_<<vars, gateVars>> => GateInv'
  BY GateNextKeeps, Zenon
<1>. QED
  BY <1>1, <1>2, PTL DEF GateSpec

\* The state of the service and of its databases has its type.
THEOREM GateTypeCorrect == GateSpec => []GateTypeOK
<1>1. GateInv => GateTypeOK
  BY Zenon DEF GateInv
<1>. QED
  BY <1>1, GateReachable, PTL

\* What Consume answers is on record, and a nonce is consumed with another value
\* only once the first has expired (Store.Consume of jetstreamkv).
THEOREM NonceAnswersAreTrue == GateSpec => []AnswersAreTrue
<1>1. GateInv => AnswersAreTrue
  BY NonceGives, Zenon DEF GateInv
<1>. QED
  BY <1>1, GateReachable, PTL

\* A signed proof authenticates one request, whatever the clock and the process
\* do (ReplayStore.Reserve and Authenticate of primitivesstaging).
THEOREM ProofsAuthenticateOnce == GateSpec => []ProofAcceptedOnce
<1>1. GateInv => ProofAcceptedOnce
  BY Zenon DEF GateInv
<1>. QED
  BY <1>1, GateReachable, PTL

\* No operation starts before its three decisions are durable (AuditGate.record
\* and the pipeline of primitivesauth).
THEOREM OperationsAreAudited == GateSpec => []OperationIsAudited
<1>1. GateInv => OperationIsAudited
  BY Zenon DEF GateInv
<1>. QED
  BY <1>1, GateReachable, PTL
=============================================================================
