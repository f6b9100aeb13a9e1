-------------------------- MODULE FencedLeaseProofs --------------------------
(***************************************************************************)
(* FencedLease keeps its safety invariants for every set of processes,     *)
(* keys and holders and for every value of the bounds.                     *)
(*                                                                         *)
(* The argument.  The bucket is append-only, so whatever was once true of  *)
(* the entry at a revision stays true of it, and time only passes.  Every  *)
(* fact a caller acts on is a fact about the entry at a revision it was    *)
(* told or read: that its lease is the entry at its token (Told), that the *)
(* entry it is about to replace is its own (Owned) or is free (Takeable).  *)
(* The compare-and-set then says that entry is still the last of its key.  *)
(***************************************************************************)
EXTENDS FencedLease, KVBucketProofs

(***************************************************************************)
(* The inductive invariant                                                 *)
(***************************************************************************)

\* What x names is the bucket entry at its token.
Told(x) ==
  /\ x.token \in 1..Len(log)
  /\ log[x.token].key = x.key
  /\ log[x.token].value = x.value

\* The entry at i is of key k and is a lease nobody holds any more.
Takeable(i, k) ==
  /\ i \in 1..Len(log)
  /\ log[i].key = k
  /\ log[i].value.released \/ log[i].value.expires <= now

\* The entry at i is a lease of key k that holder h has not released.
Owned(i, k, h) ==
  /\ i \in 1..Len(log)
  /\ log[i].key = k
  /\ log[i].value.holder = h
  /\ ~log[i].value.released

\* A write of op and value v over the entry at i is one its caller may make.
Justified(op, k, i, v) ==
  /\ v.expires <= now + MaxLifetime
  /\ op = "acquire" => i = 0 \/ Takeable(i, k)
  /\ op # "acquire" => Owned(i, k, v.holder)

\* Only Acquire creates and looks up.
AtItsPlace(c) == c.pc \in {"create", "lookup"} => c.op = "acquire"

ClockInv ==
  \A i \in 1..Len(log) :
    /\ log[i].at <= now
    /\ log[i].value.expires <= log[i].at + MaxLifetime

ToldInv ==
  /\ \A p \in Proc : \A h \in handle[p] : Told(h)
  /\ \A g \in granted : Told(g)

WriteInv ==
  /\ \A p \in Proc : \A c \in call[p] :
       AtItsPlace(c) /\ Justified(c.op, c.key, c.previous, c.value)
  /\ \A r \in stray : Justified(r.op, r.key, r.expect, r.value)

IInv ==
  /\ TypeOK
  /\ ClockInv
  /\ ToldInv
  /\ WriteInv
  /\ RunningLeaseNotTaken
  /\ OnlyOwnerMutates

(***************************************************************************)
(* Lemmas                                                                  *)
(***************************************************************************)

\* The fields of a bucket entry.
LEMMA EntryFields ==
  ASSUME TypeOK, NEW i \in 1..Len(log)
  PROVE  /\ log[i] \in Entry(Op, Value)
         /\ log[i].at \in Nat
         /\ log[i].expect \in Nat
         /\ log[i].value \in Value
         /\ log[i].value.expires \in Nat
<1>1. log \in Seq(Entry(Op, Value))
  BY Zenon DEF TypeOK, BucketTypeOK
<1>2. log[i] \in Entry(Op, Value)
  BY <1>1
<1>3. log[i].value \in Value
  BY <1>2, Zenon DEF Entry
<1>. QED
  BY <1>2, <1>3, Zenon DEF Entry, Value

\* The log only grows: every revision a caller knows keeps its entry.
Grows ==
  /\ log' \in Seq(Entry(Op, Value))
  /\ Len(log) <= Len(log')
  /\ \A i \in 1..Len(log) : log'[i] = log[i]
  /\ now \in Nat /\ now' \in Nat /\ now <= now'

\* What a caller was told or may write stays so while the log grows.
LEMMA GrowthKeepsFacts ==
  ASSUME TypeOK, Grows
  PROVE  /\ \A x : Told(x) => Told(x)'
         /\ \A i, k : Takeable(i, k) => Takeable(i, k)'
         /\ \A i, k, h : Owned(i, k, h) => Owned(i, k, h)'
<1>1. Len(log) \in Nat /\ Len(log') \in Nat
  BY DEF TypeOK, BucketTypeOK, Grows
<1>2. \A i \in 1..Len(log) : i \in 1..Len(log') /\ log'[i] = log[i]
  BY <1>1 DEF Grows
<1>3. ASSUME NEW x, Told(x)  PROVE Told(x)'
  BY <1>2, <1>3, Zenon DEF Told
<1>4. ASSUME NEW i, NEW k, Takeable(i, k)  PROVE Takeable(i, k)'
  <2>1. log[i].value.expires \in Nat
    BY <1>4, EntryFields, Zenon DEF Takeable
  <2>2. log[i].value.expires <= now => log[i].value.expires <= now'
    BY <2>1 DEF Grows
  <2>. QED
    BY <1>2, <1>4, <2>2, Zenon DEF Takeable
<1>5. ASSUME NEW i, NEW k, NEW h, Owned(i, k, h)  PROVE Owned(i, k, h)'
  BY <1>2, <1>5, Zenon DEF Owned
<1>. QED
  BY <1>3, <1>4, <1>5, Zenon

\* A justified write stays justified while the log grows.
LEMMA GrowthKeepsJustified ==
  ASSUME TypeOK, Grows, NEW op, NEW k, NEW i, NEW v \in Value,
         Justified(op, k, i, v)
  PROVE  Justified(op, k, i, v)'
<1>1. v.expires \in Nat /\ MaxLifetime \in Nat
  BY LeaseAssumption, Zenon DEF Value
<1>2. v.expires <= now' + MaxLifetime
  BY <1>1 DEF Justified, Grows
<1>. QED
  BY <1>2, GrowthKeepsFacts, Zenon DEF Justified

\* An accepted write is appended; everything the bucket says of older
\* entries is unchanged.
LEMMA AcceptGrows ==
  ASSUME TypeOK, NEW r \in Request(Op, Value), Accept(r)
  PROVE  /\ BucketTypeOK(Op, Value)'
         /\ Grows
         /\ Len(log') = Len(log) + 1
         /\ log'[Len(log) + 1] = [op |-> r.op, key |-> r.key, expect |-> r.expect,
                                  value |-> r.value, at |-> now]
<1>1. BucketTypeOK(Op, Value) /\ Len(log) \in Nat /\ now \in Nat
  BY DEF TypeOK, BucketTypeOK
<1>2. /\ BucketTypeOK(Op, Value)'
      /\ Len(log') = Len(log) + 1
      /\ \A i \in 1..Len(log) : log'[i] = log[i]
      /\ log'[Len(log) + 1] = [op |-> r.op, key |-> r.key, expect |-> r.expect,
                               value |-> r.value, at |-> now]
      /\ now' = now
  BY <1>1, AcceptAppends, Zenon
<1>3. Len(log) <= Len(log')
  BY <1>1, <1>2
<1>. QED
  BY <1>1, <1>2, <1>3 DEF Grows, BucketTypeOK

\* Whatever becomes of a write, the bucket stays well formed and only grows.
LEMMA WriteGrows ==
  ASSUME TypeOK, NEW r \in Request(Op, Value),
         Accept(r) \/ Refuse(r) \/ Ambiguous(r)
  PROVE  BucketTypeOK(Op, Value)' /\ Grows
<1>1. log \in Seq(Entry(Op, Value)) /\ now \in Nat /\ stray \in SUBSET Request(Op, Value)
  BY Zenon DEF TypeOK, BucketTypeOK
<1>2. CASE Accept(r)
  BY <1>2, AcceptGrows, Zenon
<1>3. CASE UNCHANGED <<log, now>> /\ stray' \in SUBSET (stray \cup {r})
  BY <1>1, <1>3 DEF Grows, BucketTypeOK
<1>4. Accept(r) \/ (UNCHANGED <<log, now>> /\ stray' \in SUBSET (stray \cup {r}))
  BY Zenon DEF Refuse, Ambiguous, bucketVars
<1>. QED
  BY <1>2, <1>3, <1>4, Zenon

\* The write of a call is a request.
LEMMA WriteIsRequest ==
  ASSUME NEW c \in Call
  PROVE  /\ Write(c) \in Request(Op, Value)
         /\ Write(c).op = c.op /\ Write(c).key = c.key
         /\ Write(c).expect = c.previous /\ Write(c).value = c.value
  BY Zenon DEF Call, Write, Request

\* The three ways a step ends for its caller keep the caller's variables
\* well formed.
LEMMA CallerTypes ==
  ASSUME TypeOK, NEW p \in Proc, NEW c \in Call, NEW r \in Token,
         Fail(p) \/ Continue(p, c) \/ Succeed(p, c, r)
  PROVE  /\ call' \in [Proc -> SUBSET Call]
         /\ handle' \in [Proc -> SUBSET Grant]
         /\ granted' \in SUBSET Grant
<1>1. /\ call \in [Proc -> SUBSET Call]
      /\ handle \in [Proc -> SUBSET Grant]
      /\ granted \in SUBSET Grant
  BY Zenon DEF TypeOK
<1>2. CASE Fail(p)
  BY <1>1, <1>2, Zenon DEF Fail
<1>3. CASE Continue(p, c)
  BY <1>1, <1>3, Zenon DEF Continue
<1>4. CASE Succeed(p, c, r)
  <2>1. call' \in [Proc -> SUBSET Call]
    BY <1>1, <1>4, Zenon DEF Succeed
  <2>4. [key |-> c.key, value |-> c.value, token |-> r] \in Grant
    BY Zenon DEF Call, Grant
  <2>3. handle' \in [Proc -> SUBSET Grant]
    BY <1>1, <1>4, <2>4, Zenon DEF Succeed
  <2>5. granted' \in SUBSET Grant
    BY <1>1, <1>4, <2>4, Zenon DEF Succeed
  <2>. QED
    BY <2>1, <2>3, <2>5, Zenon
<1>. QED
  BY <1>2, <1>3, <1>4, Zenon

\* What the log says of the entries that were there before a step is what it
\* said of them before.
LEMMA OldEntriesKeep ==
  ASSUME IInv, Grows
  PROVE  /\ \A i \in 1..Len(log) : log'[i].at <= now'
                                 /\ log'[i].value.expires <= log'[i].at + MaxLifetime
         /\ \A i, j \in 1..Len(log) :
              Replaced(i, j)' /\ log'[j].op = "acquire" =>
                log'[i].value.released \/ log'[i].value.expires <= log'[j].at
         /\ \A j \in 1..Len(log) : log'[j].op # "acquire" =>
              /\ log'[j].expect \in 1..(j - 1)
              /\ Owned(log[j].expect, log[j].key, log[j].value.holder)'
<1>1. TypeOK /\ ClockInv /\ RunningLeaseNotTaken /\ OnlyOwnerMutates
  BY Zenon DEF IInv
<1>2. Len(log) \in Nat
  BY <1>1 DEF TypeOK, BucketTypeOK
<1>3. \A i \in 1..Len(log) : log'[i] = log[i]
  BY Zenon DEF Grows
<1>4. \A i \in 1..Len(log) : log'[i].at <= now'
                          /\ log'[i].value.expires <= log'[i].at + MaxLifetime
  <2> SUFFICES ASSUME NEW i \in 1..Len(log)
               PROVE  log[i].at <= now' /\ log[i].value.expires <= log[i].at + MaxLifetime
    BY <1>3, Zenon
  <2>1. log[i].at \in Nat
    BY <1>1, EntryFields, Zenon
  <2>. QED
    BY <1>1, <2>1 DEF ClockInv, Grows
<1>5. ASSUME NEW i \in 1..Len(log), NEW j \in 1..Len(log),
             Replaced(i, j)', log'[j].op = "acquire"
      PROVE  log'[i].value.released \/ log'[i].value.expires <= log'[j].at
  <2>1. Replaced(i, j)
    BY <1>2, <1>3, <1>5 DEF Replaced
  <2>. QED
    BY <1>1, <1>3, <1>5, <2>1, Zenon DEF RunningLeaseNotTaken
<1>6. ASSUME NEW j \in 1..Len(log), log'[j].op # "acquire"
      PROVE  /\ log'[j].expect \in 1..(j - 1)
             /\ Owned(log[j].expect, log[j].key, log[j].value.holder)'
  <2> DEFINE i == log[j].expect
  <2>1. /\ i \in 1..(j - 1)
        /\ log[i].key = log[j].key
        /\ log[i].value.holder = log[j].value.holder
        /\ ~log[i].value.released
    BY <1>1, <1>3, <1>6, Zenon DEF OnlyOwnerMutates
  <2>2. i \in 1..Len(log)
    BY <1>2, <2>1
  <2>3. Owned(i, log[j].key, log[j].value.holder)
    BY <2>1, <2>2, Zenon DEF Owned
  <2>. HIDE DEF i
  <2>4. \A n, k, h : Owned(n, k, h) => Owned(n, k, h)'
    BY <1>1, GrowthKeepsFacts, Zenon
  <2>. QED
    BY <1>3, <2>1, <2>2, <2>3, <2>4 DEF i, Owned
<1>. QED
  BY <1>4, <1>5, <1>6, Zenon

\* A justified write that the bucket accepts keeps what the log says.
LEMMA AcceptKeeps ==
  ASSUME IInv, NEW r \in Request(Op, Value),
         Justified(r.op, r.key, r.expect, r.value), Accept(r)
  PROVE  ClockInv' /\ RunningLeaseNotTaken' /\ OnlyOwnerMutates'
<1> DEFINE m == Len(log) + 1
<1>1. TypeOK /\ ClockInv
  BY Zenon DEF IInv
<1>2. Len(log) \in Nat /\ now \in Nat /\ MaxLifetime \in Nat /\ Retention \in Nat
      /\ MaxLifetime < Retention
  BY <1>1, BucketAssumption, LeaseAssumption DEF TypeOK, BucketTypeOK
<1>3. /\ Grows
      /\ Len(log') = m
      /\ log'[m] = [op |-> r.op, key |-> r.key, expect |-> r.expect,
                    value |-> r.value, at |-> now]
  BY <1>1, AcceptGrows, Zenon
<1>4. \A i \in 1..Len(log) : log'[i] = log[i]
  BY <1>3, Zenon DEF Grows
<1>5. now' = now /\ Matches(r)
  BY Zenon DEF Accept
<1>6. \A i \in 1..m : i \in 1..Len(log) \/ i = m
  BY <1>2
<1>7. r.value \in Value /\ r.value.expires \in Nat
  BY Zenon DEF Request, Value
<1>8. ClockInv'
  <2>1. log'[m].at <= now' /\ log'[m].value.expires <= log'[m].at + MaxLifetime
    BY <1>2, <1>3, <1>5, <1>7 DEF Justified
  <2>. QED
    BY <1>3, <1>6, <2>1, OldEntriesKeep, Zenon DEF ClockInv
<1>9. RunningLeaseNotTaken'
  <2> SUFFICES ASSUME NEW i \in 1..m, NEW j \in 1..m, Replaced(i, j)',
                      log'[j].op = "acquire"
               PROVE  log'[i].value.released \/ log'[i].value.expires <= log'[j].at
    BY <1>3, Zenon DEF RunningLeaseNotTaken
  <2>1. i < j /\ i \in 1..Len(log)
    BY <1>2 DEF Replaced
  <2>2. CASE j # m
    BY <1>3, <1>6, <2>1, <2>2, OldEntriesKeep, Zenon
  <2>3. CASE j = m
    <3>1. log[i].key = r.key /\ r.op = "acquire" /\ log'[j].at = now
      BY <1>3, <1>4, <2>1, <2>3 DEF Replaced
    <3>2. log[i].at \in Nat /\ log[i].value.expires \in Nat
      BY <1>1, <2>1, EntryFields, Zenon
    <3>3. CASE r.expect = 0
      <4>1. ~Kept(i)
        BY <1>5, <2>1, <3>1, <3>3 DEF Matches, Latest
      <4>2. log[i].value.expires <= log[i].at + MaxLifetime
        BY <1>1, <2>1, Zenon DEF ClockInv
      <4>3. ~(log[i].at + Retention > now)
        BY <4>1, Zenon DEF Kept
      <4>4. \A a, e, t, l, d \in Nat :
              l < d /\ e <= a + l /\ ~(a + d > t) => e <= t
        OBVIOUS
      <4>5. log[i].value.expires <= now
        BY <1>2, <3>2, <4>2, <4>3, <4>4, Zenon
      <4>. QED
        BY <1>4, <2>1, <3>1, <4>5, Zenon
    <3>4. CASE r.expect # 0
      <4>1. /\ r.expect \in 1..Len(log)
            /\ log[r.expect].key = r.key
            /\ \A n \in (r.expect + 1)..Len(log) : log[n].key # r.key
        BY <1>5, <3>4, Zenon DEF Matches, Latest
      <4>2. i <= r.expect
        BY <1>2, <2>1, <3>1, <4>1
      <4>3. ~(i < r.expect)
        BY <1>2, <1>3, <1>4, <2>1, <2>3, <3>1, <4>1 DEF Replaced
      <4>4. i = r.expect
        BY <1>2, <2>1, <4>1, <4>2, <4>3
      <4>5. Takeable(i, r.key)
        BY <3>1, <3>4, <4>4, Zenon DEF Justified
      <4>. QED
        BY <1>4, <2>1, <3>1, <4>5, Zenon DEF Takeable
    <3>. QED
      BY <3>3, <3>4, Zenon
  <2>. QED
    BY <2>2, <2>3, Zenon
<1>10. OnlyOwnerMutates'
  <2> SUFFICES ASSUME NEW j \in 1..m, log'[j].op # "acquire"
               PROVE  /\ log'[j].expect \in 1..(j - 1)
                      /\ log'[log'[j].expect].key = log'[j].key
                      /\ log'[log'[j].expect].value.holder = log'[j].value.holder
                      /\ ~log'[log'[j].expect].value.released
    BY <1>3, Zenon DEF OnlyOwnerMutates
  <2>1. CASE j # m
    <3>1. j \in 1..Len(log)
      BY <1>6, <2>1, Zenon
    <3>2. log'[j].expect \in 1..(j - 1) /\ Owned(log[j].expect, log[j].key, log[j].value.holder)'
      BY <1>3, <3>1, OldEntriesKeep, Zenon
    <3>. QED
      BY <3>2, Zenon DEF Owned
  <2>2. CASE j = m
    <3>1. Owned(r.expect, r.key, r.value.holder)
      BY <1>3, <2>2 DEF Justified
    <3>2. r.expect \in 1..Len(log) /\ r.expect \in 1..(j - 1)
      BY <1>2, <2>2, <3>1 DEF Owned
    <3>. QED
      BY <1>3, <1>4, <2>2, <3>1, <3>2 DEF Owned
  <2>. QED
    BY <2>1, <2>2, Zenon
<1>. QED
  BY <1>8, <1>9, <1>10, Zenon

\* A step that writes nothing keeps what the log says.
LEMMA QuietKeeps ==
  ASSUME IInv, Grows, log' = log
  PROVE  ClockInv' /\ RunningLeaseNotTaken' /\ OnlyOwnerMutates'
<1>1. ClockInv'
  BY OldEntriesKeep, Zenon DEF ClockInv
<1>2. RunningLeaseNotTaken'
  BY OldEntriesKeep, Zenon DEF RunningLeaseNotTaken
<1>3. OnlyOwnerMutates'
  BY Zenon DEF IInv, OnlyOwnerMutates
<1>. QED
  BY <1>1, <1>2, <1>3, Zenon

\* Stray writes stay justified.
LEMMA StrayKeeps ==
  ASSUME IInv, Grows, NEW r \in Request(Op, Value),
         Justified(r.op, r.key, r.expect, r.value),
         stray' \in SUBSET (stray \cup {r})
  PROVE  \A s \in stray' : Justified(s.op, s.key, s.expect, s.value)'
<1> SUFFICES ASSUME NEW s \in stray'
             PROVE  Justified(s.op, s.key, s.expect, s.value)'
  BY Zenon
<1>1. TypeOK /\ stray \in SUBSET Request(Op, Value)
  BY Zenon DEF IInv, TypeOK, BucketTypeOK
<1>2. s \in Request(Op, Value) /\ Justified(s.op, s.key, s.expect, s.value)
  BY <1>1, Zenon DEF IInv, WriteInv
<1>3. s.value \in Value
  BY <1>2, Zenon DEF Request
<1>. QED
  BY <1>1, <1>2, <1>3, GrowthKeepsJustified, Zenon

\* Whatever becomes of a justified write, the bucket keeps its invariants.
LEMMA WriteKeeps ==
  ASSUME IInv, NEW r \in Request(Op, Value),
         Justified(r.op, r.key, r.expect, r.value),
         Accept(r) \/ Refuse(r) \/ Ambiguous(r)
  PROVE  /\ BucketTypeOK(Op, Value)'
         /\ Grows
         /\ ClockInv' /\ RunningLeaseNotTaken' /\ OnlyOwnerMutates'
         /\ \A s \in stray' : Justified(s.op, s.key, s.expect, s.value)'
<1>1. TypeOK
  BY Zenon DEF IInv
<1>2. BucketTypeOK(Op, Value)' /\ Grows
  BY <1>1, WriteGrows, Zenon
<1>3. Accept(r) \/ log' = log
  BY Zenon DEF Refuse, Ambiguous, bucketVars
<1>4. stray' \in SUBSET (stray \cup {r})
  BY Zenon DEF Accept, Refuse, Ambiguous, bucketVars
<1>. QED
  BY <1>2, <1>3, <1>4, AcceptKeeps, QuietKeeps, StrayKeeps, Zenon

\* The three ways a step ends for its caller keep what callers were told.
LEMMA ToldKeeps ==
  ASSUME IInv, Grows, NEW p \in Proc, NEW c \in Call, NEW r \in Token,
         \/ Fail(p)
         \/ Continue(p, c)
         \/ /\ Succeed(p, c, r)
            /\ r \in 1..Len(log')
            /\ log'[r].key = c.key
            /\ log'[r].value = c.value
  PROVE  ToldInv'
<1>1. TypeOK /\ ToldInv
  BY Zenon DEF IInv
<1>2. handle \in [Proc -> SUBSET Grant] /\ granted \in SUBSET Grant
  BY <1>1, Zenon DEF TypeOK
<1>3. \A x : Told(x) => Told(x)'
  BY <1>1, GrowthKeepsFacts, Zenon
<1>4. CASE UNCHANGED <<handle, granted>>
  BY <1>1, <1>3, <1>4, Zenon DEF ToldInv
<1>5. CASE /\ Succeed(p, c, r)
           /\ r \in 1..Len(log')
           /\ log'[r].key = c.key
           /\ log'[r].value = c.value
  <2>1. \A q \in Proc : \A h \in handle'[q] :
          h \in handle[q] \/ (h.key = c.key /\ h.value = c.value /\ h.token = r)
    BY <1>2, <1>5 DEF Succeed
  <2>2. \A g \in granted' :
          g \in granted \/ (g.key = c.key /\ g.value = c.value /\ g.token = r)
    BY <1>5 DEF Succeed
  <2>3. \A x : x.key = c.key /\ x.value = c.value /\ x.token = r => Told(x)'
    BY <1>5, Zenon DEF Told
  <2>. QED
    BY <1>1, <1>3, <2>1, <2>2, <2>3, Zenon DEF ToldInv
<1>. QED
  BY <1>4, <1>5, Zenon DEF Fail, Continue

\* They keep the calls' writes justified.
LEMMA CallsKeep ==
  ASSUME IInv, Grows, NEW p \in Proc, NEW c \in Call, NEW r \in Token,
         \/ Fail(p)
         \/ Succeed(p, c, r)
         \/ /\ Continue(p, c)
            /\ AtItsPlace(c) /\ Justified(c.op, c.key, c.previous, c.value)
  PROVE  \A q \in Proc : \A d \in call'[q] :
           AtItsPlace(d) /\ Justified(d.op, d.key, d.previous, d.value)'
<1> SUFFICES ASSUME NEW q \in Proc, NEW d \in call'[q]
             PROVE  AtItsPlace(d) /\ Justified(d.op, d.key, d.previous, d.value)'
  BY Zenon
<1>1. TypeOK /\ call \in [Proc -> SUBSET Call]
  BY Zenon DEF IInv, TypeOK
<1>2. d \in Call /\ AtItsPlace(d) /\ Justified(d.op, d.key, d.previous, d.value)
  BY <1>1, Zenon DEF IInv, WriteInv, Fail, Succeed, Continue
<1>3. d.value \in Value
  BY <1>2, Zenon DEF Call
<1>. QED
  BY <1>1, <1>2, <1>3, GrowthKeepsJustified, Zenon

\* A step that adds no write keeps the writes justified.
LEMMA NoNewWriteKeeps ==
  ASSUME IInv, Grows, stray' \in SUBSET stray,
         \A q \in Proc : call'[q] \in SUBSET call[q]
  PROVE  WriteInv'
<1>1. /\ TypeOK
      /\ stray \in SUBSET Request(Op, Value)
      /\ call \in [Proc -> SUBSET Call]
  BY Zenon DEF IInv, TypeOK, BucketTypeOK
<1>2. ASSUME NEW q \in Proc, NEW d \in call'[q]
      PROVE  AtItsPlace(d) /\ Justified(d.op, d.key, d.previous, d.value)'
  <2>1. d \in Call /\ AtItsPlace(d) /\ Justified(d.op, d.key, d.previous, d.value)
    BY <1>1, Zenon DEF IInv, WriteInv
  <2>2. d.value \in Value
    BY <2>1, Zenon DEF Call
  <2>. QED
    BY <1>1, <2>1, <2>2, GrowthKeepsJustified, Zenon
<1>3. ASSUME NEW s \in stray'
      PROVE  Justified(s.op, s.key, s.expect, s.value)'
  <2>1. s \in Request(Op, Value) /\ Justified(s.op, s.key, s.expect, s.value)
    BY <1>1, Zenon DEF IInv, WriteInv
  <2>2. s.value \in Value
    BY <2>1, Zenon DEF Request
  <2>. QED
    BY <1>1, <2>1, <2>2, GrowthKeepsJustified, Zenon
<1>. QED
  BY <1>2, <1>3, Zenon DEF WriteInv, AtItsPlace

\* A step in which a caller writes keeps the invariant.
LEMMA CallerWrites ==
  ASSUME IInv, NEW p \in Proc, NEW c \in call[p], NEW d \in Call, AtItsPlace(d),
         d.op = c.op /\ d.key = c.key /\ d.previous = c.previous /\ d.value = c.value,
         \/ Accept(Write(c)) /\ Succeed(p, c, Len(log) + 1)
         \/ (Refuse(Write(c)) \/ Ambiguous(Write(c))) /\ Continue(p, d)
  PROVE  IInv'
<1>1. TypeOK /\ c \in Call
  BY Zenon DEF IInv, TypeOK
<1>2. Justified(c.op, c.key, c.previous, c.value)
  BY Zenon DEF IInv, WriteInv
<1>3. /\ Write(c) \in Request(Op, Value)
      /\ Justified(Write(c).op, Write(c).key, Write(c).expect, Write(c).value)
  BY <1>1, <1>2, WriteIsRequest, Zenon
<1>4. /\ BucketTypeOK(Op, Value)'
      /\ Grows
      /\ ClockInv' /\ RunningLeaseNotTaken' /\ OnlyOwnerMutates'
      /\ \A s \in stray' : Justified(s.op, s.key, s.expect, s.value)'
  BY <1>3, WriteKeeps, Zenon
<1>5. Len(log) + 1 \in Token
  BY <1>1 DEF TypeOK, BucketTypeOK, Token
<1>6. CASE Accept(Write(c)) /\ Succeed(p, c, Len(log) + 1)
  <2>1. Len(log) + 1 \in 1..Len(log') /\ log'[Len(log) + 1].key = c.key
        /\ log'[Len(log) + 1].value = c.value
    <3>1. /\ Len(log') = Len(log) + 1
          /\ log'[Len(log) + 1] =
               [op |-> Write(c).op, key |-> Write(c).key, expect |-> Write(c).expect,
                value |-> Write(c).value, at |-> now]
      BY <1>1, <1>3, <1>6, AcceptGrows, Zenon
    <3>2. Write(c).key = c.key /\ Write(c).value = c.value
      BY <1>1, WriteIsRequest, Zenon
    <3>3. Len(log) + 1 \in 1..(Len(log) + 1)
      BY <1>1 DEF TypeOK, BucketTypeOK
    <3>. QED
      BY <3>1, <3>2, <3>3
  <2>2. ToldInv'
    BY <1>1, <1>4, <1>5, <1>6, <2>1, ToldKeeps, Zenon
  <2>3. \A q \in Proc : \A e \in call'[q] :
          AtItsPlace(e) /\ Justified(e.op, e.key, e.previous, e.value)'
    BY <1>1, <1>4, <1>5, <1>6, CallsKeep, Zenon
  <2>4. TypeOK'
    BY <1>1, <1>4, <1>5, <1>6, CallerTypes, Zenon DEF TypeOK
  <2>. QED
    BY <1>4, <2>2, <2>3, <2>4, Zenon DEF IInv, WriteInv
<1>7. CASE Continue(p, d)
  <2>1. ToldInv'
    BY <1>4, <1>5, <1>7, ToldKeeps, Zenon
  <2>2. \A q \in Proc : \A e \in call'[q] :
          AtItsPlace(e) /\ Justified(e.op, e.key, e.previous, e.value)'
    BY <1>2, <1>4, <1>5, <1>7, CallsKeep, Zenon
  <2>3. TypeOK'
    BY <1>1, <1>4, <1>5, <1>7, CallerTypes, Zenon DEF TypeOK
  <2>. QED
    BY <1>4, <2>1, <2>2, <2>3, Zenon DEF IInv, WriteInv
<1>. QED
  BY <1>6, <1>7, Zenon

\* A step of a caller that leaves the bucket alone keeps the invariant.
LEMMA CallerReads ==
  ASSUME IInv, NEW p \in Proc, NEW c \in Call, NEW r \in Token, UNCHANGED bucketVars,
         \/ Fail(p)
         \/ /\ Continue(p, c)
            /\ AtItsPlace(c) /\ Justified(c.op, c.key, c.previous, c.value)
         \/ /\ Succeed(p, c, r)
            /\ r \in 1..Len(log)
            /\ log[r].key = c.key
            /\ log[r].value = c.value
  PROVE  IInv'
<1>1. TypeOK /\ UNCHANGED <<log, stray, now>>
  BY Zenon DEF IInv, bucketVars
<1>2. BucketTypeOK(Op, Value)' /\ Grows
  <2>1. /\ log \in Seq(Entry(Op, Value)) /\ now \in Nat
        /\ stray \in SUBSET Request(Op, Value)
    BY <1>1, Zenon DEF TypeOK, BucketTypeOK
  <2>2. Len(log) \in Nat
    BY <2>1
  <2>3. BucketTypeOK(Op, Value)'
    BY <1>1, <2>1, Zenon DEF BucketTypeOK
  <2>4. Grows
    BY <1>1, <2>1, <2>2 DEF Grows
  <2>. QED
    BY <2>3, <2>4, Zenon
<1>3. ClockInv' /\ RunningLeaseNotTaken' /\ OnlyOwnerMutates'
  BY <1>1, <1>2, QuietKeeps, Zenon
<1>4. ToldInv'
  BY <1>1, <1>2, ToldKeeps, Zenon
<1>5. \A q \in Proc : \A e \in call'[q] :
          AtItsPlace(e) /\ Justified(e.op, e.key, e.previous, e.value)'
  BY <1>2, CallsKeep, Zenon
<1>6. TypeOK'
  BY <1>1, <1>2, CallerTypes, Zenon DEF TypeOK
<1>7. \A s \in stray' : Justified(s.op, s.key, s.expect, s.value)'
  BY <1>1, Zenon DEF IInv, WriteInv, Justified, Takeable, Owned
<1>. QED
  BY <1>2, <1>3, <1>4, <1>5, <1>6, <1>7, Zenon DEF IInv, WriteInv

\* Every step of a caller keeps the invariant.
LEMMA CallerKeeps ==
  ASSUME IInv, NEW p \in Proc, Caller(p)
  PROVE  IInv'
<1>1. /\ TypeOK
      /\ call \in [Proc -> SUBSET Call]
      /\ handle \in [Proc -> SUBSET Grant]
      /\ granted \in SUBSET Grant
  BY Zenon DEF IInv, TypeOK
<1>2. Len(log) \in Nat /\ now \in Nat /\ MaxLifetime \in Nat /\ 1 \in Token
  BY <1>1, LeaseAssumption DEF TypeOK, BucketTypeOK, Token
<1>3. ASSUME NEW k \in Key, NEW h \in Holder,
             NEW e \in Expiry, Acquire(p, k, h, e)
      PROVE  IInv'
  <2> DEFINE c == [pc |-> "create", op |-> "acquire", key |-> k, previous |-> 0,
                   value |-> [holder |-> h, expires |-> e, released |-> FALSE],
                   exists |-> FALSE]
  <2>0. e \in Nat /\ e <= now + MaxLifetime
    BY <1>3, BucketAssumption DEF Expiry, Acquire, ValidExpiry
  <2>1. c \in Call
    BY <2>0, Zenon DEF Call, Op, Value
  <2>2. AtItsPlace(c) /\ Justified(c.op, c.key, c.previous, c.value)
    BY <2>0, Zenon DEF AtItsPlace, Justified
  <2>3. UNCHANGED bucketVars /\ Continue(p, c)
    BY <1>3, Zenon DEF Acquire
  <2>. HIDE DEF c
  <2>. QED
    BY <1>2, <2>1, <2>2, <2>3, CallerReads, Zenon
<1>4. ASSUME NEW c \in call[p], Create(p, c)  PROVE IInv'
  <2>1. c \in Call /\ AtItsPlace(c) /\ c.op = "acquire"
    BY <1>1, <1>4, Zenon DEF Create, IInv, WriteInv, AtItsPlace
  <2>2. CASE Accept(Write(c)) /\ Succeed(p, c, Len(log) + 1)
    BY <2>1, <2>2, CallerWrites, Zenon
  <2>3. CASE Refuse(Write(c)) /\ Continue(p, [c EXCEPT !.pc = "lookup", !.exists = TRUE])
    <3> DEFINE d == [c EXCEPT !.pc = "lookup", !.exists = TRUE]
    <3>1. d \in Call /\ d.op = c.op /\ d.key = c.key /\ d.previous = c.previous
          /\ d.value = c.value /\ AtItsPlace(d)
      BY <2>1, Zenon DEF Call, AtItsPlace
    <3>. QED
      BY <2>3, <3>1, CallerWrites, Zenon
  <2>4. CASE Ambiguous(Write(c)) /\ Continue(p, [c EXCEPT !.pc = "lookup"])
    <3> DEFINE d == [c EXCEPT !.pc = "lookup"]
    <3>1. d \in Call /\ d.op = c.op /\ d.key = c.key /\ d.previous = c.previous
          /\ d.value = c.value /\ AtItsPlace(d)
      BY <2>1, Zenon DEF Call, AtItsPlace
    <3>. QED
      BY <2>4, <3>1, CallerWrites, Zenon
  <2>. QED
    BY <1>4, <2>2, <2>3, <2>4, Zenon DEF Create
<1>5. ASSUME NEW c \in call[p], Lookup(p, c)  PROVE IInv'
  <2>1. c \in Call /\ UNCHANGED bucketVars /\ c.op = "acquire"
        /\ Justified(c.op, c.key, c.previous, c.value)
    BY <1>1, <1>5, Zenon DEF Lookup, IInv, WriteInv, AtItsPlace
  <2>2. CASE Fail(p)
    BY <1>2, <2>1, <2>2, CallerReads, Zenon
  <2>3. ASSUME NEW r \in 1..Len(log), Get(c.key, r), LookupReads(p, c, r)
        PROVE  IInv'
    <3>1. log[r].key = c.key /\ r \in Token /\ r \in Nat
      BY <1>2, <2>3 DEF Get, Latest, Token
    <3>2. CASE log[r].value = c.value /\ Succeed(p, c, r)
      BY <2>1, <3>1, <3>2, CallerReads, Zenon
    <3>3. CASE Fail(p)
      BY <2>1, <3>1, <3>3, CallerReads, Zenon
    <3>4. CASE /\ ~Running(log[r].value)
               /\ Continue(p, [c EXCEPT !.pc = "update", !.previous = r,
                                        !.exists = FALSE])
      <4> DEFINE d == [c EXCEPT !.pc = "update", !.previous = r, !.exists = FALSE]
      <4>1. d \in Call /\ d.op = c.op /\ d.key = c.key /\ d.previous = r
            /\ d.value = c.value
        BY <2>1, <3>1, Zenon DEF Call
      <4>2. Takeable(r, c.key)
        BY <3>1, <3>4, EntryFields, <1>1, <1>2 DEF Takeable, Running
      <4>3. AtItsPlace(d) /\ Justified(d.op, d.key, d.previous, d.value)
        BY <2>1, <4>1, <4>2, Zenon DEF AtItsPlace, Justified
      <4>. QED
        BY <1>2, <2>1, <3>4, <4>1, <4>3, CallerReads, Zenon
    <3>. QED
      BY <2>3, <3>2, <3>3, <3>4, Zenon DEF LookupReads
  <2>. QED
    BY <1>5, <2>2, <2>3, Zenon DEF Lookup
<1>6. ASSUME NEW c \in call[p], Update(p, c)  PROVE IInv'
  <2> DEFINE d == [c EXCEPT !.pc = "reconcile"]
  <2>1. c \in Call
    BY <1>1, Zenon
  <2>2. d \in Call /\ d.op = c.op /\ d.key = c.key /\ d.previous = c.previous
        /\ d.value = c.value /\ AtItsPlace(d)
    BY <2>1, Zenon DEF Call, AtItsPlace
  <2>3. \/ Accept(Write(c)) /\ Succeed(p, c, Len(log) + 1)
        \/ (Refuse(Write(c)) \/ Ambiguous(Write(c))) /\ Continue(p, d)
    BY <1>6, Zenon DEF Update
  <2>. HIDE DEF d
  <2>. QED
    BY <2>2, <2>3, CallerWrites, Zenon
<1>7. ASSUME NEW c \in call[p], ReconcileLeaseMutation(p, c)  PROVE IInv'
  <2>1. c \in Call /\ UNCHANGED bucketVars
    BY <1>1, <1>7, Zenon DEF ReconcileLeaseMutation
  <2>2. CASE Fail(p)
    BY <1>2, <2>1, <2>2, CallerReads, Zenon
  <2>3. ASSUME NEW r \in 1..Len(log), Get(c.key, r), Reconciled(c, r), Succeed(p, c, r)
        PROVE  IInv'
    <3>1. log[r].key = c.key /\ log[r].value = c.value /\ r \in Token
      BY <1>2, <2>3 DEF Get, Latest, Reconciled, Token
    <3>. QED
      BY <2>1, <2>3, <3>1, CallerReads, Zenon
  <2>. QED
    BY <1>7, <2>2, <2>3, Zenon DEF ReconcileLeaseMutation
<1>8. ASSUME NEW h \in handle[p], NEW op \in {"renew", "release"}, NEW v \in Value,
             v.holder = h.value.holder, v.expires <= now + MaxLifetime,
             ~h.value.released, UNCHANGED bucketVars, Continue(p, Mutation(op, h, v))
      PROVE  IInv'
  <2> DEFINE c == Mutation(op, h, v)
  <2>1. h \in Grant /\ Told(h)
    BY <1>1, Zenon DEF IInv, ToldInv
  <2>2. c \in Call /\ c.op = op /\ c.key = h.key /\ c.previous = h.token /\ c.value = v
        /\ AtItsPlace(c)
    BY <2>1, Zenon DEF Mutation, Grant, Token, Call, Op, AtItsPlace
  <2>3. Owned(h.token, h.key, v.holder)
    BY <1>8, <2>1, Zenon DEF Told, Owned
  <2>4. Justified(c.op, c.key, c.previous, c.value)
    BY <1>8, <2>2, <2>3, Zenon DEF Justified
  <2>. HIDE DEF c
  <2>. QED
    BY <1>2, <1>8, <2>2, <2>4, CallerReads, Zenon DEF c
<1>9. ASSUME NEW h \in handle[p], NEW e \in Expiry, Renew(p, h, e)
      PROVE  IInv'
  <2> DEFINE v == [h.value EXCEPT !.expires = e]
  <2>1. e \in Nat /\ e <= now + MaxLifetime
    BY <1>9, BucketAssumption DEF Expiry, Renew, ValidExpiry
  <2>2. v \in Value /\ v.holder = h.value.holder /\ v.expires = e
    BY <1>1, <2>1 DEF Grant, Value
  <2>3. ~h.value.released /\ UNCHANGED bucketVars /\ Continue(p, Mutation("renew", h, v))
    BY <1>9, Zenon DEF Renew
  <2>. HIDE DEF v
  <2>. QED
    BY <1>8, <2>1, <2>2, <2>3, Zenon
<1>10. ASSUME NEW h \in handle[p], Release(p, h)  PROVE IInv'
  <2> DEFINE v == [h.value EXCEPT !.released = TRUE]
  <2>1. h \in Grant /\ Told(h)
    BY <1>1, Zenon DEF IInv, ToldInv
  <2>2. v \in Value /\ v.holder = h.value.holder /\ v.expires = h.value.expires
    BY <2>1, Zenon DEF Grant, Value
  <2>3. /\ log[h.token].value = h.value
        /\ log[h.token].at \in Nat /\ log[h.token].at <= now
        /\ h.value.expires <= log[h.token].at + MaxLifetime
        /\ h.value.expires \in Nat
    BY <1>1, <2>1, EntryFields, Zenon DEF Told, IInv, ClockInv
  <2>4. v.expires <= now + MaxLifetime
    BY <1>2, <2>2, <2>3
  <2>5. ~h.value.released /\ UNCHANGED bucketVars /\ Continue(p, Mutation("release", h, v))
    BY <1>10, Zenon DEF Release
  <2>. HIDE DEF v
  <2>. QED
    BY <1>8, <2>2, <2>4, <2>5, Zenon
<1>11. ASSUME UNCHANGED bucketVars, granted' = granted,
              call' \in [Proc -> SUBSET Call], handle' \in [Proc -> SUBSET Grant],
              \A q \in Proc : call'[q] \in SUBSET call[q],
              \A q \in Proc : \A h \in handle'[q] : Told(h)
       PROVE  IInv'
  <2>1. UNCHANGED <<log, stray, now>>
    BY <1>11, Zenon DEF bucketVars
  <2>2. BucketTypeOK(Op, Value)' /\ Grows
    BY <1>1, <2>1 DEF TypeOK, BucketTypeOK, Grows
  <2>3. ClockInv' /\ RunningLeaseNotTaken' /\ OnlyOwnerMutates'
    BY <2>1, <2>2, QuietKeeps, Zenon
  <2>4. ToldInv'
    BY <1>11, <2>1, Zenon DEF IInv, ToldInv, Told
  <2>5. WriteInv'
    BY <1>11, <2>1, <2>2, NoNewWriteKeeps, Zenon
  <2>. QED
    BY <1>1, <1>11, <2>2, <2>3, <2>4, <2>5, Zenon DEF IInv, TypeOK
<1>12. ASSUME NEW g \in granted, Resume(p, g)  PROVE IInv'
  <2>1. g \in Grant /\ Told(g)
    BY <1>1, Zenon DEF IInv, ToldInv
  <2>2. UNCHANGED <<bucketVars, call, granted>> /\ handle' = [handle EXCEPT ![p] = {g}]
    BY <1>12, Zenon DEF Resume
  <2>3. handle' \in [Proc -> SUBSET Grant]
    BY <1>1, <2>1, <2>2, Zenon
  <2>4. \A q \in Proc : \A x \in handle'[q] : x = g \/ x \in handle[q]
    BY <1>1, <2>2, Zenon
  <2>5. \A q \in Proc : \A x \in handle'[q] : Told(x)
    BY <2>1, <2>4, Zenon DEF IInv, ToldInv
  <2>. QED
    BY <1>1, <1>11, <2>2, <2>3, <2>5, Zenon
<1>13. CASE Discard(p)
  <2>1. UNCHANGED <<bucketVars, granted>> /\ call' = [call EXCEPT ![p] = {}]
        /\ handle' = [handle EXCEPT ![p] = {}]
    BY <1>13, Zenon DEF Discard
  <2>2. call' \in [Proc -> SUBSET Call] /\ handle' \in [Proc -> SUBSET Grant]
    BY <1>1, <2>1, Zenon
  <2>3. \A q \in Proc : call'[q] \in SUBSET call[q] /\ handle'[q] \in SUBSET handle[q]
    BY <1>1, <2>1, Zenon
  <2>. QED
    BY <1>11, <2>1, <2>2, <2>3, Zenon DEF IInv, ToldInv
<1>. QED
  BY <1>3, <1>4, <1>5, <1>6, <1>7, <1>9, <1>10, <1>12, <1>13, Zenon DEF Caller

\* A stray write that arrives, and the passing of time, keep the invariant.
LEMMA BucketKeeps ==
  ASSUME IInv, Bucket
  PROVE  IInv'
<1>1. TypeOK /\ UNCHANGED <<call, handle, granted>>
  BY Zenon DEF IInv, Bucket
<1>2. /\ log \in Seq(Entry(Op, Value)) /\ now \in Nat
      /\ stray \in SUBSET Request(Op, Value)
  BY <1>1, Zenon DEF TypeOK, BucketTypeOK
<1>3. /\ BucketTypeOK(Op, Value)' /\ Grows
      /\ ClockInv' /\ RunningLeaseNotTaken' /\ OnlyOwnerMutates'
      /\ \A s \in stray' : Justified(s.op, s.key, s.expect, s.value)'
  <2>1. CASE Tick
    <3>1. log' = log /\ stray' = stray /\ now' = now + 1
      BY <2>1, Zenon DEF Tick
    <3>2. BucketTypeOK(Op, Value)' /\ Grows
      BY <1>2, <3>1 DEF BucketTypeOK, Grows
    <3>3. ASSUME NEW s \in stray'  PROVE Justified(s.op, s.key, s.expect, s.value)'
      <4>1. s \in Request(Op, Value) /\ Justified(s.op, s.key, s.expect, s.value)
        BY <1>2, <3>1, Zenon DEF IInv, WriteInv
      <4>2. s.value \in Value
        BY <4>1, Zenon DEF Request
      <4>. QED
        BY <1>1, <3>2, <4>1, <4>2, GrowthKeepsJustified, Zenon
    <3>. QED
      BY <3>1, <3>2, <3>3, QuietKeeps, Zenon
  <2>2. ASSUME NEW r \in stray, Accept(r)
        PROVE  /\ BucketTypeOK(Op, Value)' /\ Grows
               /\ ClockInv' /\ RunningLeaseNotTaken' /\ OnlyOwnerMutates'
               /\ \A s \in stray' : Justified(s.op, s.key, s.expect, s.value)'
    <3>1. r \in Request(Op, Value) /\ Justified(r.op, r.key, r.expect, r.value)
      BY <1>2, Zenon DEF IInv, WriteInv
    <3>. QED
      BY <2>2, <3>1, WriteKeeps, Zenon
  <2>. QED
    BY <2>1, <2>2, Zenon DEF Bucket, BucketNext, ServeStray
<1>4. ToldInv'
  BY <1>1, <1>3, GrowthKeepsFacts, Zenon DEF IInv, ToldInv
<1>5. ASSUME NEW p \in Proc, NEW c \in call'[p]
      PROVE  AtItsPlace(c) /\ Justified(c.op, c.key, c.previous, c.value)'
  <2>1. c \in Call /\ AtItsPlace(c) /\ Justified(c.op, c.key, c.previous, c.value)
    BY <1>1, Zenon DEF IInv, WriteInv, TypeOK
  <2>2. c.value \in Value
    BY <2>1, Zenon DEF Call
  <2>. QED
    BY <1>1, <1>3, <2>1, <2>2, GrowthKeepsJustified, Zenon
<1>6. WriteInv'
  BY <1>3, <1>5, Zenon DEF WriteInv, AtItsPlace
<1>. QED
  BY <1>1, <1>3, <1>4, <1>6, Zenon DEF IInv, TypeOK

(***************************************************************************)
(* Theorems                                                                *)
(***************************************************************************)

\* The invariant holds of an empty bucket with idle callers.
LEMMA InitEstablishes == Init => IInv
<1> SUFFICES ASSUME Init  PROVE IInv
  BY Zenon
<1>1. log = << >> /\ stray = {} /\ now = 0 /\ granted = {}
      /\ call = [p \in Proc |-> {}] /\ handle = [p \in Proc |-> {}]
  BY Zenon DEF Init, BucketInit
<1>2. TypeOK
  BY <1>1 DEF TypeOK, BucketTypeOK
<1>3. 1..Len(log) = {}
  BY <1>1
<1>4. ClockInv /\ RunningLeaseNotTaken /\ OnlyOwnerMutates
  BY <1>3, Zenon DEF ClockInv, RunningLeaseNotTaken, OnlyOwnerMutates
<1>5. ToldInv /\ WriteInv
  BY <1>1, Zenon DEF ToldInv, WriteInv
<1>. QED
  BY <1>2, <1>4, <1>5, Zenon DEF IInv

\* Every step keeps the invariant.
LEMMA NextKeeps == IInv /\ [Next]_vars => IInv'
<1> SUFFICES ASSUME IInv, [Next]_vars  PROVE IInv'
  BY Zenon
<1>1. CASE UNCHANGED vars
  <2>1. log' = log /\ stray' = stray /\ now' = now
        /\ call' = call /\ handle' = handle /\ granted' = granted
    BY <1>1, Zenon DEF vars, bucketVars
  <2>2. TypeOK'
    BY <2>1, Zenon DEF IInv, TypeOK, BucketTypeOK
  <2>3. ClockInv' /\ OnlyOwnerMutates'
    BY <2>1, Zenon DEF IInv, ClockInv, OnlyOwnerMutates
  <2>6. RunningLeaseNotTaken'
    BY <2>1 DEF IInv, RunningLeaseNotTaken, Replaced
  <2>4. ToldInv'
    BY <2>1, Zenon DEF IInv, ToldInv, Told
  <2>7. Grows
    BY <2>1 DEF IInv, TypeOK, BucketTypeOK, Grows
  <2>5. WriteInv'
    BY <2>1, <2>7, NoNewWriteKeeps, Zenon
  <2>. QED
    BY <2>2, <2>3, <2>4, <2>5, <2>6, Zenon DEF IInv
<1>. QED
  BY <1>1, BucketKeeps, CallerKeeps, Zenon DEF Next

\* IInv is an invariant of the lease store.
THEOREM Invariance == Spec => []IInv
  BY InitEstablishes, NextKeeps, PTL DEF Spec

\* Two callers told the same token were told the entry at that revision.
LEMMA ToldAgree == IInv => TokenNamesOneLease
<1> SUFFICES ASSUME IInv, NEW g \in granted, NEW h \in granted, g.token = h.token
             PROVE  g = h
  BY Zenon DEF TokenNamesOneLease
<1>1. g \in Grant /\ h \in Grant /\ Told(g) /\ Told(h)
  BY Zenon DEF IInv, TypeOK, ToldInv
<1>. QED
  BY <1>1 DEF Grant, Told

\* The store's state is well formed: every entry, stray write, call, lease
\* object and grant has the shape store.go gives it.
THEOREM TypeCorrect == Spec => []TypeOK
<1>1. IInv => TypeOK
  BY Zenon DEF IInv
<1>. QED
  BY <1>1, Invariance, PTL

\* Acquire never takes a lease that is still running: Create finds the key
\* absent only after the retention period, which is longer than any lease,
\* and Update names the revision at which the lease was seen free.
THEOREM TakeoverOnlyWhenFree == Spec => []RunningLeaseNotTaken
<1>1. IInv => RunningLeaseNotTaken
  BY Zenon DEF IInv
<1>. QED
  BY <1>1, Invariance, PTL

\* Renew and Release change only the lease whose token they carry: a holder
\* that lost its lease is fenced off by the revision it names.
THEOREM OwnersOnly == Spec => []OnlyOwnerMutates
<1>1. IInv => OnlyOwnerMutates
  BY Zenon DEF IInv
<1>. QED
  BY <1>1, Invariance, PTL

\* A fencing token names one key, one holder and one expiry, whatever the
\* reconciliation after ambiguous answers told the callers.
THEOREM TokensAreUnique == Spec => []TokenNamesOneLease
  BY ToldAgree, Invariance, PTL

(***************************************************************************)
(* The lease store over a bucket implements the lease table, for every set *)
(* of processes, keys and holders and every value of the bounds.           *)
(*                                                                         *)
(* The argument.  The bucket changes in two ways only: it accepts a write  *)
(* of a call or of a caller that gave up, or the clock moves.  By the      *)
(* invariant IInv the entry such a write names is free or is the writer's  *)
(* own; ShapeInv adds that the bytes written are those of the operation.   *)
(* The compare-and-set makes that entry the lease the table shows, so the  *)
(* write is a grant, a renewal or a release of it.                         *)
(* The clock can only drop a lease older than any lifetime.                *)
(***************************************************************************)

(***************************************************************************)
(* The bytes of a write                                                    *)
(***************************************************************************)

\* Acquire and Renew store a lease that is not released, Release stores the
\* lease it names with the released mark and nothing else changed.
Shaped(op, i, v) ==
  /\ op # "release" => ~v.released /\ v.expires \in Expiry
  /\ op = "release" => v.released /\ v.expires = log[i].value.expires

ShapeInv ==
  /\ \A p \in Proc : \A c \in call[p] : Shaped(c.op, c.previous, c.value)
  /\ \A r \in stray : Shaped(r.op, r.expect, r.value)

\* r is a write some caller sent, and perhaps gave up on.
Sent(r) == r \in stray \/ \E p \in Proc : \E c \in call[p] : r = Write(c)

\* A write that was sent is a request its caller may make, of the right bytes.
LEMMA SentIsLegal ==
  ASSUME IInv, ShapeInv, NEW r, Sent(r)
  PROVE  /\ r \in Request(Op, Value)
         /\ Justified(r.op, r.key, r.expect, r.value)
         /\ Shaped(r.op, r.expect, r.value)
<1>1. TypeOK /\ WriteInv
  BY Zenon DEF IInv
<1>2. CASE r \in stray
  BY <1>1, <1>2, Zenon DEF TypeOK, BucketTypeOK, WriteInv, ShapeInv
<1>3. ASSUME NEW p \in Proc, NEW c \in call[p], r = Write(c)
      PROVE  /\ r \in Request(Op, Value)
             /\ Justified(r.op, r.key, r.expect, r.value)
             /\ Shaped(r.op, r.expect, r.value)
  <2>1. c \in Call
    BY <1>1, Zenon DEF TypeOK
  <2>2. Justified(c.op, c.key, c.previous, c.value) /\ Shaped(c.op, c.previous, c.value)
    BY <1>1, Zenon DEF WriteInv, ShapeInv
  <2>. QED
    BY <1>3, <2>1, <2>2, WriteIsRequest, Zenon
<1>. QED
  BY <1>2, <1>3, Zenon DEF Sent

\* The bucket changes only when it accepts a write that was sent, or when the
\* clock moves; every stray write was sent.
LEMMA BucketSteps ==
  ASSUME [Next]_vars
  PROVE  /\ \/ UNCHANGED <<log, now>>
            \/ Tick
            \/ \E r : Sent(r) /\ Accept(r)
         /\ \A s \in stray' : Sent(s)
<1> DEFINE Quiet == UNCHANGED <<log, now>> /\ \A s \in stray' : Sent(s)
           Writes == \E r : Sent(r) /\ Accept(r)
<1>1. Writes => \A s \in stray' : Sent(s)
  BY Zenon DEF Accept, Sent
<1>2. CASE UNCHANGED bucketVars
  BY <1>2, Zenon DEF bucketVars, Sent
<1>3. ASSUME NEW r, Sent(r), Accept(r) \/ Refuse(r) \/ Ambiguous(r)
      PROVE  Quiet \/ Writes
  <2>1. CASE Accept(r)
    BY <1>3, <2>1, Zenon
  <2>2. CASE UNCHANGED <<log, now>> /\ stray' \in SUBSET (stray \cup {r})
    BY <1>3, <2>2, Zenon DEF Sent
  <2>. QED
    BY <1>3, <2>1, <2>2, Zenon DEF Refuse, Ambiguous, bucketVars
<1>4. ASSUME NEW p \in Proc, NEW c \in call[p],
             Accept(Write(c)) \/ Refuse(Write(c)) \/ Ambiguous(Write(c))
      PROVE  Quiet \/ Writes
  <2>1. Sent(Write(c))
    BY Zenon DEF Sent
  <2>. HIDE DEF Quiet, Writes
  <2>. QED
    BY <1>3, <1>4, <2>1, Zenon
<1>5. CASE Bucket
  <2>1. CASE Tick
    <3>1. stray' = stray
      BY <2>1, Zenon DEF Tick
    <3>. QED
      BY <2>1, <3>1, Zenon DEF Sent
  <2>2. CASE ServeStray
    <3>1. PICK r \in stray : Accept(r)
      BY <2>2, Zenon DEF ServeStray
    <3>2. Sent(r)
      BY Zenon DEF Sent
    <3>. QED
      BY <1>1, <3>1, <3>2, Zenon
  <2>. QED
    BY <1>5, <2>1, <2>2, Zenon DEF Bucket, BucketNext
<1>6. ASSUME NEW p \in Proc, Caller(p)  PROVE UNCHANGED bucketVars \/ Quiet \/ Writes
  <2>1. \/ UNCHANGED bucketVars
        \/ \E c \in call[p] : Accept(Write(c)) \/ Refuse(Write(c)) \/ Ambiguous(Write(c))
    BY <1>6, Zenon DEF Caller, Acquire, Create, Lookup, Update, ReconcileLeaseMutation, Renew,
                Release, Resume, Discard
  <2>. HIDE DEF Quiet, Writes
  <2>. QED
    BY <1>4, <2>1, Zenon
<1>7. UNCHANGED vars => UNCHANGED bucketVars
  BY Zenon DEF vars
<1>. QED
  BY <1>1, <1>2, <1>5, <1>6, <1>7, Zenon DEF Next

\* Every step lets the log grow.
LEMMA StepGrows ==
  ASSUME IInv, ShapeInv, [Next]_vars
  PROVE  Grows
<1>1. TypeOK /\ log \in Seq(Entry(Op, Value)) /\ now \in Nat
  BY Zenon DEF IInv, TypeOK, BucketTypeOK
<1>2. CASE UNCHANGED <<log, now>>
  BY <1>1, <1>2 DEF Grows
<1>3. CASE Tick
  BY <1>1, <1>3 DEF Grows, Tick
<1>4. ASSUME NEW r, Sent(r), Accept(r)  PROVE Grows
  BY <1>1, <1>4, SentIsLegal, AcceptGrows, Zenon
<1>. QED
  BY <1>2, <1>3, <1>4, BucketSteps, Zenon

\* The bytes of a justified write stay right while the log grows.
LEMMA GrowthKeepsShape ==
  ASSUME Grows, NEW op, NEW k, NEW i, NEW v, Justified(op, k, i, v), Shaped(op, i, v)
  PROVE  Shaped(op, i, v)'
<1>1. op = "release" => log'[i] = log[i]
  BY Zenon DEF Justified, Owned, Grows
<1>. QED
  BY <1>1, Zenon DEF Shaped, Expiry

\* d is the call c further on, or a new call whose bytes are right.
Follows(c, d) ==
  /\ d.op = c.op /\ d.value = c.value
  /\ d.previous = c.previous \/ c.op = "acquire"

\* What a step leaves of the calls is old, goes on from an old one, or is new
\* and of the right bytes.
LEMMA CallSteps ==
  ASSUME IInv, [Next]_vars, NEW q \in Proc, NEW d \in call'[q]
  PROVE  \/ \E c \in call[q] : Follows(c, d)
         \/ UNCHANGED log /\ Shaped(d.op, d.previous, d.value)
<1> DEFINE Goal == \/ \E c \in call[q] : Follows(c, d)
                   \/ UNCHANGED log /\ Shaped(d.op, d.previous, d.value)
<1>1. /\ call \in [Proc -> SUBSET Call]
      /\ handle \in [Proc -> SUBSET Grant]
      /\ ToldInv /\ WriteInv
  BY Zenon DEF IInv, TypeOK
<1>2. CASE d \in call[q]
  BY <1>2, Zenon DEF Follows
<1>3. ASSUME NEW p \in Proc, Fail(p) \/ \E c, r : Succeed(p, c, r)  PROVE Goal
  BY <1>1, <1>2, <1>3, Zenon DEF Fail, Succeed
<1>4. ASSUME NEW p \in Proc, NEW c, Continue(p, c)
      PROVE  d \in call[q] \/ (p = q /\ d = c)
  BY <1>1, <1>4, Zenon DEF Continue
<1>5. ASSUME NEW p \in Proc, NEW k \in Key, NEW h \in Holder, NEW e \in Expiry,
             Acquire(p, k, h, e)
      PROVE  Goal
  <2> DEFINE c == [pc |-> "create", op |-> "acquire", key |-> k, previous |-> 0,
                   value |-> [holder |-> h, expires |-> e, released |-> FALSE],
                   exists |-> FALSE]
  <2>1. Continue(p, c) /\ UNCHANGED log
    BY <1>5, Zenon DEF Acquire, bucketVars
  <2>2. Shaped(c.op, c.previous, c.value)
    BY Zenon DEF Shaped
  <2>. HIDE DEF c
  <2>. QED
    BY <1>2, <1>4, <2>1, <2>2, Zenon
<1>6. ASSUME NEW p \in Proc, NEW c \in call[p], NEW x \in Call, Continue(p, x), Follows(c, x)
      PROVE  Goal
  BY <1>2, <1>4, <1>6, Zenon
<1>7. ASSUME NEW p \in Proc, NEW c \in call[p], Create(p, c)  PROVE Goal
  <2> DEFINE x == [c EXCEPT !.pc = "lookup", !.exists = TRUE]
             y == [c EXCEPT !.pc = "lookup"]
  <2>1. c \in Call
    BY <1>1, Zenon
  <2>2. x \in Call /\ y \in Call /\ Follows(c, x) /\ Follows(c, y)
    BY <2>1, Zenon DEF Call, Follows
  <2>3. (\E z, r : Succeed(p, z, r)) \/ Continue(p, x) \/ Continue(p, y)
    BY <1>7, Zenon DEF Create
  <2>. HIDE DEF x, y
  <2>. QED
    BY <1>3, <1>6, <2>2, <2>3, Zenon
<1>8. ASSUME NEW p \in Proc, NEW c \in call[p], Lookup(p, c)  PROVE Goal
  <2>1. c \in Call /\ c.op = "acquire"
    BY <1>1, <1>8, Zenon DEF WriteInv, AtItsPlace, Lookup
  <2>2. CASE Fail(p) \/ \E z, r : Succeed(p, z, r)
    BY <1>3, <2>2, Zenon
  <2>3. ASSUME NEW r \in 1..Len(log),
               Continue(p, [c EXCEPT !.pc = "update", !.previous = r, !.exists = FALSE])
        PROVE  Goal
    <3> DEFINE x == [c EXCEPT !.pc = "update", !.previous = r, !.exists = FALSE]
    <3>0. r \in Nat
      BY DEF IInv, TypeOK, BucketTypeOK
    <3>1. x \in Call /\ Follows(c, x)
      BY <2>1, <3>0, Zenon DEF Call, Follows
    <3>2. Continue(p, x)
      BY <2>3, Zenon
    <3>. HIDE DEF x
    <3>. QED
      BY <1>6, <3>1, <3>2, Zenon
  <2>. QED
    BY <1>8, <2>2, <2>3, Zenon DEF Lookup, LookupReads
<1>9. ASSUME NEW p \in Proc, NEW c \in call[p], Update(p, c)  PROVE Goal
  <2> DEFINE x == [c EXCEPT !.pc = "reconcile"]
  <2>1. c \in Call
    BY <1>1, Zenon
  <2>2. x \in Call /\ Follows(c, x)
    BY <2>1, Zenon DEF Call, Follows
  <2>3. (\E z, r : Succeed(p, z, r)) \/ Continue(p, x)
    BY <1>9, Zenon DEF Update
  <2>. HIDE DEF x
  <2>. QED
    BY <1>3, <1>6, <2>2, <2>3, Zenon
<1>10. ASSUME NEW p \in Proc, NEW h \in handle[p], NEW e \in Expiry, Renew(p, h, e)
       PROVE  Goal
  <2> DEFINE v == [h.value EXCEPT !.expires = e]
             c == Mutation("renew", h, v)
  <2>1. h \in Grant /\ ~h.value.released /\ Continue(p, c) /\ UNCHANGED log
    BY <1>1, <1>10, Zenon DEF Renew, bucketVars
  <2>2. h.value \in Value
    BY <2>1, Zenon DEF Grant
  <2>3. v.expires = e /\ ~v.released
    BY <2>1, <2>2, Zenon DEF Value
  <2>4. c.op = "renew" /\ c.value = v
    BY Zenon DEF Mutation
  <2>5. Shaped(c.op, c.previous, c.value)
    BY <2>3, <2>4, Zenon DEF Shaped
  <2>. HIDE DEF c
  <2>. QED
    BY <1>2, <1>4, <2>1, <2>5, Zenon
<1>11. ASSUME NEW p \in Proc, NEW h \in handle[p], Release(p, h)  PROVE Goal
  <2> DEFINE v == [h.value EXCEPT !.released = TRUE]
             c == Mutation("release", h, v)
  <2>1. h \in Grant /\ Told(h) /\ Continue(p, c) /\ UNCHANGED log
    BY <1>1, <1>11, Zenon DEF Release, bucketVars, ToldInv
  <2>2. h.value \in Value
    BY <2>1, Zenon DEF Grant
  <2>3. v.released /\ v.expires = log[h.token].value.expires
    BY <2>1, <2>2, Zenon DEF Value, Told
  <2>4. c.op = "release" /\ c.value = v /\ c.previous = h.token
    BY Zenon DEF Mutation
  <2>5. Shaped(c.op, c.previous, c.value)
    BY <2>3, <2>4, Zenon DEF Shaped
  <2>. HIDE DEF c
  <2>. QED
    BY <1>2, <1>4, <2>1, <2>5, Zenon
<1>12. CASE call' = call
  BY <1>2, <1>12, Zenon
<1>13. ASSUME NEW p \in Proc, Discard(p) \/ \E c \in call[p] : ReconcileLeaseMutation(p, c)
       PROVE  Goal
  <2>1. CASE Discard(p)
    BY <1>1, <1>2, <2>1, Zenon DEF Discard
  <2>2. ASSUME NEW c \in call[p], ReconcileLeaseMutation(p, c)  PROVE Goal
    BY <1>3, <2>2, Zenon DEF ReconcileLeaseMutation
  <2>. QED
    BY <1>13, <2>1, <2>2, Zenon
<1>14. ASSUME NEW p \in Proc, Caller(p)  PROVE Goal
  <2>1. ASSUME NEW g \in granted, Resume(p, g)  PROVE Goal
    BY <1>12, <2>1, Zenon DEF Resume
  <2>. HIDE DEF Goal
  <2>. QED
    BY <1>5, <1>7, <1>8, <1>9, <1>10, <1>11, <1>13, <1>14, <2>1, Zenon DEF Caller
<1>15. UNCHANGED vars \/ Bucket => call' = call
  BY Zenon DEF vars, Bucket
<1>. QED
  BY <1>12, <1>14, <1>15, Zenon DEF Next

\* Every step keeps the bytes of the writes right.
LEMMA ShapeKeeps ==
  ASSUME IInv, ShapeInv, [Next]_vars
  PROVE  ShapeInv'
<1>1. Grows
  BY StepGrows, Zenon
<1>2. ASSUME NEW s \in stray'  PROVE Shaped(s.op, s.expect, s.value)'
  <2>1. Sent(s)
    BY BucketSteps, Zenon
  <2>. QED
    BY <1>1, <2>1, SentIsLegal, GrowthKeepsShape, Zenon
<1>3. ASSUME NEW q \in Proc, NEW d \in call'[q]
      PROVE  Shaped(d.op, d.previous, d.value)'
  <2>1. ASSUME NEW c \in call[q], Follows(c, d)  PROVE Shaped(d.op, d.previous, d.value)'
    <3>1. /\ Justified(c.op, c.key, c.previous, c.value)
          /\ Shaped(c.op, c.previous, c.value)
      BY Zenon DEF IInv, WriteInv, ShapeInv
    <3>2. Shaped(c.op, c.previous, c.value)'
      BY <1>1, <3>1, GrowthKeepsShape, Zenon
    <3>. QED
      BY <2>1, <3>2, Zenon DEF Follows, Shaped
  <2>2. ASSUME UNCHANGED log, Shaped(d.op, d.previous, d.value)
        PROVE  Shaped(d.op, d.previous, d.value)'
    BY <2>2, Zenon DEF Shaped, Expiry
  <2>. QED
    BY <2>1, <2>2, CallSteps, Zenon
<1>. QED
  BY <1>2, <1>3, Zenon DEF ShapeInv

(***************************************************************************)
(* The lease the table shows                                               *)
(***************************************************************************)

\* The entry at i as the table shows it.
Shown(i) == [holder |-> log[i].value.holder, expires |-> log[i].value.expires,
             released |-> log[i].value.released, token |-> i]

\* The table shows the live entry of a key.
LEMMA LeaseIsLive ==
  ASSUME NEW k
  PROVE  LeaseOf(k) = {Shown(i) : i \in Live(k)}
  BY Zenon DEF LeaseOf, Live, Shown

\* The entry a compare-and-set matches is the lease the table shows.
LEMMA MatchedIsShown ==
  ASSUME TypeOK, NEW r \in Request(Op, Value), Matches(r)
  PROVE  /\ r.expect = 0 => LeaseOf(r.key) = {}
         /\ r.expect # 0 => r.expect \in 1..Len(log) /\ LeaseOf(r.key) = {Shown(r.expect)}
<1>1. Len(log) \in Nat
  BY DEF TypeOK, BucketTypeOK
<1>2. /\ r.expect = 0 => Live(r.key) = {}
      /\ r.expect # 0 => r.expect \in 1..Len(log) /\ Live(r.key) = {r.expect}
  BY <1>1, MatchedIsLive, Zenon
<1>3. LeaseOf(r.key) = {Shown(i) : i \in Live(r.key)}
  BY LeaseIsLive, Zenon
<1>. QED
  BY <1>2, <1>3, Zenon

\* An accepted write becomes the lease of its key, at the next token, and no
\* other lease changes.
LEMMA AcceptShows ==
  ASSUME TypeOK, NEW r \in Request(Op, Value), Accept(r)
  PROVE  /\ LeaseOf(r.key)' = {[holder |-> r.value.holder, expires |-> r.value.expires,
                                released |-> r.value.released, token |-> Len(log) + 1]}
         /\ \A k \in Key : k # r.key => LeaseOf(k)' = LeaseOf(k)
<1>1. BucketTypeOK(Op, Value)
  BY Zenon DEF TypeOK
<1>2. /\ Live(r.key)' = {Len(log) + 1}
      /\ \A k \in Key : k # r.key => Live(k)' = Live(k)
  BY <1>1, AcceptIsLive, Zenon
<1>3. /\ \A i \in 1..Len(log) : log'[i] = log[i]
      /\ log'[Len(log) + 1] = [op |-> r.op, key |-> r.key, expect |-> r.expect,
                               value |-> r.value, at |-> now]
  BY <1>1, AcceptAppends, Zenon
<1>4. \A k : LeaseOf(k)' = {Shown(i)' : i \in Live(k)'}
  BY Zenon DEF LeaseOf, Live, Shown
<1>5. LeaseOf(r.key)' = {[holder |-> r.value.holder, expires |-> r.value.expires,
                          released |-> r.value.released, token |-> Len(log) + 1]}
  BY <1>2, <1>3, <1>4 DEF Shown
<1>6. ASSUME NEW k \in Key, k # r.key  PROVE LeaseOf(k)' = LeaseOf(k)
  <2>1. \A i \in Live(k) : Shown(i)' = Shown(i)
    BY <1>3, Zenon DEF Shown, Live
  <2>. QED
    BY <1>2, <1>4, <1>6, <2>1, LeaseIsLive, Zenon
<1>. QED
  BY <1>5, <1>6, Zenon

\* When the clock moves a lease stays, or is dropped after its time ran out:
\* the bucket keeps an entry longer than any lease lasts.
LEMMA TickDropsExpired ==
  ASSUME IInv, Tick, NEW k \in Key
  PROVE  \/ LeaseOf(k)' = LeaseOf(k)
         \/ LeaseOf(k)' = {} /\ \A l \in LeaseOf(k) : l.expires <= now'
<1>1. /\ TypeOK /\ BucketTypeOK(Op, Value) /\ ClockInv /\ now \in Nat
      /\ Retention \in Nat /\ MaxLifetime \in Nat /\ MaxLifetime < Retention
  BY BucketAssumption, LeaseAssumption, Zenon DEF IInv, TypeOK, BucketTypeOK
<1>2. log' = log /\ now' = now + 1
  BY Zenon DEF Tick
<1>3. LeaseOf(k) = {Shown(i) : i \in Live(k)} /\ LeaseOf(k)' = {Shown(i) : i \in Live(k)'}
  BY <1>2, Zenon DEF LeaseOf, Live, Shown
<1>4. CASE Live(k)' = Live(k)
  BY <1>3, <1>4, Zenon
<1>5. CASE Live(k)' = {} /\ \A i \in Live(k) : log[i].at + Retention <= now'
  <2>1. ASSUME NEW i \in Live(k)  PROVE Shown(i).expires <= now'
    <3>1. i \in 1..Len(log)
      BY Zenon DEF Live
    <3>2. log[i].at \in Nat /\ log[i].value.expires \in Nat
      BY <1>1, <3>1, EntryFields, Zenon
    <3>3. log[i].value.expires <= log[i].at + MaxLifetime
      BY <1>1, <3>1, Zenon DEF ClockInv
    <3>. QED
      BY <1>1, <1>2, <1>5, <3>2, <3>3 DEF Shown
  <2>. QED
    BY <1>3, <1>5, <2>1, Zenon
<1>. QED
  BY <1>1, <1>4, <1>5, TickDropsOld, Zenon

(***************************************************************************)
(* The refinement                                                          *)
(***************************************************************************)

\* An accepted write is a grant, a renewal or a release of the table's lease.
LEMMA AcceptIsChange ==
  ASSUME IInv, ShapeInv, NEW r, Sent(r), Accept(r)
  PROVE  Table!Change
<1>1. /\ r \in Request(Op, Value)
      /\ Justified(r.op, r.key, r.expect, r.value)
      /\ Shaped(r.op, r.expect, r.value)
  BY SentIsLegal, Zenon
<1>2. TypeOK /\ Matches(r) /\ now' = now
  BY Zenon DEF IInv, Accept
<1>3. Len(log') = Len(log) + 1
  BY <1>1, <1>2, AcceptGrows, Zenon
<1>4. r.key \in Key /\ r.value \in Value /\ r.op \in Op
  BY <1>1, Zenon DEF Request
<1>5. r.value.holder \in Holder /\ r.value.released \in BOOLEAN
  BY <1>4, Zenon DEF Value
<1> DEFINE T == [k \in Key |-> LeaseOf(k)]
           U == [k \in Key |-> LeaseOf(k)']
           new == [holder |-> r.value.holder, expires |-> r.value.expires,
                   released |-> r.value.released, token |-> Len(log) + 1]
<1>6. U = [T EXCEPT ![r.key] = {new}]
  <2>1. \A k \in Key : U[k] = IF k = r.key THEN {new} ELSE T[k]
    BY <1>1, <1>2, <1>4, AcceptShows, Zenon
  <2>. HIDE DEF new
  <2>. QED
    BY <1>4, <2>1, Zenon
<1>7. CASE r.op = "acquire"
  <2>1. r.value.released = FALSE /\ r.value.expires \in Expiry
    BY <1>1, <1>5, <1>7, Zenon DEF Shaped
  <2>2. \A l \in T[r.key] : l.released \/ l.expires <= now
    <3>1. CASE r.expect = 0
      BY <1>1, <1>2, <1>4, <3>1, MatchedIsShown, Zenon
    <3>2. CASE r.expect # 0
      <4>1. T[r.key] = {Shown(r.expect)}
        BY <1>1, <1>2, <1>4, <3>2, MatchedIsShown, Zenon
      <4>2. Takeable(r.expect, r.key)
        BY <1>1, <1>7, <3>2, Zenon DEF Justified
      <4>3. Shown(r.expect).released \/ Shown(r.expect).expires <= now
        BY <4>2, Zenon DEF Takeable, Shown
      <4>. HIDE DEF T
      <4>. QED
        BY <4>1, <4>3, Zenon
    <3>. QED
      BY <3>1, <3>2, Zenon
  <2>3. Table!GrantLease(r.key, r.value.holder, r.value.expires)
    BY <1>6, <2>1, <2>2, Zenon DEF Table!GrantLease, Table!Free, Table!Put
  <2>. QED
    BY <1>2, <1>3, <1>4, <1>5, <2>1, <2>3, Zenon DEF Table!Change
<1>8. CASE r.op # "acquire"
  <2>1. Owned(r.expect, r.key, r.value.holder)
    BY <1>1, <1>8, Zenon DEF Justified
  <2>2. r.expect # 0
    BY <1>2, <2>1 DEF Owned, TypeOK, BucketTypeOK
  <2>3. T[r.key] = {Shown(r.expect)}
    BY <1>1, <1>2, <1>4, <2>2, MatchedIsShown, Zenon
  <2>4. /\ Shown(r.expect).holder = r.value.holder
        /\ ~Shown(r.expect).released
        /\ Shown(r.expect).expires = log[r.expect].value.expires
    BY <2>1, Zenon DEF Owned, Shown
  <2>5. Shown(r.expect) \in T[r.key]
    BY <2>3, Zenon
  <2>6. CASE r.op = "release"
    <3>1. r.value.released = TRUE /\ r.value.expires = Shown(r.expect).expires
      BY <1>1, <1>5, <2>4, <2>6, Zenon DEF Shaped
    <3>2. Table!ReleaseLease(r.key, Shown(r.expect))
      BY <1>6, <2>4, <3>1, Zenon DEF Table!ReleaseLease, Table!Put
    <3>. QED
      BY <1>2, <1>3, <1>4, <2>5, <3>2, Zenon DEF Table!Change
  <2>7. CASE r.op = "renew"
    <3>1. r.value.released = FALSE /\ r.value.expires \in Expiry
      BY <1>1, <1>5, <2>7, Zenon DEF Shaped
    <3>2. Table!RenewLease(r.key, Shown(r.expect), r.value.expires)
      BY <1>6, <2>4, <3>1, Zenon DEF Table!RenewLease, Table!Put
    <3>. QED
      BY <1>2, <1>3, <1>4, <2>5, <3>1, <3>2, Zenon DEF Table!Change
  <2>. QED
    BY <1>4, <1>8, <2>6, <2>7, Zenon DEF Op
<1>. QED
  BY <1>7, <1>8, Zenon

\* Every step of the store is a step of the table or leaves it alone.
LEMMA StepRefines ==
  ASSUME IInv, ShapeInv, [Next]_vars
  PROVE  [Table!Next]_Table!vars
<1>1. CASE UNCHANGED <<log, now>>
  <2>1. \A k \in Key : LeaseOf(k)' = LeaseOf(k)
    BY <1>1, Zenon DEF LeaseOf, Latest, Kept
  <2>. QED
    BY <1>1, <2>1, Zenon DEF Table!vars
<1>2. CASE Tick
  <2>1. now' = now + 1 /\ log' = log
    BY <1>2, Zenon DEF Tick
  <2>2. \A k \in Key : \/ LeaseOf(k)' = LeaseOf(k)
                       \/ LeaseOf(k)' = {} /\ \A l \in LeaseOf(k) : l.expires <= now'
    BY <1>2, TickDropsExpired, Zenon
  <2>3. Table!Pass
    BY <2>1, <2>2, Zenon DEF Table!Pass
  <2>. QED
    BY <2>3, Zenon DEF Table!Next
<1>3. ASSUME NEW r, Sent(r), Accept(r)  PROVE Table!Next
  BY <1>3, AcceptIsChange, Zenon DEF Table!Next
<1>. QED
  BY <1>1, <1>2, <1>3, BucketSteps, Zenon

\* An empty bucket is an empty table, and has no writes.
LEMMA InitRefines == Init => Table!Init /\ ShapeInv
<1> SUFFICES ASSUME Init  PROVE Table!Init /\ ShapeInv
  BY Zenon
<1>1. log = << >> /\ stray = {} /\ now = 0 /\ call = [p \in Proc |-> {}]
  BY Zenon DEF Init, BucketInit
<1>2. Len(log) = 0 /\ \A k \in Key : LeaseOf(k) = {}
  BY <1>1 DEF LeaseOf
<1>. QED
  BY <1>1, <1>2, Zenon DEF Table!Init, ShapeInv

\* The store implements the lease table whatever the interleaving of callers,
\* late writes, lost answers and lagging replicas: its users may think of one
\* lease per key, given away only when free, with a token that always grows.
THEOREM StoreImplementsTable == Spec => ImplementsLeaseTable
<1>1. Init => IInv /\ Table!Init /\ ShapeInv
  BY InitEstablishes, InitRefines, Zenon
<1>2. IInv /\ ShapeInv /\ [Next]_vars => IInv' /\ ShapeInv' /\ [Table!Next]_Table!vars
  BY NextKeeps, ShapeKeeps, StepRefines, Zenon
<1>. QED
  BY <1>1, <1>2, PTL DEF Spec, ImplementsLeaseTable, Table!Spec

(***************************************************************************)
(* The verdict of Inspect.  Only a release stores the released mark, and a *)
(* release names the entry of its key that was the last one when it was    *)
(* accepted.  When the entry right after a token is of the token's key and *)
(* carries the mark, it can therefore name no entry but the token's.       *)
(***************************************************************************)

\* An entry with the released mark was written by Release, and a renewal or
\* release names the last entry of its key before it.
HistoryInv ==
  \A j \in 1..Len(log) :
    /\ log[j].value.released => log[j].op = "release"
    /\ log[j].op # "acquire" =>
         \A m \in (log[j].expect + 1)..(j - 1) : log[m].key # log[j].key

\* An accepted write keeps the history.
LEMMA AcceptKeepsHistory ==
  ASSUME IInv, ShapeInv, HistoryInv, NEW r, Sent(r), Accept(r)
  PROVE  HistoryInv'
<1>1. /\ r \in Request(Op, Value)
      /\ Justified(r.op, r.key, r.expect, r.value)
      /\ Shaped(r.op, r.expect, r.value)
  BY SentIsLegal, Zenon
<1>2. TypeOK /\ Len(log) \in Nat
  BY DEF IInv, TypeOK, BucketTypeOK
<1>3. PICK m \in Nat : m = Len(log) + 1
  BY <1>2
<1>4. /\ Grows
      /\ Len(log') = m
      /\ log'[m].op = r.op /\ log'[m].key = r.key /\ log'[m].expect = r.expect
      /\ log'[m].value = r.value
  <2>1. /\ Grows
        /\ Len(log') = Len(log) + 1
        /\ log'[Len(log) + 1] = [op |-> r.op, key |-> r.key, expect |-> r.expect,
                                 value |-> r.value, at |-> now]
    BY <1>1, <1>2, AcceptGrows, Zenon
  <2>. QED
    BY <1>3, <2>1
<1>5. \A i \in 1..Len(log) : log'[i] = log[i]
  BY <1>4, Zenon DEF Grows
<1> SUFFICES ASSUME NEW j \in 1..m
             PROVE  /\ log'[j].value.released => log'[j].op = "release"
                    /\ log'[j].op # "acquire" =>
                         \A n \in (log'[j].expect + 1)..(j - 1) : log'[n].key # log'[j].key
  BY <1>4, Zenon DEF HistoryInv
<1>6. CASE j \in 1..Len(log)
  <2>1. log'[j] = log[j] /\ log[j].expect \in Nat
    BY <1>2, <1>5, <1>6, EntryFields, Zenon
  <2>2. \A n \in (log[j].expect + 1)..(j - 1) : n \in 1..Len(log) /\ log'[n] = log[n]
    BY <1>2, <1>5, <1>6, <2>1
  <2>. QED
    BY <1>6, <2>1, <2>2, Zenon DEF HistoryInv
<1>7. CASE j = m
  <2>1. r.value.released => r.op = "release"
    BY <1>1, Zenon DEF Shaped
  <2>2. ASSUME r.op # "acquire"
        PROVE  \A n \in (r.expect + 1)..(m - 1) : log'[n].key # r.key
    <3>1. r.expect \in 1..Len(log)
      BY <1>1, <2>2, Zenon DEF Justified, Owned
    <3>2. \A n \in (r.expect + 1)..Len(log) : log[n].key # r.key
      BY <1>2, <3>1 DEF Accept, Matches, Latest
    <3>3. \A n \in (r.expect + 1)..(m - 1) : n \in (r.expect + 1)..Len(log) /\ n \in 1..Len(log)
      BY <1>2, <1>3, <3>1
    <3>. QED
      BY <1>5, <3>2, <3>3, Zenon
  <2>. QED
    BY <1>4, <1>7, <2>1, <2>2, Zenon
<1>. QED
  BY <1>2, <1>3, <1>6, <1>7

\* Every step keeps the history.
LEMMA HistoryKeeps ==
  ASSUME IInv, ShapeInv, HistoryInv, [Next]_vars
  PROVE  HistoryInv'
<1>1. log' = log => HistoryInv'
  BY Zenon DEF HistoryInv
<1>2. Tick => log' = log
  BY Zenon DEF Tick
<1>. QED
  BY <1>1, <1>2, AcceptKeepsHistory, BucketSteps, Zenon

\* The history makes the verdict right.
LEMMA HistoryGivesVerdict ==
  ASSUME IInv, HistoryInv
  PROVE  ReleasedVerdictIsTrue
<1> SUFFICES ASSUME NEW g \in granted, NEW r \in 1..Len(log),
                    Get(g.key, r), Inspect(g, r) = "released"
             PROVE  log[r].op = "release" /\ log[r].expect = g.token
  BY Zenon DEF ReleasedVerdictIsTrue
<1>1. TypeOK /\ Told(g) /\ OnlyOwnerMutates /\ Len(log) \in Nat
  BY DEF IInv, ToldInv, TypeOK, BucketTypeOK
<1>2. log[r].value.released /\ r = g.token + 1
  BY Zenon DEF Inspect
<1>3. log[r].key = g.key
  BY DEF Get, Latest
<1>4. log[r].op = "release"
  BY <1>2, Zenon DEF HistoryInv
<1>5. /\ log[r].expect \in 1..(r - 1)
      /\ \A m \in (log[r].expect + 1)..(r - 1) : log[m].key # log[r].key
  BY <1>1, <1>4, Zenon DEF HistoryInv, OnlyOwnerMutates
<1>6. g.token \in 1..Len(log) /\ log[g.token].key = g.key /\ g.token = r - 1
  BY <1>1, <1>2 DEF Told
<1>7. ~(log[r].expect < r - 1)
  <2> SUFFICES ASSUME log[r].expect < r - 1  PROVE FALSE
    BY Zenon
  <2>1. r - 1 \in (log[r].expect + 1)..(r - 1)
    BY <1>1, <1>5
  <2>. QED
    BY <1>3, <1>5, <1>6, <2>1, Zenon
<1>. QED
  BY <1>1, <1>4, <1>5, <1>6, <1>7

\* What a fencing token says is true for any processes, keys and bounds: it
\* names one lease, and Store.Inspect calls that lease released only when its
\* own holder released it, never because a later lease of the holder was.
THEOREM TokensTellTheTruth == Spec => []TokensAreTrue
<1>1. Init => HistoryInv
  <2> SUFFICES ASSUME Init  PROVE HistoryInv
    BY Zenon
  <2>1. 1..Len(log) = {}
    BY DEF Init, BucketInit
  <2>. QED
    BY <2>1, Zenon DEF HistoryInv
<1>2. Init => IInv /\ ShapeInv
  BY InitEstablishes, InitRefines, Zenon
<1>3. IInv /\ ShapeInv /\ HistoryInv /\ [Next]_vars => IInv' /\ ShapeInv' /\ HistoryInv'
  BY NextKeeps, ShapeKeeps, HistoryKeeps, Zenon
<1>4. IInv /\ HistoryInv => TokensAreTrue
  BY ToldAgree, HistoryGivesVerdict, Zenon DEF TokensAreTrue
<1>. QED
  BY <1>1, <1>2, <1>3, <1>4, PTL DEF Spec
=============================================================================
