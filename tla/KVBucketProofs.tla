--------------------------- MODULE KVBucketProofs ---------------------------
(***************************************************************************)
(* What every adapter over the bucket relies on, for any operations O and  *)
(* values V: the stream only grows, a compare-and-set names the live entry *)
(* of its key, an accepted write becomes it, and only retention drops it.  *)
(***************************************************************************)
EXTENDS KVBucket, TLAPS

\* The revision of the live entry of key k, as a set of at most one.
Live(k) == {i \in 1..Len(log) : Latest(Len(log), k, i)}

\* Appending to a sequence keeps its elements.
LEMMA AppendFacts ==
  ASSUME NEW S, NEW s \in Seq(S), NEW e \in S
  PROVE  /\ Append(s, e) \in Seq(S)
         /\ Len(Append(s, e)) = Len(s) + 1
         /\ \A i \in 1..Len(s) : Append(s, e)[i] = s[i]
         /\ Append(s, e)[Len(s) + 1] = e
  OBVIOUS

\* An accepted write is appended at the next revision; every revision that
\* was given out keeps its entry.
LEMMA AcceptAppends ==
  ASSUME NEW O, NEW V, BucketTypeOK(O, V), NEW r \in Request(O, V), Accept(r)
  PROVE  /\ BucketTypeOK(O, V)'
         /\ Len(log') = Len(log) + 1
         /\ \A i \in 1..Len(log) : log'[i] = log[i]
         /\ log'[Len(log) + 1] = [op |-> r.op, key |-> r.key, expect |-> r.expect,
                                  value |-> r.value, at |-> now]
         /\ now' = now
<1> DEFINE e == [op |-> r.op, key |-> r.key, expect |-> r.expect,
                 value |-> r.value, at |-> now]
<1>1. log \in Seq(Entry(O, V)) /\ now \in Nat /\ stray \in SUBSET Request(O, V)
  BY Zenon DEF BucketTypeOK
<1>2. e \in Entry(O, V)
  BY <1>1, Zenon DEF Request, Entry
<1>3. log' = Append(log, e) /\ now' = now /\ stray' \in SUBSET Request(O, V)
  BY <1>1, Zenon DEF Accept
<1>4. /\ log' \in Seq(Entry(O, V))
      /\ Len(log') = Len(log) + 1
      /\ \A i \in 1..Len(log) : log'[i] = log[i]
      /\ log'[Len(log) + 1] = e
  BY <1>1, <1>2, <1>3, AppendFacts
<1>. QED
  BY <1>1, <1>3, <1>4, Zenon DEF BucketTypeOK

\* A key has one live entry at most.
LEMMA LiveIsOne ==
  ASSUME Len(log) \in Nat, NEW k, NEW i \in Live(k)
  PROVE  Live(k) = {i}
<1>1. ASSUME NEW j \in Live(k)  PROVE j = i
  BY <1>1 DEF Live, Latest
<1>. QED
  BY <1>1, Zenon

\* The entry a compare-and-set matches is the live one; a create matches only
\* when there is none.
LEMMA MatchedIsLive ==
  ASSUME Len(log) \in Nat, NEW r, Matches(r)
  PROVE  /\ r.expect = 0 => Live(r.key) = {}
         /\ r.expect # 0 => r.expect \in 1..Len(log) /\ Live(r.key) = {r.expect}
<1>1. CASE r.expect = 0
  <2>1. \A i \in 1..Len(log) : log[i].key = r.key => ~Kept(i)
    BY <1>1 DEF Matches, Latest
  <2>. QED
    BY <1>1, <2>1 DEF Live, Latest
<1>2. CASE r.expect # 0
  <2>1. r.expect \in Live(r.key) /\ r.expect \in 1..Len(log)
    BY <1>2, Zenon DEF Matches, Latest, Live
  <2>. QED
    BY <1>2, <2>1, LiveIsOne, Zenon
<1>. QED
  BY <1>1, <1>2, Zenon

\* An accepted write becomes the live entry of its key and of no other.
LEMMA AcceptIsLive ==
  ASSUME NEW O, NEW V, BucketTypeOK(O, V), NEW r \in Request(O, V), Accept(r)
  PROVE  /\ Live(r.key)' = {Len(log) + 1}
         /\ \A k \in Key : k # r.key => Live(k)' = Live(k)
<1>1. Len(log) \in Nat /\ now \in Nat /\ Retention \in Nat \ {0}
  BY BucketAssumption DEF BucketTypeOK
<1>2. PICK m \in Nat : m = Len(log) + 1
  BY <1>1
<1>3. /\ \A i \in 1..Len(log) : log'[i] = log[i]
      /\ Len(log') = m /\ log'[m].key = r.key /\ log'[m].at = now /\ now' = now
  <2>1. /\ Len(log') = Len(log) + 1
        /\ \A i \in 1..Len(log) : log'[i] = log[i]
        /\ log'[Len(log) + 1] = [op |-> r.op, key |-> r.key, expect |-> r.expect,
                                 value |-> r.value, at |-> now]
        /\ now' = now
    BY AcceptAppends, Zenon
  <2>. QED
    BY <1>2, <2>1
<1>4. Live(r.key)' = {m}
  <2>1. Kept(m)'
    BY <1>1, <1>3 DEF Kept
  <2>2. Latest(Len(log), r.key, m)'
    BY <1>1, <1>2, <1>3, <2>1 DEF Latest
  <2>3. ASSUME NEW j \in 1..m, Latest(Len(log), r.key, j)'  PROVE j = m
    BY <1>1, <1>2, <1>3, <2>3 DEF Latest
  <2>4. {j \in 1..m : Latest(Len(log), r.key, j)'} = {m}
    BY <1>1, <1>2, <2>2, <2>3
  <2>. QED
    BY <1>3, <2>4, Zenon DEF Live
<1>5. ASSUME NEW k \in Key, k # r.key  PROVE Live(k)' = Live(k)
  <2>1. \A i \in 1..Len(log) : Kept(i)' <=> Kept(i)
    BY <1>3, Zenon DEF Kept
  <2>2. ASSUME NEW i \in 1..Len(log)  PROVE Latest(Len(log), k, i)' <=> Latest(Len(log), k, i)
    <3>1. \A j \in (i + 1)..m : j \in (i + 1)..Len(log) \/ j = m
      BY <1>1, <1>2
    <3>2. \A j \in (i + 1)..Len(log) : j \in (i + 1)..m /\ j \in 1..Len(log)
      BY <1>1, <1>2
    <3>. QED
      BY <1>1, <1>2, <1>3, <1>5, <2>1, <3>1, <3>2 DEF Latest
  <2>3. ~Latest(Len(log), k, m)'
    BY <1>1, <1>2, <1>3, <1>5 DEF Latest
  <2>4. {j \in 1..m : Latest(Len(log), k, j)'} = {j \in 1..Len(log) : Latest(Len(log), k, j)}
    BY <1>1, <1>2, <2>2, <2>3
  <2>. QED
    BY <1>3, <2>4, Zenon DEF Live
<1>. QED
  BY <1>2, <1>4, <1>5, Zenon

\* The clock leaves the live entry of a key alone or drops one that was kept
\* for the whole retention period.
LEMMA TickDropsOld ==
  ASSUME NEW O, NEW V, BucketTypeOK(O, V), Tick, NEW k
  PROVE  \/ Live(k)' = Live(k)
         \/ /\ Live(k)' = {}
            /\ \A i \in Live(k) : log[i].at + Retention <= now'
<1>1. Len(log) \in Nat /\ now \in Nat /\ Retention \in Nat /\ log \in Seq(Entry(O, V))
  BY BucketAssumption DEF BucketTypeOK
<1>2. log' = log /\ now' = now + 1
  BY Zenon DEF Tick
<1>3. ASSUME NEW i \in 1..Len(log)  PROVE log[i].at \in Nat
  <2>1. log[i] \in Entry(O, V)
    BY <1>1
  <2>. QED
    BY <2>1, Zenon DEF Entry
<1>4. \A i \in 1..Len(log) : Kept(i)' => Kept(i)
  BY <1>1, <1>2, <1>3 DEF Kept
<1>5. \A i \in 1..Len(log) :
        Latest(Len(log), k, i)' <=> Latest(Len(log), k, i) /\ Kept(i)'
  BY <1>1, <1>2, <1>4 DEF Latest
<1>6. CASE \A i \in Live(k) : Kept(i)'
  BY <1>2, <1>5, <1>6, Zenon DEF Live
<1>7. ASSUME NEW i \in Live(k), ~Kept(i)'
      PROVE  Live(k)' = {} /\ \A j \in Live(k) : log[j].at + Retention <= now'
  <2>1. Live(k) = {i} /\ i \in 1..Len(log)
    BY <1>1, LiveIsOne, Zenon DEF Live
  <2>2. Live(k)' = {}
    BY <1>2, <1>5, <1>7, <2>1, Zenon DEF Live
  <2>3. log[i].at + Retention <= now'
    BY <1>1, <1>2, <1>3, <1>7, <2>1 DEF Kept
  <2>. QED
    BY <2>1, <2>2, <2>3, Zenon
<1>. QED
  BY <1>6, <1>7, Zenon
=============================================================================
