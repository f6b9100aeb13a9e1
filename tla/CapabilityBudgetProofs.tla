----------------------- MODULE CapabilityBudgetProofs -----------------------
(***************************************************************************)
(* The capability ledger in a bucket implements the ledger under a mutex,  *)
(* and keeps its limit, for every set of callers, principals and tokens    *)
(* and every value of the bounds.                                          *)
(*                                                                         *)
(* The argument.  A value on its way to the bucket was computed from the   *)
(* entry at the revision it names, which never changes, at some moment     *)
(* that has passed, for a request a caller made (Made).  The compare-and-  *)
(* set makes that entry the ledger of the moment, so the write is one      *)
(* operation on it.  No operation exceeds the limit, and every slot ends   *)
(* within a lifetime of the write, so retention drops expired slots only.  *)
(*                                                                         *)
(* The second part is the service that uses the ledger and the lease table *)
(* through what they promise: a capability a client can still use has a    *)
(* slot of its own.  It rests on the same facts about slots.               *)
(***************************************************************************)
EXTENDS CapabilityBudget, Primitives, KVBucketProofs, FiniteSetTheorems

(***************************************************************************)
(* Slots                                                                   *)
(***************************************************************************)

\* The slots v respect the limit, and a token has one slot.
Bounded(v) ==
  /\ IsFiniteSet(v)
  /\ Cardinality(v) <= Limit
  /\ \A s, r \in v : s.token = r.token => s = r

\* The slots v end by time t.
EndBy(v, t) == \A s \in v : s.expires <= t /\ s.lease <= t

\* A part of a bounded set of slots is bounded.
LEMMA PartIsBounded ==
  ASSUME NEW v, Bounded(v), NEW w \in SUBSET v
  PROVE  Bounded(w) /\ Cardinality(w) <= Cardinality(v)
<1>1. IsFiniteSet(w) /\ Cardinality(w) <= Cardinality(v)
  BY FS_Subset, Zenon DEF Bounded
<1>2. Cardinality(w) \in Nat /\ Cardinality(v) \in Nat /\ Limit \in Nat
  BY <1>1, FS_CardinalityType, SlotAssumption, Zenon DEF Bounded
<1>. QED
  BY <1>1, <1>2 DEF Bounded

\* Adding a slot of a new token to fewer slots than the limit keeps it.
LEMMA OneMoreIsBounded ==
  ASSUME NEW v, Bounded(v), Cardinality(v) < Limit, NEW x,
         \A s \in v : s.token # x.token
  PROVE  Bounded(v \cup {x})
<1>1. Cardinality(v) \in Nat /\ Limit \in Nat
  BY FS_CardinalityType, SlotAssumption, Zenon DEF Bounded
<1>2. IsFiniteSet(v \cup {x}) /\ Cardinality(v \cup {x}) <= Cardinality(v) + 1
  <2>1. IsFiniteSet(v)
    BY Zenon DEF Bounded
  <2>2. /\ IsFiniteSet(v \cup {x})
        /\ Cardinality(v \cup {x}) = Cardinality(v) \/ Cardinality(v \cup {x}) = Cardinality(v) + 1
    BY <2>1, FS_AddElement, Zenon
  <2>. QED
    BY <1>1, <2>2
<1>3. Cardinality(v \cup {x}) \in Nat
  BY <1>2, FS_CardinalityType, Zenon
<1>. QED
  BY <1>1, <1>2, <1>3 DEF Bounded

\* Exchanging a slot for one of the same or of a new token keeps the limit.
LEMMA ExchangeIsBounded ==
  ASSUME NEW v, Bounded(v), NEW s \in v, NEW x,
         x.token = s.token \/ \A r \in v : r.token # x.token
  PROVE  Bounded((v \ {s}) \cup {x})
<1>1. Cardinality(v) \in Nat /\ Limit \in Nat
  BY FS_CardinalityType, SlotAssumption, Zenon DEF Bounded
<1>2. Cardinality(v \ {s}) = Cardinality(v) - 1
  BY FS_RemoveElement, Zenon DEF Bounded
<1>3. Bounded(v \ {s})
  BY PartIsBounded, Zenon
<1>4. Cardinality(v \ {s}) < Limit
  BY <1>1, <1>2 DEF Bounded
<1>5. \A r \in v \ {s} : r.token # x.token
  BY Zenon DEF Bounded
<1>. QED
  BY <1>3, <1>4, <1>5, OneMoreIsBounded, Zenon

\* The slots w end with those of v or with the expiry e.
EndWith(w, v, e) ==
  \A x \in w : \/ x \in v
               \/ x.expires <= e /\ x.lease <= e
               \/ \E y \in v : x.expires = y.lease /\ x.lease = y.lease

\* Each of the five operations of the budget keeps the limit, one slot for a
\* token, and the type of the slots; what it adds ends with the request or
\* with the slot it came from.
LEMMA ResultsAreBounded ==
  ASSUME NEW v \in SUBSET Slot, Bounded(v), NEW q \in BudgetRequest, NEW t \in Nat,
         NEW w \in Results(v, q, t)
  PROVE  w \in SUBSET Slot /\ Bounded(w) /\ EndWith(w, v, q.expires)
<1> DEFINE kept == Prune(v, t)
<1>1. kept \in SUBSET v /\ kept \in SUBSET Slot /\ Bounded(kept)
  BY PartIsBounded, Zenon DEF Prune
<1>2. q.token \in Token /\ q.next \in Token /\ q.expires \in Nat /\ q.op \in Op
  BY Zenon DEF BudgetRequest
<1>. HIDE DEF kept
<1>3. CASE q.op = "reserve"
  <2> DEFINE x == Pending(q.next, q.expires, t)
  <2>1. w = kept \cup {x} /\ Find(kept, q.next) = {} /\ Cardinality(kept) < Limit
    BY <1>3, Zenon DEF Results, ReserveSlot, kept
  <2>2. PendingTTL \in Nat
    BY SlotAssumption, Zenon
  <2>3. Earlier(t + PendingTTL, q.expires) \in Nat
        /\ Earlier(t + PendingTTL, q.expires) <= q.expires
    BY <1>2, <2>2 DEF Earlier
  <2>4. x \in Slot /\ x.token = q.next /\ x.expires <= q.expires /\ x.lease <= q.expires
    BY <1>2, <2>3 DEF Pending, Slot
  <2>5. \A s \in kept : s.token # x.token
    BY <2>1, <2>4, Zenon DEF Find
  <2>. HIDE DEF x
  <2>6. Bounded(w)
    BY <1>1, <2>1, <2>5, OneMoreIsBounded, Zenon
  <2>. QED
    BY <1>1, <2>1, <2>4, <2>6, Zenon DEF EndWith
<1>4. ASSUME NEW s \in kept, NEW token \in Token, NEW e \in Nat, e <= q.expires \/ \E y \in v : e = y.lease,
             s.token = token \/ \A r \in kept : r.token # token,
             w = (kept \ {s}) \cup {Active(token, e)}
      PROVE  w \in SUBSET Slot /\ Bounded(w) /\ EndWith(w, v, q.expires)
  <2> DEFINE x == Active(token, e)
  <2>1. x \in Slot /\ x.token = token /\ x.expires = e /\ x.lease = e
    BY Zenon DEF Active, Slot
  <2>2. w = (kept \ {s}) \cup {x}
    BY <1>4, Zenon
  <2>. HIDE DEF x
  <2>3. Bounded(w)
    BY <1>1, <1>4, <2>1, <2>2, ExchangeIsBounded
  <2>. QED
    BY <1>1, <1>4, <2>1, <2>2, <2>3, Zenon DEF EndWith
<1>5. CASE q.op = "commit"
  <2>1. PICK s \in Phase(kept, q.token, "pending") :
          w = (kept \ {s}) \cup {Active(q.token, s.lease)}
    BY <1>5, Zenon DEF Results, CommitSlot, kept
  <2>2. s \in kept /\ s.token = q.token
    BY Zenon DEF Phase, Find
  <2>3. s.lease \in Nat /\ s \in v
    BY <1>1, <2>2, Zenon DEF Slot
  <2>. QED
    BY <1>2, <1>4, <2>1, <2>2, <2>3, Zenon
<1>6. CASE q.op = "replace"
  <2>1. PICK s \in Phase(kept, q.token, "active") :
          /\ Find(kept, q.next) = {}
          /\ w = (kept \ {s}) \cup {Active(q.next, q.expires)}
    BY <1>6, Zenon DEF Results, ReplaceSlot, kept
  <2>2. s \in kept
    BY Zenon DEF Phase, Find
  <2>3. \A r \in kept : r.token # q.next
    BY <2>1, Zenon DEF Find
  <2>. QED
    BY <1>2, <1>4, <2>1, <2>2, <2>3
<1>7. CASE q.op \in {"cancel", "retire"}
  <2>1. w \in SUBSET kept
    BY <1>7, Zenon DEF Results, CancelSlot, RetireSlot, kept
  <2>. QED
    BY <1>1, <2>1, PartIsBounded, Zenon DEF EndWith
<1>. QED
  BY <1>2, <1>3, <1>5, <1>6, <1>7, Zenon DEF Op

\* The same, for slots that end by a time.
LEMMA ResultsAreSound ==
  ASSUME NEW v \in SUBSET Slot, Bounded(v), NEW q \in BudgetRequest, NEW t \in Nat,
         NEW w \in Results(v, q, t), NEW b \in Nat, EndBy(v, b), q.expires <= b
  PROVE  w \in SUBSET Slot /\ Bounded(w) /\ EndBy(w, b)
<1>1. w \in SUBSET Slot /\ Bounded(w) /\ EndWith(w, v, q.expires) /\ q.expires \in Nat
  BY ResultsAreBounded, Zenon DEF BudgetRequest
<1>2. \A x \in w : x.expires \in Nat /\ x.lease \in Nat
  BY <1>1, Zenon DEF Slot
<1>. QED
  BY <1>1, <1>2 DEF EndBy, EndWith

(***************************************************************************)
(* The inductive invariant                                                 *)
(***************************************************************************)

\* The slots a caller finds at revision i.
Base(i) == IF i = 0 THEN {} ELSE log[i].value

\* q is a request some caller could have made by now.
Legal(q) == q \in Ledger!Asked /\ q.expires <= now + MaxLifetime

\* The slots v were computed from the entry at i, for a legal request of
\* operation op, at some moment that has passed.
Made(op, i, v) ==
  /\ i \in 0..Len(log)
  /\ \E q, t : Legal(q) /\ q.op = op /\ t \in 0..now /\ v \in Results(Base(i), q, t)

LogInv ==
  \A i \in 1..Len(log) :
    /\ Bounded(log[i].value)
    /\ EndBy(log[i].value, log[i].at + MaxLifetime)
    /\ log[i].at <= now

CallInv ==
  \A p \in Proc : \A c \in call[p] :
    /\ Legal(c.request)
    /\ c.pc # "read" => Made(c.request.op, c.revision, c.value)

StrayInv == \A r \in stray : Made(r.op, r.expect, r.value)

IInv == TypeOK /\ LogInv /\ CallInv /\ StrayInv

(***************************************************************************)
(* What the bucket does                                                    *)
(***************************************************************************)

\* A slot's lifetime is shorter than the retention of the bucket.
LEMMA Lifetimes == MaxLifetime \in Nat /\ Retention \in Nat /\ MaxLifetime < Retention
  BY BudgetAssumption, BucketAssumption, Zenon

\* The requests callers make are budget requests.
LEMMA LegalIsRequest ==
  ASSUME NEW q, Legal(q)
  PROVE  q \in BudgetRequest
<1>1. \A e \in Expiry \cup {0} : e \in Nat
  <2>1. \A e \in Expiry : e \in Nat
    BY BudgetAssumption, Zenon
  <2>. QED
    BY <2>1
<1>2. q \in [op: Op, token: Token, next: Token, expires: Expiry \cup {0}]
  BY Zenon DEF Legal, Ledger!Asked, Ledger!Op, Op
<1>. QED
  BY <1>1, <1>2, Zenon DEF BudgetRequest

\* The fields of an entry.
LEMMA EntryFields ==
  ASSUME TypeOK, NEW i \in 1..Len(log)
  PROVE  log[i].at \in Nat /\ log[i].value \in SUBSET Slot
<1>1. log \in Seq(Entry(Op, SUBSET Slot))
  BY Zenon DEF TypeOK, BucketTypeOK
<1>2. log[i] \in Entry(Op, SUBSET Slot)
  BY <1>1
<1>. QED
  BY <1>2, Zenon DEF Entry

\* What is computed from an entry is bounded and ends within a lifetime.
LEMMA MadeIsSound ==
  ASSUME IInv, NEW op, NEW i, NEW v, Made(op, i, v)
  PROVE  v \in SUBSET Slot /\ Bounded(v) /\ EndBy(v, now + MaxLifetime)
<1>1. TypeOK /\ LogInv /\ now \in Nat /\ Len(log) \in Nat /\ MaxLifetime \in Nat
  <2>1. TypeOK /\ LogInv /\ BucketTypeOK(Op, SUBSET Slot)
    BY Zenon DEF IInv, TypeOK
  <2>2. now \in Nat /\ Len(log) \in Nat
    BY <2>1 DEF BucketTypeOK
  <2>. QED
    BY <2>1, <2>2, Lifetimes, Zenon
<1>2. PICK q, t : Legal(q) /\ t \in 0..now /\ v \in Results(Base(i), q, t)
  BY Zenon DEF Made
<1>3. q \in BudgetRequest /\ t \in Nat /\ q.expires <= now + MaxLifetime
  BY <1>1, <1>2, LegalIsRequest DEF Legal
<1>4. Base(i) \in SUBSET Slot /\ Bounded(Base(i)) /\ EndBy(Base(i), now + MaxLifetime)
  <2>1. CASE i = 0
    <3>1. Base(i) = {}
      BY <2>1, Zenon DEF Base
    <3>2. IsFiniteSet({}) /\ Cardinality({}) = 0
      BY FS_EmptySet, Zenon
    <3>. QED
      BY <3>1, <3>2, SlotAssumption DEF Bounded, EndBy
  <2>2. CASE i # 0
    <3>1. i \in 1..Len(log) /\ Base(i) = log[i].value
      BY <1>1, <2>2 DEF Made, Base
    <3>2. log[i].at \in Nat /\ log[i].value \in SUBSET Slot
      BY <1>1, <3>1, EntryFields, Zenon
    <3>3. Bounded(log[i].value) /\ EndBy(log[i].value, log[i].at + MaxLifetime)
          /\ log[i].at <= now
      BY <1>1, <3>1, Zenon DEF LogInv
    <3>4. ASSUME NEW s \in log[i].value
          PROVE  s.expires <= now + MaxLifetime /\ s.lease <= now + MaxLifetime
      <4>1. s.expires \in Nat /\ s.lease \in Nat
        BY <3>2, Zenon DEF Slot
      <4>2. s.expires <= log[i].at + MaxLifetime /\ s.lease <= log[i].at + MaxLifetime
        BY <3>3, Zenon DEF EndBy
      <4>. QED
        BY <1>1, <3>2, <3>3, <4>1, <4>2
    <3>. QED
      BY <3>1, <3>2, <3>3, <3>4, Zenon DEF EndBy
  <2>. QED
    BY <2>1, <2>2, Zenon
<1>5. now + MaxLifetime \in Nat
  BY <1>1
<1>. HIDE DEF Base
<1>. QED
  BY <1>2, <1>3, <1>4, <1>5, ResultsAreSound, Zenon

\* r is a write some caller sent, and perhaps gave up on.
Sent(r) ==
  \/ r \in stray
  \/ \E p \in Proc : \E c \in call[p] : c.pc = "write" /\ r = Write(c)

\* A write that was sent is a request, and was computed from what it replaces.
LEMMA SentIsMade ==
  ASSUME IInv, NEW r, Sent(r)
  PROVE  r \in Request(Op, SUBSET Slot) /\ Made(r.op, r.expect, r.value)
<1>1. TypeOK
  BY Zenon DEF IInv
<1>2. CASE r \in stray
  BY <1>1, <1>2, Zenon DEF TypeOK, BucketTypeOK, IInv, StrayInv
<1>3. ASSUME NEW p \in Proc, NEW c \in call[p], c.pc = "write", r = Write(c)
      PROVE  r \in Request(Op, SUBSET Slot) /\ Made(r.op, r.expect, r.value)
  <2>1. c \in Call /\ Made(c.request.op, c.revision, c.value)
    BY <1>1, <1>3, Zenon DEF TypeOK, IInv, CallInv
  <2>2. c.request.op \in Op /\ c.key \in Key /\ c.revision \in Nat /\ c.value \in SUBSET Slot
    BY <2>1, Zenon DEF Call, BudgetRequest
  <2>. QED
    BY <1>3, <2>1, <2>2, Zenon DEF Write, Request
<1>. QED
  BY <1>2, <1>3, Zenon DEF Sent

\* The bucket changes only when it accepts a write that was sent, or when the
\* clock moves; every stray write was sent.
LEMMA BucketSteps ==
  ASSUME [Next]_vars
  PROVE  /\ \/ UNCHANGED <<log, now>>
            \/ Tick
            \/ \E r : Sent(r) /\ Accept(r)
         /\ \A s \in stray' : Sent(s)
<1> DEFINE Quiet == UNCHANGED <<log, now>> /\ \A s \in stray' : Sent(s)
           Writes == \E r : Sent(r) /\ Accept(r)
<1>1. Writes => \A s \in stray' : Sent(s)
  BY Zenon DEF Accept, Sent
<1>2. CASE UNCHANGED bucketVars
  BY <1>2, Zenon DEF bucketVars, Sent
<1>3. ASSUME NEW r, Sent(r), Accept(r) \/ Refuse(r) \/ Ambiguous(r)
      PROVE  Quiet \/ Writes
  <2>1. CASE Accept(r)
    BY <1>3, <2>1, Zenon
  <2>2. CASE UNCHANGED <<log, now>> /\ stray' \in SUBSET (stray \cup {r})
    BY <1>3, <2>2, Zenon DEF Sent
  <2>. QED
    BY <1>3, <2>1, <2>2, Zenon DEF Refuse, Ambiguous, bucketVars
<1>4. ASSUME NEW p \in Proc, NEW c \in call[p], WriteBack(p, c)  PROVE Quiet \/ Writes
  <2>1. Sent(Write(c))
    BY <1>4, Zenon DEF Sent, WriteBack
  <2>2. Accept(Write(c)) \/ Refuse(Write(c)) \/ Ambiguous(Write(c))
    BY <1>4, Zenon DEF WriteBack
  <2>. HIDE DEF Quiet, Writes
  <2>. QED
    BY <1>3, <2>1, <2>2, Zenon
<1>5. CASE BucketNext
  <2>1. CASE Tick
    <3>1. stray' = stray
      BY <2>1, Zenon DEF Tick
    <3>. QED
      BY <2>1, <3>1, Zenon DEF Sent
  <2>2. CASE ServeStray
    <3>1. PICK r \in stray : Accept(r)
      BY <2>2, Zenon DEF ServeStray
    <3>2. Sent(r)
      BY Zenon DEF Sent
    <3>. QED
      BY <1>1, <3>1, <3>2, Zenon
  <2>. QED
    BY <1>5, <2>1, <2>2, Zenon DEF BucketNext
<1>6. ASSUME NEW p \in Proc, Caller(p)  PROVE UNCHANGED bucketVars \/ Quiet \/ Writes
  <2>1. UNCHANGED bucketVars \/ \E c \in call[p] : WriteBack(p, c)
    BY <1>6, Zenon DEF Caller, Reserve, Replace, Settle, Start, Read, Reconcile
  <2>. HIDE DEF Quiet, Writes
  <2>. QED
    BY <1>4, <2>1, Zenon
<1>7. UNCHANGED vars => UNCHANGED bucketVars
  BY Zenon DEF vars
<1>. QED
  BY <1>1, <1>2, <1>5, <1>6, <1>7, Zenon DEF Next

\* Sets have the same size in the bucket's module and in the ledger's.
LEMMA SameCardinality == \A S : Ledger!Cardinality(S) = Cardinality(S)
  BY Zenon DEF Ledger!Cardinality, Cardinality, Ledger!IsFiniteSet, IsFiniteSet

\* The bucket and the ledger compute the same slots.
LEMMA SameResults ==
  ASSUME NEW v, NEW q, NEW t
  PROVE  Ledger!Results(v, q, t) = Results(v, q, t)
  BY SameCardinality, Zenon DEF Ledger!Results, Ledger!ReserveSlot, Ledger!CommitSlot,
     Ledger!CancelSlot,
         Ledger!ReplaceSlot, Ledger!RetireSlot, Ledger!Prune, Ledger!Find, Ledger!Phase,
         Ledger!Pending, Ledger!Active, Ledger!Earlier,
         Results, ReserveSlot, CommitSlot, CancelSlot, ReplaceSlot, RetireSlot,
         Prune, Find, Phase, Pending, Active, Earlier

(***************************************************************************)
(* Every step keeps the invariant                                          *)
(***************************************************************************)

\* The log keeps its entries and time passes.
Grows ==
  /\ Len(log) \in Nat /\ Len(log') \in Nat /\ Len(log) <= Len(log')
  /\ \A i \in 1..Len(log) : log'[i] = log[i]
  /\ now \in Nat /\ now' \in Nat /\ now <= now'

\* A request stays legal, and what was computed from an entry stays computed
\* from it, while the log grows.
LEMMA GrowthKeepsMade ==
  ASSUME Grows
  PROVE  /\ \A q : Legal(q) => Legal(q)'
         /\ \A op, i, v : Made(op, i, v) => Made(op, i, v)'
<1>1. ASSUME NEW q, Legal(q)  PROVE Legal(q)'
  <2>1. q.expires \in Nat /\ MaxLifetime \in Nat
    BY <1>1, LegalIsRequest, Lifetimes DEF BudgetRequest
  <2>2. q.expires <= now' + MaxLifetime
    BY <1>1, <2>1 DEF Legal, Grows
  <2>3. q \in Ledger!Asked
    BY <1>1, Zenon DEF Legal
  <2>. QED
    BY <2>2, <2>3, Zenon DEF Legal, Ledger!Asked
<1>2. ASSUME NEW op, NEW i, NEW v, Made(op, i, v)  PROVE Made(op, i, v)'
  <2>1. PICK q, t : Legal(q) /\ q.op = op /\ t \in 0..now /\ v \in Results(Base(i), q, t)
    BY <1>2, Zenon DEF Made
  <2>2. i \in 0..Len(log') /\ Base(i)' = Base(i)
    BY <1>2 DEF Made, Base, Grows
  <2>3. t \in 0..now'
    BY <2>1 DEF Grows
  <2>4. Legal(q)'
    BY <1>1, <2>1, Zenon
  <2>5. Results(Base(i), q, t)' = Results(Base(i)', q, t)
    BY Zenon DEF Results, ReserveSlot, CommitSlot, CancelSlot, ReplaceSlot, RetireSlot,
           Prune, Find, Phase, Pending, Active, Earlier
  <2>. QED
    BY <2>1, <2>2, <2>3, <2>4, <2>5, Zenon DEF Made
<1>. QED
  BY <1>1, <1>2, Zenon

\* Every step lets the log grow by sound entries only.
LEMMA StepGrows ==
  ASSUME IInv, [Next]_vars
  PROVE  Grows /\ BucketTypeOK(Op, SUBSET Slot)' /\ LogInv' /\ StrayInv'
<1>1. TypeOK /\ LogInv /\ BucketTypeOK(Op, SUBSET Slot)
  BY Zenon DEF IInv, TypeOK
<1>2. /\ now \in Nat /\ Len(log) \in Nat /\ log \in Seq(Entry(Op, SUBSET Slot))
      /\ \A s \in stray' : s \in Request(Op, SUBSET Slot) /\ Made(s.op, s.expect, s.value)
  <2>1. now \in Nat /\ Len(log) \in Nat /\ log \in Seq(Entry(Op, SUBSET Slot))
    BY <1>1 DEF BucketTypeOK
  <2>2. \A s \in stray' : Sent(s)
    BY BucketSteps, Zenon
  <2>. QED
    BY <2>1, <2>2, SentIsMade, Zenon
<1>3. ASSUME UNCHANGED log, now' \in Nat, now <= now'
      PROVE  Grows /\ BucketTypeOK(Op, SUBSET Slot)' /\ LogInv'
  <2>1. Grows
    BY <1>2, <1>3 DEF Grows
  <2>2. BucketTypeOK(Op, SUBSET Slot)'
    BY <1>2, <1>3, Zenon DEF BucketTypeOK, Request
  <2>3. \A i \in 1..Len(log) : log[i].at \in Nat
    BY <1>1, EntryFields, Zenon
  <2>4. LogInv'
    BY <1>1, <1>2, <1>3, <2>3 DEF LogInv, Bounded, EndBy
  <2>. QED
    BY <2>1, <2>2, <2>4, Zenon
<1>4. ASSUME NEW r, Sent(r), Accept(r)
      PROVE  Grows /\ BucketTypeOK(Op, SUBSET Slot)' /\ LogInv'
  <2>1. r \in Request(Op, SUBSET Slot) /\ Made(r.op, r.expect, r.value)
    BY <1>4, SentIsMade, Zenon
  <2>2. /\ BucketTypeOK(Op, SUBSET Slot)'
        /\ Len(log') = Len(log) + 1
        /\ \A i \in 1..Len(log) : log'[i] = log[i]
        /\ log'[Len(log) + 1] = [op |-> r.op, key |-> r.key, expect |-> r.expect,
                                 value |-> r.value, at |-> now]
        /\ now' = now
    BY <1>1, <1>4, <2>1, AcceptAppends, Zenon
  <2>3. Bounded(r.value) /\ EndBy(r.value, now + MaxLifetime)
    BY <2>1, MadeIsSound, Zenon
  <2>4. Grows
    BY <1>2, <2>2 DEF Grows
  <2>5. \A i \in 1..Len(log') : i \in 1..Len(log) \/ i = Len(log) + 1
    BY <1>2, <2>2
  <2>6. LogInv'
    <3> SUFFICES ASSUME NEW i \in 1..Len(log')
                 PROVE  /\ Bounded(log'[i].value)
                        /\ EndBy(log'[i].value, log'[i].at + MaxLifetime)
                        /\ log'[i].at <= now'
      BY Zenon DEF LogInv, Bounded, EndBy
    <3>1. CASE i \in 1..Len(log)
      BY <1>1, <2>2, <3>1, Zenon DEF LogInv
    <3>2. CASE i = Len(log) + 1
      BY <1>2, <2>2, <2>3, <3>2
    <3>. QED
      BY <2>5, <3>1, <3>2, Zenon
  <2>. QED
    BY <2>2, <2>4, <2>6, Zenon
<1>5. Grows /\ BucketTypeOK(Op, SUBSET Slot)' /\ LogInv'
  <2>1. UNCHANGED <<log, now>> => UNCHANGED log /\ now' \in Nat /\ now <= now'
    BY <1>2
  <2>2. Tick => UNCHANGED log /\ now' \in Nat /\ now <= now'
    BY <1>2 DEF Tick
  <2>. QED
    BY <1>3, <1>4, <2>1, <2>2, BucketSteps, Zenon
<1>6. StrayInv'
  BY <1>2, <1>5, GrowthKeepsMade, Zenon DEF StrayInv
<1>. QED
  BY <1>5, <1>6, Zenon

\* d is the call c further on.
Follows(c, d) ==
  /\ d.request = c.request /\ d.revision = c.revision /\ d.value = c.value
  /\ d.pc # "read" => c.pc # "read"

\* What a step leaves of the calls is old, goes on from an old one, or is as
\* the invariant asks.
LEMMA CallSteps ==
  ASSUME IInv, [Next]_vars
  PROVE  /\ TypeOK'
         /\ \A p \in Proc : \A d \in call'[p] :
              \/ \E c \in call[p] : Follows(c, d)
              \/ /\ UNCHANGED <<log, now>>
                 /\ Legal(d.request)
                 /\ d.pc # "read" => Made(d.request.op, d.revision, d.value)
<1> DEFINE Old(p, d) == \E c \in call[p] : Follows(c, d)
           New(d) == /\ UNCHANGED <<log, now>>
                     /\ Legal(d.request)
                     /\ d.pc # "read" => Made(d.request.op, d.revision, d.value)
           Calls == /\ call' \in [Proc -> SUBSET Call]
                    /\ fresh' \in SUBSET Token
                    /\ done' \in SUBSET [key: Key, request: BudgetRequest]
                    /\ \A p \in Proc : \A d \in call'[p] : Old(p, d) \/ New(d)
<1>1. /\ call \in [Proc -> SUBSET Call] /\ fresh \in SUBSET Token
      /\ done \in SUBSET [key: Key, request: BudgetRequest]
  BY Zenon DEF IInv, TypeOK
<1>2. \A p \in Proc : \A d \in call[p] : Old(p, d)
  BY Zenon DEF Follows
<1>3. ASSUME UNCHANGED <<call, fresh, done>>  PROVE Calls
  BY <1>1, <1>2, <1>3, Zenon
<1>4. ASSUME NEW p \in Proc, NEW d \in Call, call' = [call EXCEPT ![p] = {d}],
             fresh' \in SUBSET Token, UNCHANGED done, Old(p, d) \/ New(d)
      PROVE  Calls
  <2>1. call' \in [Proc -> SUBSET Call]
    BY <1>1, <1>4, Zenon
  <2>2. \A q \in Proc : \A x \in call'[q] : x \in call[q] \/ (q = p /\ x = d)
    BY <1>1, <1>4, Zenon
  <2>. HIDE DEF Old, New
  <2>. QED
    BY <1>1, <1>2, <1>4, <2>1, <2>2, Zenon
<1>5. ASSUME NEW p \in Proc, Fail(p)  PROVE Calls
  <2>1. call' = [call EXCEPT ![p] = {}] /\ UNCHANGED <<fresh, done>>
    BY <1>5, Zenon DEF Fail
  <2>2. call' \in [Proc -> SUBSET Call] /\ \A q \in Proc : \A x \in call'[q] : x \in call[q]
    BY <1>1, <2>1, Zenon
  <2>. HIDE DEF Old, New
  <2>. QED
    BY <1>1, <1>2, <2>1, <2>2, Zenon
<1>6. ASSUME NEW p \in Proc, NEW c \in call[p], Succeed(p, c)  PROVE Calls
  <2>1. c \in Call
    BY <1>1, Zenon
  <2>2. c.key \in Key /\ c.request \in BudgetRequest
    BY <2>1, Zenon DEF Call
  <2>3. /\ call' = [call EXCEPT ![p] = {}] /\ UNCHANGED fresh
        /\ done' = done \cup {[key |-> c.key, request |-> c.request]}
    BY <1>6, Zenon DEF Succeed
  <2>4. call' \in [Proc -> SUBSET Call] /\ \A q \in Proc : \A x \in call'[q] : x \in call[q]
    BY <1>1, <2>3, Zenon
  <2>5. done' \in SUBSET [key: Key, request: BudgetRequest]
    BY <1>1, <2>2, <2>3
  <2>. HIDE DEF Old, New
  <2>. QED
    BY <1>1, <1>2, <2>3, <2>4, <2>5, Zenon
<1>7. ASSUME NEW p \in Proc, NEW k \in Key, NEW q, Legal(q), Start(p, k, q),
             fresh' \in SUBSET Token
      PROVE  Calls
  <2> DEFINE d == [pc |-> "read", key |-> k, request |-> q, revision |-> 0, value |-> {}]
  <2>1. q \in BudgetRequest
    BY <1>7, LegalIsRequest, Zenon
  <2>2. d \in Call
    BY <2>1, Zenon DEF Call
  <2>3. d.pc = "read" /\ d.request = q
    BY Zenon
  <2>4. call' = [call EXCEPT ![p] = {d}] /\ UNCHANGED <<log, now, done>>
    BY <1>7, Zenon DEF Start, bucketVars
  <2>. HIDE DEF d
  <2>5. New(d)
    BY <1>7, <2>3, <2>4, Zenon
  <2>. HIDE DEF New, Old, Calls
  <2>. QED
    BY <1>4, <1>7, <2>2, <2>4, <2>5, Zenon
<1>8. ASSUME NEW p \in Proc, NEW k \in Key, NEW e \in Expiry, ValidExpiry(e),
             NEW op \in {"reserve", "replace"}, NEW o \in Token, NEW t \in Token
      PROVE  Legal([op |-> op, token |-> o, next |-> t, expires |-> e])
  BY <1>8, Zenon DEF Legal, Ledger!Asked, Ledger!Op, ValidExpiry
<1>9. ASSUME NEW op \in {"commit", "cancel", "retire"}, NEW t \in Token
      PROVE  Legal([op |-> op, token |-> t, next |-> t, expires |-> 0])
  <2>1. 0 <= now + MaxLifetime
    BY Lifetimes DEF IInv, TypeOK, BucketTypeOK
  <2>. QED
    BY <2>1, Zenon DEF Legal, Ledger!Asked, Ledger!Op
<1>10. ASSUME NEW p \in Proc, NEW c \in call[p], Read(p, c)  PROVE Calls
  <2>1. c \in Call /\ Legal(c.request) /\ UNCHANGED <<log, now>>
    BY <1>1, <1>10, Zenon DEF Read, bucketVars, IInv, CallInv
  <2>2. ASSUME NEW r \in 0..Len(log), NEW w,
               w \in Results(Base(r), c.request, now),
               Continue(p, [c EXCEPT !.pc = "write", !.revision = r, !.value = w])
        PROVE  Calls
    <3> DEFINE d == [c EXCEPT !.pc = "write", !.revision = r, !.value = w]
    <3>1. now \in 0..now /\ r \in Nat
      BY DEF IInv, TypeOK, BucketTypeOK
    <3>2. Made(c.request.op, r, w)
      BY <2>1, <2>2, <3>1, Zenon DEF Made
    <3>3. w \in SUBSET Slot
      BY <3>2, MadeIsSound, Zenon
    <3>4. d \in Call /\ d.request = c.request /\ d.revision = r /\ d.value = w
      BY <2>1, <3>1, <3>3, Zenon DEF Call
    <3>5. call' = [call EXCEPT ![p] = {d}] /\ UNCHANGED <<fresh, done>>
      BY <2>2, Zenon DEF Continue
    <3>. HIDE DEF d
    <3>6. New(d)
      BY <2>1, <3>2, <3>4, Zenon
    <3>. HIDE DEF New, Old, Calls
    <3>. QED
      BY <1>1, <1>4, <3>4, <3>5, <3>6, Zenon
  <2>3. ASSUME NEW r \in 0..Len(log), ReadEntry(p, c, r)  PROVE Calls
    <3>1. \/ Fail(p)
          \/ \E w \in Results(Base(r), c.request, now) :
               Continue(p, [c EXCEPT !.pc = "write", !.revision = r, !.value = w])
      BY <2>3, Zenon DEF ReadEntry, Base
    <3>. HIDE DEF Calls
    <3>. QED
      BY <1>5, <2>2, <3>1, Zenon
  <2>. HIDE DEF Calls
  <2>. QED
    BY <1>5, <1>10, <2>3, Zenon DEF Read
<1>11. ASSUME NEW p \in Proc, NEW c \in call[p], WriteBack(p, c)  PROVE Calls
  <2>1. CASE Succeed(p, c)
    BY <1>6, <2>1, Zenon
  <2>2. CASE Continue(p, [c EXCEPT !.pc = "reconcile"])
    <3> DEFINE d == [c EXCEPT !.pc = "reconcile"]
    <3>1. c \in Call /\ c.pc = "write"
      BY <1>1, <1>11, Zenon DEF WriteBack
    <3>2. d \in Call /\ Follows(c, d)
      BY <3>1, Zenon DEF Call, Follows
    <3>3. call' = [call EXCEPT ![p] = {d}] /\ UNCHANGED <<fresh, done>>
      BY <2>2, Zenon DEF Continue
    <3>. HIDE DEF d
    <3>4. Old(p, d)
      BY <3>2, Zenon
    <3>. HIDE DEF New, Old, Calls
    <3>. QED
      BY <1>1, <1>4, <3>2, <3>3, <3>4, Zenon
  <2>. QED
    BY <1>11, <2>1, <2>2, Zenon DEF WriteBack
<1>12. ASSUME NEW p \in Proc, Caller(p)  PROVE Calls
  <2>1. ASSUME NEW k \in Key, NEW t \in fresh, NEW e \in Expiry, Reserve(p, k, t, e)
        PROVE  Calls
    <3>1. t \in Token /\ fresh' \in SUBSET Token /\ ValidExpiry(e)
          /\ Start(p, k, [op |-> "reserve", token |-> t, next |-> t, expires |-> e])
      BY <1>1, <2>1, Zenon DEF Reserve
    <3>. HIDE DEF Calls
    <3>. QED
      BY <1>7, <1>8, <3>1, Zenon
  <2>2. ASSUME NEW k \in Key, NEW o \in Token \ fresh, NEW t \in fresh, NEW e \in Expiry,
               Replace(p, k, o, t, e)
        PROVE  Calls
    <3>1. t \in Token /\ fresh' \in SUBSET Token /\ ValidExpiry(e)
          /\ Start(p, k, [op |-> "replace", token |-> o, next |-> t, expires |-> e])
      BY <1>1, <2>2, Zenon DEF Replace
    <3>. HIDE DEF Calls
    <3>. QED
      BY <1>7, <1>8, <3>1, Zenon
  <2>3. ASSUME NEW op \in {"commit", "cancel", "retire"}, NEW k \in Key,
               NEW t \in Token \ fresh, Settle(p, op, k, t)
        PROVE  Calls
    <3>1. fresh' \in SUBSET Token
          /\ Start(p, k, [op |-> op, token |-> t, next |-> t, expires |-> 0])
      BY <1>1, <2>3, Zenon DEF Settle
    <3>. HIDE DEF Calls
    <3>. QED
      BY <1>7, <1>9, <3>1, Zenon
  <2>4. ASSUME NEW c \in call[p], Reconcile(p, c)  PROVE Calls
    <3>1. Fail(p) \/ Succeed(p, c)
      BY <2>4, Zenon DEF Reconcile
    <3>. HIDE DEF Calls
    <3>. QED
      BY <1>5, <1>6, <3>1, Zenon
  <2>. HIDE DEF Calls
  <2>. QED
    BY <1>10, <1>11, <1>12, <2>1, <2>2, <2>3, <2>4, Zenon DEF Caller
<1>13. Calls
  <2>1. UNCHANGED vars => UNCHANGED <<call, fresh, done>>
    BY Zenon DEF vars
  <2>. HIDE DEF Calls
  <2>. QED
    BY <1>3, <1>12, <2>1, Zenon DEF Next
<1>14. TypeOK'
  BY <1>13, StepGrows, Zenon DEF TypeOK
<1>. QED
  BY <1>13, <1>14, Zenon

\* Every step keeps the invariant.
LEMMA NextKeeps == IInv /\ [Next]_vars => IInv'
<1> SUFFICES ASSUME IInv, [Next]_vars  PROVE IInv'
  BY Zenon
<1>1. Grows /\ LogInv' /\ StrayInv' /\ TypeOK'
  BY StepGrows, CallSteps, Zenon
<1>2. ASSUME NEW p \in Proc, NEW d \in call'[p]
      PROVE  Legal(d.request)' /\ (d.pc # "read" => Made(d.request.op, d.revision, d.value)')
  <2>1. ASSUME NEW c \in call[p], Follows(c, d)
        PROVE  Legal(d.request) /\ (d.pc # "read" => Made(d.request.op, d.revision, d.value))
    <3>1. Legal(c.request) /\ (c.pc # "read" => Made(c.request.op, c.revision, c.value))
      BY Zenon DEF IInv, CallInv
    <3>. QED
      BY <2>1, <3>1, Zenon DEF Follows
  <2>2. Legal(d.request) /\ (d.pc # "read" => Made(d.request.op, d.revision, d.value))
    BY <2>1, CallSteps, Zenon
  <2>3. d.pc # "read" => Made(d.request.op, d.revision, d.value)'
    BY <1>1, <2>2, GrowthKeepsMade, Zenon
  <2>. QED
    BY <1>1, <2>2, <2>3, GrowthKeepsMade, Zenon
<1>3. CallInv'
  BY <1>2, Zenon DEF CallInv
<1>. QED
  BY <1>1, <1>3, Zenon DEF IInv

\* The invariant holds of an empty bucket with idle callers.
LEMMA InitEstablishes == Init => IInv
<1> SUFFICES ASSUME Init  PROVE IInv
  BY Zenon
<1>1. log = << >> /\ stray = {} /\ now = 0 /\ done = {} /\ fresh = Token
      /\ call = [p \in Proc |-> {}]
  BY Zenon DEF Init, BucketInit
<1>2. 1..Len(log) = {}
  BY <1>1
<1>3. TypeOK
  BY <1>1 DEF TypeOK, BucketTypeOK
<1>4. LogInv
  BY <1>2, Zenon DEF LogInv
<1>5. CallInv /\ StrayInv
  BY <1>1, Zenon DEF CallInv, StrayInv
<1>. QED
  BY <1>3, <1>4, <1>5, Zenon DEF IInv

(***************************************************************************)
(* The refinement                                                          *)
(***************************************************************************)

\* The ledger of a principal is its live entry.
LEMMA LedgerIsLive ==
  ASSUME NEW k
  PROVE  LedgerOf(k) = UNION {log[i].value : i \in Live(k)}
  BY Zenon DEF LedgerOf, Live

\* The entry a compare-and-set matches is the ledger of the moment.
LEMMA MatchedIsLedger ==
  ASSUME TypeOK, NEW r \in Request(Op, SUBSET Slot), Matches(r)
  PROVE  LedgerOf(r.key) = Base(r.expect)
<1>1. Len(log) \in Nat
  BY DEF TypeOK, BucketTypeOK
<1>2. /\ r.expect = 0 => Live(r.key) = {}
      /\ r.expect # 0 => r.expect \in 1..Len(log) /\ Live(r.key) = {r.expect}
  BY <1>1, MatchedIsLive, Zenon
<1>3. LedgerOf(r.key) = UNION {log[i].value : i \in Live(r.key)}
  BY LedgerIsLive, Zenon
<1>4. CASE r.expect = 0
  BY <1>2, <1>3, <1>4, Zenon DEF Base
<1>5. CASE r.expect # 0
  <2>1. {log[i].value : i \in Live(r.key)} = {log[r.expect].value}
    BY <1>2, <1>5, Zenon
  <2>. QED
    BY <1>3, <1>5, <2>1, Zenon DEF Base
<1>. QED
  BY <1>4, <1>5, Zenon

\* An accepted write is one operation on the ledger of its principal.
LEMMA AcceptIsMutation ==
  ASSUME IInv, NEW r, Sent(r), Accept(r)
  PROVE  \E k \in Key, q \in Ledger!Asked, t \in 0..now : Ledger!Mutate(k, q, t)
<1>1. TypeOK /\ BucketTypeOK(Op, SUBSET Slot)
  BY Zenon DEF IInv, TypeOK
<1>2. r \in Request(Op, SUBSET Slot) /\ Made(r.op, r.expect, r.value)
  BY SentIsMade, Zenon
<1>3. /\ Live(r.key)' = {Len(log) + 1}
      /\ \A k \in Key : k # r.key => Live(k)' = Live(k)
  BY <1>1, <1>2, AcceptIsLive, Zenon
<1>4. /\ \A i \in 1..Len(log) : log'[i] = log[i]
      /\ log'[Len(log) + 1].value = r.value
      /\ now' = now
  <2>1. /\ \A i \in 1..Len(log) : log'[i] = log[i]
        /\ log'[Len(log) + 1] = [op |-> r.op, key |-> r.key, expect |-> r.expect,
                                 value |-> r.value, at |-> now]
        /\ now' = now
    BY <1>1, <1>2, AcceptAppends, Zenon
  <2>. QED
    BY <2>1
<1>5. \A k : LedgerOf(k)' = UNION {log'[i].value : i \in Live(k)'}
  BY Zenon DEF LedgerOf, Live
<1>6. LedgerOf(r.key)' = r.value
  <2>1. {log'[i].value : i \in Live(r.key)'} = {r.value}
    BY <1>3, <1>4, Zenon
  <2>. QED
    BY <1>5, <2>1, Zenon
<1>7. ASSUME NEW k \in Key, k # r.key  PROVE LedgerOf(k)' = LedgerOf(k)
  <2>1. \A i \in Live(k) : log'[i] = log[i]
    BY <1>4, Zenon DEF Live
  <2>2. {log'[i].value : i \in Live(k)'} = {log[i].value : i \in Live(k)}
    BY <1>3, <1>7, <2>1, Zenon
  <2>. QED
    BY <1>5, <2>2, LedgerIsLive, Zenon
<1>8. PICK q, t : Legal(q) /\ t \in 0..now /\ r.value \in Results(Base(r.expect), q, t)
  BY <1>2, Zenon DEF Made
<1>9. LedgerOf(r.key) = Base(r.expect)
  BY <1>1, <1>2, MatchedIsLedger, Zenon DEF Accept
<1>10. r.value \in Ledger!Results(LedgerOf(r.key), q, t)
  BY <1>8, <1>9, SameResults, Zenon
<1>11. r.key \in Key /\ q \in Ledger!Asked
  BY <1>2, <1>8, Zenon DEF Request, Legal
<1> DEFINE T == [k \in Key |-> LedgerOf(k)]
           U == [k \in Key |-> LedgerOf(k)']
<1>12. U = [T EXCEPT ![r.key] = r.value]
  BY <1>6, <1>7, <1>11, Zenon
<1>13. T[r.key] = LedgerOf(r.key)
  BY <1>11, Zenon
<1>14. Ledger!Mutate(r.key, q, t)
  BY <1>4, <1>10, <1>12, <1>13, Zenon DEF Ledger!Mutate
<1>. QED
  BY <1>8, <1>11, <1>14, Zenon

\* When the clock moves a ledger stays, or is dropped with all its slots
\* expired.
LEMMA TickIsPruning ==
  ASSUME IInv, Tick
  PROVE  Ledger!PruneLedger
<1>1. TypeOK /\ BucketTypeOK(Op, SUBSET Slot) /\ LogInv
  BY Zenon DEF IInv, TypeOK
<1>2. log' = log /\ now' = now + 1 /\ now \in Nat
  BY <1>1, Zenon DEF Tick, BucketTypeOK
<1>3. ASSUME NEW k \in Key
      PROVE  LedgerOf(k)' \in {LedgerOf(k), Ledger!Prune(LedgerOf(k), now')}
  <2>1. LedgerOf(k)' = UNION {log[i].value : i \in Live(k)'}
    BY <1>2, Zenon DEF LedgerOf, Live
  <2>2. LedgerOf(k) = UNION {log[i].value : i \in Live(k)}
    BY LedgerIsLive, Zenon
  <2>3. CASE Live(k)' = Live(k)
    BY <2>1, <2>2, <2>3, Zenon
  <2>4. CASE Live(k)' = {} /\ \A i \in Live(k) : log[i].at + Retention <= now'
    <3>1. ASSUME NEW i \in Live(k), NEW s \in log[i].value  PROVE ~(s.expires > now')
      <4>1. i \in 1..Len(log)
        BY Zenon DEF Live
      <4>2. log[i].at \in Nat /\ s.expires \in Nat
        BY <1>1, <4>1, EntryFields, Zenon DEF Slot
      <4>3. s.expires <= log[i].at + MaxLifetime
        BY <1>1, <4>1, Zenon DEF LogInv, EndBy
      <4>. QED
        BY <1>2, <2>4, <4>2, <4>3, Lifetimes
    <3>2. Ledger!Prune(LedgerOf(k), now') = {}
      BY <2>2, <3>1, Zenon DEF Ledger!Prune
    <3>3. LedgerOf(k)' = {}
      BY <2>1, <2>4, Zenon
    <3>. QED
      BY <3>2, <3>3, Zenon
  <2>. QED
    BY <1>1, <2>3, <2>4, TickDropsOld, Zenon
<1>. QED
  BY <1>2, <1>3, Zenon DEF Ledger!PruneLedger

\* Every step of the bucket is a step of the ledger or leaves it alone.
LEMMA StepRefines ==
  ASSUME IInv, [Next]_vars
  PROVE  [Ledger!Next]_Ledger!vars
<1>1. CASE UNCHANGED <<log, now>>
  <2>1. \A k \in Key : LedgerOf(k)' = LedgerOf(k)
    BY <1>1 DEF LedgerOf, Latest, Kept
  <2>. QED
    BY <1>1, <2>1, Zenon DEF Ledger!vars
<1>2. CASE Tick
  BY <1>2, TickIsPruning, Zenon DEF Ledger!Next
<1>3. ASSUME NEW r, Sent(r), Accept(r)  PROVE [Ledger!Next]_Ledger!vars
  BY <1>3, AcceptIsMutation, Zenon DEF Ledger!Next
<1>. QED
  BY <1>1, <1>2, <1>3, BucketSteps, Zenon

\* The ledgers of the bucket are within the limit.
LEMMA LedgersAreBounded == IInv => LimitHolds
<1> SUFFICES ASSUME IInv, NEW k \in Key  PROVE Bounded(LedgerOf(k))
  BY SameCardinality, Zenon DEF LimitHolds, Ledger!LimitHolds, Bounded
<1>1. LogInv /\ Len(log) \in Nat
  BY DEF IInv, TypeOK, BucketTypeOK
<1>2. CASE Live(k) = {}
  <2>1. LedgerOf(k) = {}
    BY <1>2, LedgerIsLive, Zenon
  <2>2. IsFiniteSet({}) /\ Cardinality({}) = 0
    BY FS_EmptySet, Zenon
  <2>. QED
    BY <2>1, <2>2, SlotAssumption DEF Bounded
<1>3. ASSUME NEW i \in Live(k)  PROVE Bounded(LedgerOf(k))
  <2>1. Live(k) = {i} /\ i \in 1..Len(log)
    BY <1>1, LiveIsOne, Zenon DEF Live
  <2>2. {log[j].value : j \in Live(k)} = {log[i].value}
    BY <2>1, Zenon
  <2>3. LedgerOf(k) = log[i].value
    BY <2>2, LedgerIsLive, Zenon
  <2>. QED
    BY <1>1, <2>1, <2>3, Zenon DEF LogInv
<1>. QED
  BY <1>2, <1>3, Zenon

\* An empty bucket is an empty ledger.
LEMMA InitRefines == Init => Ledger!Init
<1> SUFFICES ASSUME Init  PROVE Ledger!Init
  BY Zenon
<1>1. log = << >> /\ now = 0
  BY Zenon DEF Init, BucketInit
<1>2. \A k \in Key : LedgerOf(k) = {}
  BY <1>1 DEF LedgerOf
<1>. QED
  BY <1>1, <1>2, Zenon DEF Ledger!Init

(***************************************************************************)
(* Theorems                                                                *)
(***************************************************************************)

\* IInv is an invariant of the capability ledger.
THEOREM Invariance == Spec => []IInv
  BY InitEstablishes, NextKeeps, PTL DEF Spec

\* The ledger in the bucket implements the ledger under a mutex: whatever the
\* interleaving of callers, late writes, lost answers and lagging replicas,
\* every accepted write is one Reserve, Commit, Cancel, Replace or Retire on
\* the slots of the moment, and nothing but expiry removes a slot otherwise.
THEOREM BucketImplementsLedger == Spec => ImplementsLedger
<1>1. Init => IInv /\ Ledger!Init
  BY InitEstablishes, InitRefines, Zenon
<1>2. IInv /\ [Next]_vars => IInv' /\ [Ledger!Next]_Ledger!vars
  BY NextKeeps, StepRefines, Zenon
<1>. QED
  BY <1>1, <1>2, PTL DEF Spec, ImplementsLedger, Ledger!Spec

\* Concurrent callers never take a principal past the configured maximum of
\* slots, and never give a token two slots.
THEOREM LimitAlwaysHolds == Spec => []LimitHolds
  BY LedgersAreBounded, Invariance, PTL

(***************************************************************************)
(* Nothing that was reported is lost.  An operation removes a slot that is *)
(* active and has time left only if it is a Replace or a Retire, and then  *)
(* the entry it writes names the entry the slot was in or a later one.     *)
(***************************************************************************)

\* Of what an operation finds, the slots that are active and have time left
\* stay, unless it is a Replace or a Retire.
LEMMA OnlyPurposeRemoves ==
  ASSUME NEW v \in SUBSET Slot, NEW q, q.op \in Op, NEW t \in Nat, NEW w \in Results(v, q, t),
         NEW s \in v, s.phase = "active"
  PROVE  s \in w \/ s.expires <= t \/ q.op \in {"replace", "retire"}
<1> SUFFICES ASSUME ~(s.expires <= t), q.op \notin {"replace", "retire"}
             PROVE  s \in w
  BY Zenon
<1> DEFINE kept == Prune(v, t)
<1>1. s \in kept
  <2>1. s.expires \in Nat
    BY Zenon DEF Slot
  <2>. QED
    BY <2>1 DEF Prune
<1>. HIDE DEF kept
<1>2. CASE q.op = "reserve"
  BY <1>1, <1>2, Zenon DEF Results, ReserveSlot, kept
<1>3. CASE q.op = "commit"
  <2>1. PICK x \in Phase(kept, q.token, "pending") : w = (kept \ {x}) \cup {Active(q.token, x.lease)}
    BY <1>3, Zenon DEF Results, CommitSlot, kept
  <2>2. x # s
    BY Zenon DEF Phase
  <2>. QED
    BY <1>1, <2>1, <2>2, Zenon
<1>4. CASE q.op = "cancel"
  <2>1. PICK x \in Phase(kept, q.token, "pending") : w = kept \ {x}
    BY <1>4, Zenon DEF Results, CancelSlot, kept
  <2>2. x # s
    BY Zenon DEF Phase
  <2>. QED
    BY <1>1, <2>1, <2>2, Zenon
<1>. QED
  BY <1>2, <1>3, <1>4, Zenon DEF Op

\* A write that names the entry at j or a later one of key k takes slots out on
\* purpose.
TakenOut(j, k) ==
  \E i \in 1..Len(log) : /\ log[i].key = k
                         /\ log[i].op \in {"replace", "retire"}
                         /\ log[i].expect >= j

\* The slot s that the entry at j has in the ledger of k is still there, or it
\* is known why it is not.
Accounted(j, k, s) ==
  \/ s \in LedgerOf(k)
  \/ s.expires <= now
  \/ TakenOut(j, k)

ActiveSlotsLive ==
  \A k \in Key : \A j \in 1..Len(log) : \A s \in log[j].value :
    log[j].key = k /\ s.phase = "active" => Accounted(j, k, s)

\* While the log grows, what was taken out stays so.
LEMMA GrowthKeepsTakenOut ==
  ASSUME Grows, NEW j, NEW k, TakenOut(j, k)
  PROVE  TakenOut(j, k)'
<1>1. \A i \in 1..Len(log) : i \in 1..Len(log') /\ log'[i] = log[i]
  BY DEF Grows
<1>. QED
  BY <1>1, Zenon DEF TakenOut

\* What an accepted write makes of the ledgers.
LEMMA AcceptedLedgers ==
  ASSUME IInv, NEW r, Sent(r), Accept(r)
  PROVE  /\ Len(log') = Len(log) + 1
         /\ \A i \in 1..Len(log) : log'[i] = log[i]
         /\ log'[Len(log) + 1] = [op |-> r.op, key |-> r.key, expect |-> r.expect,
                                  value |-> r.value, at |-> now]
         /\ now' = now
         /\ LedgerOf(r.key)' = r.value
         /\ \A k \in Key : k # r.key => LedgerOf(k)' = LedgerOf(k)
<1>1. TypeOK /\ BucketTypeOK(Op, SUBSET Slot)
  BY Zenon DEF IInv, TypeOK
<1>2. r \in Request(Op, SUBSET Slot)
  BY SentIsMade, Zenon
<1>3. /\ Live(r.key)' = {Len(log) + 1}
      /\ \A k \in Key : k # r.key => Live(k)' = Live(k)
  BY <1>1, <1>2, AcceptIsLive, Zenon
<1>4. /\ Len(log') = Len(log) + 1
      /\ \A i \in 1..Len(log) : log'[i] = log[i]
      /\ log'[Len(log) + 1] = [op |-> r.op, key |-> r.key, expect |-> r.expect,
                               value |-> r.value, at |-> now]
      /\ now' = now
  BY <1>1, <1>2, AcceptAppends, Zenon
<1>5. \A k : LedgerOf(k)' = UNION {log'[i].value : i \in Live(k)'}
  BY Zenon DEF LedgerOf, Live
<1>6. LedgerOf(r.key)' = r.value
  <2>1. {log'[i].value : i \in Live(r.key)'} = {r.value}
    BY <1>3, <1>4
  <2>. QED
    BY <1>5, <2>1, Zenon
<1>7. ASSUME NEW k \in Key, k # r.key  PROVE LedgerOf(k)' = LedgerOf(k)
  <2>1. \A i \in Live(k) : log'[i] = log[i]
    BY <1>4, Zenon DEF Live
  <2>2. {log'[i].value : i \in Live(k)'} = {log[i].value : i \in Live(k)}
    BY <1>3, <1>7, <2>1, Zenon
  <2>. QED
    BY <1>5, <2>2, LedgerIsLive, Zenon
<1>. QED
  BY <1>4, <1>6, <1>7, Zenon

\* An accepted write accounts for every active slot of the entries before it.
LEMMA AcceptKeepsSlots ==
  ASSUME IInv, ActiveSlotsLive, NEW r, Sent(r), Accept(r)
  PROVE  ActiveSlotsLive'
<1>1. TypeOK /\ Len(log) \in Nat /\ now \in Nat /\ log \in Seq(Entry(Op, SUBSET Slot))
  <2>1. TypeOK /\ log \in Seq(Entry(Op, SUBSET Slot)) /\ now \in Nat
    BY Zenon DEF IInv, TypeOK, BucketTypeOK
  <2>. QED
    BY <2>1
<1>2. PICK m \in Nat : m = Len(log) + 1
  BY <1>1
<1>3. /\ Len(log') = m
      /\ \A i \in 1..Len(log) : log'[i] = log[i]
      /\ log'[m].op = r.op /\ log'[m].key = r.key /\ log'[m].expect = r.expect
      /\ log'[m].value = r.value /\ now' = now
      /\ LedgerOf(r.key)' = r.value
      /\ \A k \in Key : k # r.key => LedgerOf(k)' = LedgerOf(k)
  <2>1. /\ Len(log') = Len(log) + 1
        /\ \A i \in 1..Len(log) : log'[i] = log[i]
        /\ log'[Len(log) + 1] = [op |-> r.op, key |-> r.key, expect |-> r.expect,
                                 value |-> r.value, at |-> now]
        /\ now' = now
        /\ LedgerOf(r.key)' = r.value
        /\ \A k \in Key : k # r.key => LedgerOf(k)' = LedgerOf(k)
    BY AcceptedLedgers, Zenon
  <2>. QED
    BY <1>2, <2>1
<1>4. /\ r.key \in Key /\ r.op \in Op /\ r \in Request(Op, SUBSET Slot)
      /\ Made(r.op, r.expect, r.value)
  BY SentIsMade DEF Request
<1>5. Grows
  BY <1>1, <1>2, <1>3 DEF Grows
<1> SUFFICES ASSUME NEW k \in Key, NEW j \in 1..m, NEW s \in log'[j].value,
                    log'[j].key = k, s.phase = "active"
             PROVE  Accounted(j, k, s)'
  BY <1>3, Zenon DEF ActiveSlotsLive
<1>6. CASE j = m
  <2>1. k = r.key /\ s \in r.value
    BY <1>3, <1>6, Zenon
  <2>2. s \in LedgerOf(k)'
    BY <1>3, <2>1, Zenon
  <2>. QED
    BY <2>2, Zenon DEF Accounted
<1>7. CASE j \in 1..Len(log)
  <2>1. k = log[j].key /\ s \in log[j].value
    BY <1>3, <1>7, Zenon
  <2>2. log[j].value \in SUBSET Slot
    BY <1>1, <1>7, EntryFields, Zenon
  <2>3. s \in LedgerOf(k) \/ s.expires <= now \/ TakenOut(j, k)
    BY <1>7, <2>1, Zenon DEF ActiveSlotsLive, Accounted
  <2>4. TakenOut(j, k) => TakenOut(j, k)'
    BY <1>5, GrowthKeepsTakenOut, Zenon
  <2>5. CASE k # r.key
    BY <1>3, <2>3, <2>4, <2>5, Zenon DEF Accounted
  <2>6. ASSUME k = r.key, s \in LedgerOf(k)
        PROVE  Accounted(j, k, s)'
    <3>1. LedgerOf(k) = Base(r.expect)
      BY <1>1, <1>4, <2>6, MatchedIsLedger, Zenon DEF Accept
    <3>2. PICK q, t : /\ Legal(q) /\ q.op = r.op /\ t \in 0..now
                      /\ r.value \in Results(Base(r.expect), q, t)
      BY <1>4, Zenon DEF Made
    <3>3. r.expect # 0
      BY <2>6, <3>1, Zenon DEF Base
    <3>4. /\ r.expect \in 1..Len(log)
          /\ \A i \in (r.expect + 1)..Len(log) : log[i].key # k
      BY <2>6, <3>3, Zenon DEF Accept, Matches, Latest
    <3>5. r.expect >= j
      BY <1>1, <1>7, <2>1, <3>4
    <3>6. Base(r.expect) \in SUBSET Slot
      BY <1>1, <3>3, <3>4, EntryFields, Zenon DEF Base
    <3>7. q.op \in Op /\ t \in Nat /\ t <= now
      BY <1>1, <1>4, <3>2
    <3>8. s \in r.value \/ s.expires <= t \/ q.op \in {"replace", "retire"}
      BY <2>6, <3>1, <3>2, <3>6, <3>7, OnlyPurposeRemoves
    <3>9. s.expires <= t => s.expires <= now
      <4>1. s.expires \in Nat
        BY <2>1, <2>2, Zenon DEF Slot
      <4>. QED
        BY <1>1, <3>7, <4>1
    <3>10. q.op \in {"replace", "retire"} => TakenOut(j, k)'
      <4>1. m \in 1..Len(log')
        BY <1>1, <1>2, <1>3
      <4>. QED
        BY <1>3, <2>6, <3>2, <3>5, <4>1, Zenon DEF TakenOut
    <3>. QED
      BY <1>3, <2>6, <3>8, <3>9, <3>10, Zenon DEF Accounted
  <2>. QED
    BY <1>3, <2>3, <2>4, <2>5, <2>6, Zenon DEF Accounted
<1>. QED
  BY <1>1, <1>2, <1>6, <1>7

\* When the clock moves, a slot that is dropped has expired.
LEMMA TickKeepsSlots ==
  ASSUME IInv, ActiveSlotsLive, Tick
  PROVE  ActiveSlotsLive'
<1>1. TypeOK /\ log \in Seq(Entry(Op, SUBSET Slot)) /\ now \in Nat
  BY Zenon DEF IInv, TypeOK, BucketTypeOK
<1>2. Len(log) \in Nat /\ log' = log /\ now' = now + 1
  BY <1>1 DEF Tick
<1>3. Grows
  BY <1>1, <1>2 DEF Grows
<1>4. ASSUME NEW k \in Key
      PROVE  \A s \in LedgerOf(k) : s \in LedgerOf(k)' \/ ~(s.expires > now')
  BY TickIsPruning, Zenon DEF Ledger!PruneLedger, Ledger!Prune
<1> SUFFICES ASSUME NEW k \in Key, NEW j \in 1..Len(log), NEW s \in log[j].value,
                    log[j].key = k, s.phase = "active"
             PROVE  Accounted(j, k, s)'
  BY <1>2, Zenon DEF ActiveSlotsLive
<1>5. s.expires \in Nat
  BY <1>1, EntryFields, Zenon DEF Slot
<1>6. s \in LedgerOf(k) \/ s.expires <= now \/ TakenOut(j, k)
  BY Zenon DEF ActiveSlotsLive, Accounted
<1>7. ~(s.expires > now') => s.expires <= now'
  BY <1>1, <1>2, <1>5
<1>8. s.expires <= now => s.expires <= now'
  BY <1>1, <1>2, <1>5
<1>9. TakenOut(j, k) => TakenOut(j, k)'
  BY <1>3, GrowthKeepsTakenOut, Zenon
<1>. QED
  BY <1>4, <1>6, <1>7, <1>8, <1>9, Zenon DEF Accounted

\* Every step accounts for every active slot.
LEMMA SlotsKeep ==
  ASSUME IInv, ActiveSlotsLive, [Next]_vars
  PROVE  ActiveSlotsLive'
<1>1. CASE UNCHANGED <<log, now>>
  <2>1. \A k : LedgerOf(k)' = LedgerOf(k)
    BY <1>1 DEF LedgerOf, Latest, Kept
  <2>2. \A j, k : TakenOut(j, k)' <=> TakenOut(j, k)
    BY <1>1, Zenon DEF TakenOut
  <2>. QED
    BY <1>1, <2>1, <2>2, Zenon DEF ActiveSlotsLive, Accounted
<1>. QED
  BY <1>1, AcceptKeepsSlots, TickKeepsSlots, BucketSteps, Zenon

\* The ledger in the bucket stays within its limit and loses no slot whose
\* Commit or Replace was reported: it is there until it expires or until a
\* Replace or Retire that saw it took it out, whatever other callers, stray
\* writes and reconciliations do.
THEOREM LedgerStaysSound == Spec => []LedgerIsSound
<1>1. Init => ActiveSlotsLive
  <2> SUFFICES ASSUME Init  PROVE ActiveSlotsLive
    BY Zenon
  <2>1. 1..Len(log) = {}
    BY DEF Init, BucketInit
  <2>. QED
    BY <2>1, Zenon DEF ActiveSlotsLive
<1>2. IInv /\ ActiveSlotsLive /\ [Next]_vars => IInv' /\ ActiveSlotsLive'
  BY NextKeeps, SlotsKeep, Zenon
<1>3. IInv /\ ActiveSlotsLive => ReportedSlotLives
  BY Zenon DEF ActiveSlotsLive, Accounted, TakenOut, ReportedSlotLives, IInv, TypeOK
<1>4. IInv /\ ActiveSlotsLive => LedgerIsSound
  BY <1>3, LedgersAreBounded, Zenon DEF LedgerIsSound
<1>. QED
  BY <1>1, <1>2, <1>4, InitEstablishes, PTL DEF Spec

(***************************************************************************)
(* The primitives service                                                  *)
(*                                                                         *)
(* A token is drawn for one request, so nobody else commits, replaces or   *)
(* retires its slot, and the slot carries the expiry that is sealed.  A    *)
(* renewal or release moves the lease to a new fencing token before the    *)
(* slot of the old capability goes, so what loses its slot is not usable   *)
(* any more, wherever the request stops.                                   *)
(***************************************************************************)
\* The steps of a request whose token was drawn for it and nobody else has.
Drawn == {"reserve", "acquire", "seal", "commit", "cancel", "replace"}

\* The lease of the capability c is in force under its fencing token.
InForce(c) == \E l \in lease[c.key] : l.fence = c.fence /\ ~l.released

\* The lease that c was sealed for has the expiry that c says.
Faithful(c) ==
  c.fence <= issued /\ \A l \in lease[c.key] : l.fence = c.fence => l.expires = c.expires

\* The lease has moved on since c was sealed.
Superseded(c) == \A l \in lease[c.key] : l.fence > c.fence

HasSlot(c) ==
  \E x \in ledger[c.owner] : x.token = c.token /\ x.phase = "active" /\ x.expires = c.expires

\* The request r of server s has its token for itself.
OwnToken(s, r) ==
  r.step \in Drawn =>
    /\ r.cap.token \notin undrawn
    /\ \A c \in returned : c.token # r.cap.token
    /\ \A z \in Server : \A q \in request[z] :
         z # s /\ q.step \in Drawn => q.cap.token # r.cap.token

\* The slot a request reserved carries the expiry of its capability.
SlotInv(r) ==
  r.step \in {"reserve", "acquire", "seal", "commit", "cancel"} =>
    \A x \in ledger[r.cap.owner] : x.token = r.cap.token => x.lease = r.cap.expires

\* What a request has found out about the lease.
StageInv(r) ==
  /\ r.old \in SUBSET returned
  /\ r.step \in {"seal", "commit", "reseal", "replace"} => Faithful(r.cap)
  /\ r.step \in {"renew", "release"} =>
       r.old # {} /\ \A o \in r.old : r.cap.key = o.key /\ r.cap.fence = o.fence
  /\ r.step \in {"reseal", "replace", "retire"} => \A o \in r.old : Superseded(o)
  /\ r.step \in {"release", "retire"} => r.cap \in r.old

LeaseInv ==
  \A k \in Scope : \A l \in lease[k] : l.fence <= issued /\ \A m \in lease[k] : m = l

LedgerInv ==
  \A a \in Principal : Bounded(ledger[a]) /\ \A x \in ledger[a] : x.token \notin undrawn

ReturnedInv ==
  \A c \in returned : /\ c.token \notin undrawn /\ Faithful(c)
                      /\ Usable(c) => HasSlot(c)
                      /\ \A d \in returned : c.token = d.token => c = d

RequestInv ==
  \A s \in Server : \A r \in request[s] : OwnToken(s, r) /\ SlotInv(r) /\ StageInv(r)

PrimitivesInv == PrimitivesTypeOK /\ LeaseInv /\ LedgerInv /\ ReturnedInv /\ RequestInv

(***************************************************************************)
(* What the stores do                                                      *)
(***************************************************************************)
\* A lease that changes gets a token nobody has seen.
LeasesAdvance ==
  /\ lease' \in [Scope -> SUBSET Lease] /\ issued' \in Nat /\ issued <= issued'
  /\ LeaseInv'
  /\ \A k \in Scope : \A l \in lease'[k] : l \in lease[k] \/ l.fence > issued

LEMMA LeasesStay ==
  ASSUME PrimitivesInv, UNCHANGED <<lease, issued>>
  PROVE  LeasesAdvance
  BY DEF PrimitivesInv, PrimitivesTypeOK, LeaseInv, LeasesAdvance

LEMMA StoredAdvances ==
  ASSUME PrimitivesInv, NEW k \in Scope, NEW l, NEW h \in Holder, NEW e \in Nat,
         NEW rel \in BOOLEAN, l = [holder |-> h, expires |-> e, released |-> rel, fence |-> 0],
         Stored(k, l)
  PROVE  /\ LeasesAdvance /\ ledger' = ledger /\ issued' = issued + 1
         /\ \A x \in lease'[k] : x.fence = issued + 1 /\ x.expires = e
<1>1. issued \in Nat /\ lease \in [Scope -> SUBSET Lease] /\ LeaseInv
  BY Zenon DEF PrimitivesInv, PrimitivesTypeOK
<1>2. PICK n : n = [l EXCEPT !.fence = issued + 1]
  BY Zenon
<1>3. n = [holder |-> h, expires |-> e, released |-> rel, fence |-> issued + 1]
  BY <1>2, Zenon
<1>4. n \in Lease /\ n.fence = issued + 1
  BY <1>1, <1>3 DEF Lease
<1>5. lease' = [lease EXCEPT ![k] = {n}] /\ issued' = issued + 1
  BY <1>2, Zenon DEF Stored
<1>6. /\ lease' \in [Scope -> SUBSET Lease] /\ issued' \in Nat /\ issued <= issued'
      /\ \A j \in Scope : lease'[j] = IF j = k THEN {n} ELSE lease[j]
  BY <1>1, <1>4, <1>5
<1>7. ASSUME NEW j \in Scope, NEW m \in lease'[j]
      PROVE  (m \in lease[j] \/ m.fence > issued) /\ m.fence <= issued' /\ \A q \in lease'[j] : q = m
  <2>1. CASE j = k
    BY <2>1, <1>1, <1>4, <1>5, <1>6, <1>7
  <2>2. CASE j # k
    <3>1. m \in lease[j] /\ lease'[j] = lease[j]
      BY <2>2, <1>6, <1>7, Zenon
    <3>2. m \in Lease /\ m.fence <= issued /\ \A q \in lease[j] : q = m
      BY <3>1, <1>1, Zenon DEF LeaseInv
    <3>. QED
      BY <3>1, <3>2, <1>1, <1>5 DEF Lease
  <2>. QED
    BY <2>1, <2>2, Zenon
<1>8. \A x \in lease'[k] : x.fence = issued + 1 /\ x.expires = e
  BY <1>3, <1>6
<1>9. ledger' = ledger
  BY Zenon DEF Stored
<1>. QED
  BY <1>5, <1>6, <1>7, <1>8, <1>9, Zenon DEF LeasesAdvance, LeaseInv

\* What was found out about the leases stays true.
LEMMA FoundStays ==
  ASSUME PrimitivesInv, LeasesAdvance, NEW c \in Capability, c.fence <= issued
  PROVE  /\ Faithful(c) => Faithful(c)'
         /\ Superseded(c) => Superseded(c)'
         /\ InForce(c)' => InForce(c)
<1>1. /\ issued \in Nat /\ issued' \in Nat /\ issued <= issued' /\ c.key \in Scope /\ c.fence \in Nat
      /\ \A l \in lease'[c.key] : l \in Lease /\ (l \in lease[c.key] \/ l.fence > issued)
  BY Zenon DEF PrimitivesInv, PrimitivesTypeOK, LeasesAdvance, Capability
<1>2. \A l \in lease'[c.key] : l.fence \in Nat
  BY <1>1, Zenon DEF Lease
<1>3. \A l \in lease'[c.key] : l \in lease[c.key] \/ l.fence > c.fence
  BY <1>1, <1>2
<1>4. Faithful(c) => Faithful(c)'
  BY <1>1, <1>2, <1>3 DEF Faithful
<1>5. Superseded(c) => Superseded(c)'
  BY <1>3, Zenon DEF Superseded
<1>6. InForce(c)' => InForce(c)
  BY <1>1, <1>2, <1>3 DEF InForce
<1>. QED
  BY <1>4, <1>5, <1>6, Zenon

\* What operation op makes of the slots v of a principal: w.
Effect(v, w, op, old, next, e) ==
  /\ w \in SUBSET Slot /\ Bounded(w)
  /\ \A x \in w :
       \/ x \in v
       \/ op = "reserve" /\ x.token = next /\ x.lease = e
       \/ op = "commit" /\ x.token = old
       \/ op = "replace" /\ x.token = next
  /\ \A x \in v : x.phase = "active" /\ x.expires > clock =>
       x \in w \/ (op \in {"replace", "retire"} /\ x.token = old)
  /\ op = "commit" => \E y \in v : y.token = old /\ Active(old, y.lease) \in w
  /\ op = "replace" => Active(next, e) \in w

LEMMA SlotFields ==
  ASSUME NEW token \in Token, NEW e \in Nat
  PROVE  /\ Active(token, e) \in Slot
         /\ Active(token, e).token = token /\ Active(token, e).expires = e
         /\ Active(token, e).lease = e /\ Active(token, e).phase = "active"
  BY Zenon DEF Active, Slot

LEMMA EffectOfResult ==
  ASSUME clock \in Nat, NEW v \in SUBSET Slot, Bounded(v), NEW op \in Op, NEW old \in Token,
         NEW next \in Token, NEW e \in Nat, NEW t \in 0..clock, NEW q,
         q = [op |-> op, token |-> old, next |-> next, expires |-> e],
         NEW w \in Results(v, q, t)
  PROVE  Effect(v, w, op, old, next, e)
<1>1. PICK kept : kept = Prune(v, t)
  BY Zenon
<1>2. /\ kept \in SUBSET v
      /\ \A x \in v : x.expires > clock => x \in kept
  BY <1>1 DEF Prune, Slot
<1>3. q \in BudgetRequest /\ q.op = op /\ q.token = old /\ q.next = next /\ q.expires = e
  BY Zenon DEF BudgetRequest
<1>4. w \in SUBSET Slot /\ Bounded(w)
  BY <1>3, ResultsAreBounded
<1>5. CASE op = "reserve"
  <2>1. w = kept \cup {Pending(next, e, t)}
    BY <1>1, <1>3, <1>5, Zenon DEF Results, ReserveSlot
  <2>2. Pending(next, e, t).token = next /\ Pending(next, e, t).lease = e
    BY Zenon DEF Pending
  <2>. QED
    BY <1>2, <1>4, <1>5, <2>1, <2>2, Zenon DEF Effect
<1>6. CASE op = "commit"
  <2>1. PICK y \in Phase(kept, old, "pending") : w = (kept \ {y}) \cup {Active(old, y.lease)}
    BY <1>1, <1>3, <1>6, Zenon DEF Results, CommitSlot
  <2>2. y \in kept /\ y.token = old /\ y.phase = "pending"
    BY Zenon DEF Phase, Find
  <2>3. Active(old, y.lease).token = old
    BY Zenon DEF Active
  <2>. QED
    BY <1>2, <1>4, <1>6, <2>1, <2>2, <2>3, Zenon DEF Effect
<1>7. CASE op = "cancel"
  <2>1. PICK y \in Phase(kept, old, "pending") : w = kept \ {y}
    BY <1>1, <1>3, <1>7, Zenon DEF Results, CancelSlot
  <2>2. y \in kept /\ y.phase = "pending"
    BY Zenon DEF Phase, Find
  <2>. QED
    BY <1>2, <1>4, <1>7, <2>1, <2>2, Zenon DEF Effect
<1>8. CASE op = "replace"
  <2>1. PICK y \in Phase(kept, old, "active") : w = (kept \ {y}) \cup {Active(next, e)}
    BY <1>1, <1>3, <1>8, Zenon DEF Results, ReplaceSlot
  <2>2. y \in kept /\ y.token = old
    BY Zenon DEF Phase, Find
  <2>3. Active(next, e).token = next
    BY Zenon DEF Active
  <2>. QED
    BY <1>2, <1>4, <1>8, <2>1, <2>2, <2>3, Zenon DEF Effect
<1>9. CASE op = "retire"
  <2>1. PICK y \in Phase(kept, old, "active") : w = kept \ {y}
    BY <1>1, <1>3, <1>9, Zenon DEF Results, RetireSlot
  <2>2. y \in kept /\ y.token = old
    BY Zenon DEF Phase, Find
  <2>. QED
    BY <1>2, <1>4, <1>9, <2>1, <2>2, Zenon DEF Effect
<1>. QED
  BY <1>5, <1>6, <1>7, <1>8, <1>9, Zenon DEF Op

LEMMA EffectFacts ==
  ASSUME PrimitivesInv, NEW a \in Principal, NEW op \in Op, NEW old \in Token,
         NEW next \in Token, NEW e \in Nat, BudgetEffect(a, op, old, next, e)
  PROVE  /\ UNCHANGED <<lease, issued>>
         /\ \E w : ledger' = [ledger EXCEPT ![a] = w] /\ Effect(ledger[a], w, op, old, next, e)
<1>1. PICK q : q = [op |-> op, token |-> old, next |-> next, expires |-> e]
  BY Zenon
<1>2. PICK t \in 0..clock : \E w \in Results(ledger[a], q, t) :
        ledger' = [ledger EXCEPT ![a] = w] /\ UNCHANGED <<lease, issued>>
  BY <1>1, Zenon DEF BudgetEffect
<1>3. PICK w \in Results(ledger[a], q, t) :
        ledger' = [ledger EXCEPT ![a] = w] /\ UNCHANGED <<lease, issued>>
  BY <1>2, Zenon
<1>4. clock \in Nat /\ ledger[a] \in SUBSET Slot /\ Bounded(ledger[a])
  BY Zenon DEF PrimitivesInv, PrimitivesTypeOK, LedgerInv
<1>5. Effect(ledger[a], w, op, old, next, e)
  BY <1>1, <1>3, <1>4, EffectOfResult, Zenon
<1>. QED
  BY <1>3, <1>5, Zenon

\* The ledgers keep what everyone but server s relies on.
LedgersMove(s) ==
  /\ ledger' \in [Principal -> SUBSET Slot]
  /\ \A a \in Principal : Bounded(ledger'[a]) /\ \A x \in ledger'[a] : x.token \notin undrawn'
  /\ \A z \in Server : \A q \in request[z] : z # s => SlotInv(q)'
  /\ \A c \in returned : Usable(c)' => HasSlot(c)'

LEMMA ReturnedFacts ==
  ASSUME PrimitivesInv, NEW c \in returned
  PROVE  /\ c \in Capability /\ c.owner \in Principal /\ c.token \in Token
         /\ c.fence <= issued /\ Faithful(c) /\ (Usable(c) => HasSlot(c))
<1>1. c \in Capability /\ Faithful(c) /\ (Usable(c) => HasSlot(c))
  BY Zenon DEF PrimitivesInv, PrimitivesTypeOK, ReturnedInv
<1>. QED
  BY <1>1, Zenon DEF Faithful, Capability

\* A capability that is usable after a step was usable before it.
LEMMA UsableBefore ==
  ASSUME PrimitivesInv, LeasesAdvance, clock' = clock, NEW c \in returned, Usable(c)'
  PROVE  Usable(c)
<1>1. InForce(c)'
  BY Zenon DEF Usable, InForce
<1>2. InForce(c)
  BY <1>1, ReturnedFacts, FoundStays, Zenon
<1>. QED
  BY <1>2, Zenon DEF Usable, InForce

LEMMA LedgersStay ==
  ASSUME PrimitivesInv, LeasesAdvance, ledger' = ledger, clock' = clock, undrawn' \in SUBSET undrawn,
         NEW s \in Server
  PROVE  LedgersMove(s)
<1>1. ledger' \in [Principal -> SUBSET Slot]
  BY Zenon DEF PrimitivesInv, PrimitivesTypeOK
<1>2. \A a \in Principal : Bounded(ledger'[a]) /\ \A x \in ledger'[a] : x.token \notin undrawn'
  BY Zenon DEF PrimitivesInv, LedgerInv
<1>3. \A z \in Server : \A q \in request[z] : z # s => SlotInv(q)'
  BY Zenon DEF PrimitivesInv, RequestInv, SlotInv
<1>4. ASSUME NEW c \in returned, Usable(c)'  PROVE HasSlot(c)'
  <2>1. HasSlot(c)
    BY <1>4, UsableBefore, ReturnedFacts, Zenon
  <2>. QED
    BY <2>1, Zenon DEF HasSlot
<1>. QED
  BY <1>1, <1>2, <1>3, <1>4, Zenon DEF LedgersMove

\* An operation of the request r on a ledger: what it adds is r's own slot, and
\* a usable capability loses none.
LEMMA EffectMoves ==
  ASSUME PrimitivesInv, NEW s \in Server, NEW r \in request[s], NEW a \in Principal,
         NEW op \in Op, NEW old \in Token, NEW next \in Token, NEW e \in Nat,
         BudgetEffect(a, op, old, next, e), UNCHANGED <<clock, undrawn>>,
         op \in {"reserve", "commit", "replace"} => r.step \in Drawn /\ next = r.cap.token,
         op = "commit" => old = next,
         op \in {"replace", "retire"} => \E o \in returned : o.token = old /\ Superseded(o)
  PROVE  LeasesAdvance /\ LedgersMove(s)
<1>1. UNCHANGED <<lease, issued>> /\ LeasesAdvance
  BY EffectFacts, LeasesStay, Zenon
<1>2. PICK w : ledger' = [ledger EXCEPT ![a] = w] /\ Effect(ledger[a], w, op, old, next, e)
  BY EffectFacts, Zenon
<1>3. PICK v : v = ledger[a]
  BY Zenon
<1>4. /\ ledger \in [Principal -> SUBSET Slot] /\ w \in SUBSET Slot /\ Bounded(w)
      /\ ledger'[a] = w /\ \A b \in Principal : b # a => ledger'[b] = ledger[b]
  BY <1>2, Zenon DEF PrimitivesInv, PrimitivesTypeOK, Effect
<1>5. ASSUME NEW x \in w, x \notin v  PROVE r.step \in Drawn /\ x.token = r.cap.token
  BY <1>2, <1>3, <1>5, Zenon DEF Effect
<1>6. OwnToken(s, r)
  BY Zenon DEF PrimitivesInv, RequestInv
<1>7. ledger' \in [Principal -> SUBSET Slot]
  BY <1>2, <1>4, Zenon
<1>8. ASSUME NEW b \in Principal
      PROVE  Bounded(ledger'[b]) /\ \A x \in ledger'[b] : x.token \notin undrawn'
  <2>1. Bounded(ledger[b]) /\ \A x \in ledger[b] : x.token \notin undrawn
    BY Zenon DEF PrimitivesInv, LedgerInv
  <2>2. CASE b # a
    BY <2>1, <2>2, <1>4, Zenon
  <2>3. CASE b = a
    BY <2>1, <2>3, <1>3, <1>4, <1>5, <1>6, Zenon DEF OwnToken
  <2>. QED
    BY <2>2, <2>3, Zenon
<1>9. ASSUME NEW z \in Server, NEW q \in request[z], z # s  PROVE SlotInv(q)'
  <2>1. SlotInv(q) /\ OwnToken(z, q)
    BY Zenon DEF PrimitivesInv, RequestInv
  <2>2. ASSUME q.step \in {"reserve", "acquire", "seal", "commit", "cancel"},
               NEW x \in ledger'[q.cap.owner], x.token = q.cap.token
        PROVE  x \in ledger[q.cap.owner]
    <3>1. q.step \in Drawn /\ q.cap.owner \in Principal
      BY <2>2 DEF Drawn, PrimitivesInv, PrimitivesTypeOK, InProgress, Capability
    <3>2. r.step \in Drawn => r.cap.token # q.cap.token
      BY <2>1, <3>1, <1>9, Zenon DEF OwnToken
    <3>. QED
      BY <3>1, <3>2, <2>2, <1>3, <1>4, <1>5, Zenon
  <2>. QED
    BY <2>1, <2>2, Zenon DEF SlotInv
<1>10. ASSUME NEW c \in returned, Usable(c)'  PROVE HasSlot(c)'
  <2>1. /\ Usable(c) /\ c.owner \in Principal /\ c.token \in Token /\ c \in Capability
        /\ HasSlot(c)
    BY <1>1, <1>10, UsableBefore, ReturnedFacts, Zenon
  <2>2. PICK x \in ledger[c.owner] :
          x.token = c.token /\ x.phase = "active" /\ x.expires = c.expires
    BY <2>1, Zenon DEF HasSlot
  <2>3. x.expires > clock
    BY <2>1, <2>2, Zenon DEF Usable
  <2>4. CASE c.owner # a
    BY <2>1, <2>2, <2>4, <1>4, Zenon DEF HasSlot
  <2>5. CASE c.owner = a
    <3>1. x \in w \/ (op \in {"replace", "retire"} /\ x.token = old)
      BY <2>2, <2>3, <2>5, <1>2, Zenon DEF Effect
    <3>2. ASSUME op \in {"replace", "retire"}, x.token = old  PROVE FALSE
      <4>1. PICK o \in returned : o.token = old /\ Superseded(o)
        BY <3>2, Zenon
      <4>2. o = c
        BY <4>1, <3>2, <2>2, Zenon DEF PrimitivesInv, ReturnedInv
      <4>3. PICK l \in lease[c.key] : l.fence = c.fence
        BY <2>1, Zenon DEF Usable
      <4>4. l.fence > c.fence /\ c.fence \in Nat
        BY <4>1, <4>2, <4>3, <2>1, Zenon DEF Superseded, Capability
      <4>. QED
        BY <4>3, <4>4
    <3>. QED
      BY <2>2, <2>5, <3>1, <3>2, <1>4, Zenon DEF HasSlot
  <2>. QED
    BY <2>4, <2>5, Zenon
<1>. QED
  BY <1>1, <1>7, <1>8, <1>9, <1>10, Zenon DEF LedgersMove

(***************************************************************************)
(* The steps of a request                                                  *)
(***************************************************************************)
\* Server s returns the capability it was making, if any.
Returns(s, Q, R) ==
  \/ R = {}
  \/ /\ Q = {}
     /\ \E r \in request[s] : /\ r.step \in Drawn /\ R = {r.cap}
                              /\ Faithful(r.cap)' /\ (Usable(r.cap)' => HasSlot(r.cap)')

LEMMA StepKeeps ==
  ASSUME PrimitivesInv, LeasesAdvance, NEW s \in Server, LedgersMove(s), clock' = clock,
         undrawn' \in SUBSET undrawn, NEW Q \in SUBSET InProgress, NEW R \in SUBSET Capability,
         request' = [request EXCEPT ![s] = Q], returned' = returned \cup R, Returns(s, Q, R),
         \A r \in Q : OwnToken(s, r)' /\ SlotInv(r)' /\ StageInv(r)'
  PROVE  PrimitivesInv'
<1>1. PrimitivesTypeOK'
  BY Zenon DEF PrimitivesInv, PrimitivesTypeOK, LeasesAdvance, LedgersMove
<1>2. LeaseInv' /\ LedgerInv'
  BY Zenon DEF LeasesAdvance, LedgersMove, LedgerInv
<1>3. ASSUME NEW c \in R
      PROVE  /\ c.token \notin undrawn /\ Faithful(c)' /\ (Usable(c)' => HasSlot(c)')
             /\ \A d \in returned : d.token # c.token
             /\ R = {c}
             /\ \A z \in Server : \A q \in request'[z] : q.step \in Drawn => q.cap.token # c.token
  <2>1. PICK r \in request[s] : /\ r.step \in Drawn /\ R = {r.cap} /\ Q = {}
                                /\ Faithful(r.cap)' /\ (Usable(r.cap)' => HasSlot(r.cap)')
    BY <1>3, Zenon DEF Returns
  <2>2. c = r.cap /\ OwnToken(s, r)
    BY <1>3, <2>1, Zenon DEF PrimitivesInv, RequestInv
  <2>3. \A z \in Server : request'[z] = IF z = s THEN {} ELSE request[z]
    BY <2>1, Zenon DEF PrimitivesInv, PrimitivesTypeOK
  <2>. QED
    BY <2>1, <2>2, <2>3, Zenon DEF OwnToken
<1>4. ASSUME NEW c \in returned
      PROVE  c.token \notin undrawn' /\ Faithful(c)' /\ (Usable(c)' => HasSlot(c)')
  <2>1. c.token \notin undrawn /\ Faithful(c)'
    BY ReturnedFacts, FoundStays, Zenon DEF PrimitivesInv, ReturnedInv
  <2>. QED
    BY <2>1, Zenon DEF LedgersMove
<1>5. ReturnedInv'
  <2>1. \A c, d \in returned : c.token = d.token => c = d
    BY Zenon DEF PrimitivesInv, ReturnedInv
  <2>2. \A c, d \in returned' : c.token = d.token => c = d
    BY <2>1, <1>3
  <2>3. \A c \in returned' : c.token \notin undrawn' /\ Faithful(c)' /\ (Usable(c)' => HasSlot(c)')
    BY <1>3, <1>4, Zenon
  <2>. QED
    BY <2>2, <2>3, Zenon DEF ReturnedInv
<1>6. ASSUME NEW z \in Server, NEW q \in request'[z], z # s
      PROVE  OwnToken(z, q)' /\ SlotInv(q)' /\ StageInv(q)'
  <2>1. q \in request[z] /\ q \in InProgress
    BY <1>6, Zenon DEF PrimitivesInv, PrimitivesTypeOK
  <2>2. OwnToken(z, q) /\ StageInv(q)
    BY <2>1, Zenon DEF PrimitivesInv, RequestInv
  <2>3. SlotInv(q)'
    BY <2>1, <1>6, Zenon DEF LedgersMove
  <2>4. OwnToken(z, q)'
    <3>1. ASSUME NEW y \in Server, NEW p \in request'[y], y # z, p.step \in Drawn,
                 q.step \in Drawn
          PROVE  p.cap.token # q.cap.token
      <4>1. CASE y = s
        <5>1. p \in Q
          BY <3>1, <4>1, Zenon DEF PrimitivesInv, PrimitivesTypeOK
        <5>2. OwnToken(s, p)'
          BY <5>1, Zenon
        <5>. QED
          BY <5>2, <3>1, <1>6, Zenon DEF OwnToken
      <4>2. CASE y # s
        <5>1. p \in request[y]
          BY <3>1, <4>2, Zenon DEF PrimitivesInv, PrimitivesTypeOK
        <5>. QED
          BY <5>1, <3>1, <2>2, Zenon DEF OwnToken
      <4>. QED
        BY <4>1, <4>2, Zenon
    <3>2. ASSUME NEW c \in returned', q.step \in Drawn  PROVE c.token # q.cap.token
      BY <3>2, <1>3, <1>6, <2>2, Zenon DEF OwnToken
    <3>. QED
      BY <3>1, <3>2, <2>2, Zenon DEF OwnToken
  <2>5. StageInv(q)'
    <3>1. q.cap \in Capability
      BY <2>1, Zenon DEF InProgress
    <3>2. Faithful(q.cap) => Faithful(q.cap)'
      <4>1. Faithful(q.cap) => q.cap.fence <= issued
        BY Zenon DEF Faithful
      <4>. QED
        BY <3>1, <4>1, FoundStays, Zenon
    <3>3. \A o \in q.old : o \in returned /\ (Superseded(o) => Superseded(o)')
      BY <2>2, ReturnedFacts, FoundStays, Zenon DEF StageInv
    <3>. QED
      BY <2>2, <3>2, <3>3, Zenon DEF StageInv
  <2>. QED
    BY <2>3, <2>4, <2>5, Zenon
<1>7. \A q \in request'[s] : q \in Q
  BY Zenon DEF PrimitivesInv, PrimitivesTypeOK
<1>8. RequestInv'
  BY <1>6, <1>7, Zenon DEF RequestInv
<1>. QED
  BY <1>1, <1>2, <1>5, <1>8, Zenon DEF PrimitivesInv

\* A request that ends with an error.
LEMMA FailKeeps ==
  ASSUME PrimitivesInv, LeasesAdvance, NEW s \in Server, LedgersMove(s),
         UNCHANGED <<clock, undrawn>>, FailRequest(s)
  PROVE  PrimitivesInv'
<1>1. {} \in SUBSET InProgress /\ {} \in SUBSET Capability /\ Returns(s, {}, {})
  BY Zenon DEF Returns
<1>2. request' = [request EXCEPT ![s] = {}] /\ returned' = returned \cup {}
  BY Zenon DEF FailRequest
<1>. QED
  BY <1>1, <1>2, StepKeeps, Zenon

\* A request that returns its capability.
LEMMA ReturnKeeps ==
  ASSUME PrimitivesInv, LeasesAdvance, NEW s \in Server, LedgersMove(s),
         UNCHANGED <<clock, undrawn>>, NEW r \in request[s], r.step \in Drawn, Return(s, r.cap),
         Faithful(r.cap)', HasSlot(r.cap)'
  PROVE  PrimitivesInv'
<1>1. r.cap \in Capability
  BY DEF PrimitivesInv, PrimitivesTypeOK, InProgress
<1>2. Returns(s, {}, {r.cap}) /\ {} \in SUBSET InProgress
  BY Zenon DEF Returns
<1>3. request' = [request EXCEPT ![s] = {}] /\ returned' = returned \cup {r.cap}
  BY Zenon DEF Return
<1>. QED
  BY <1>1, <1>2, <1>3, StepKeeps, Zenon

\* A request that goes on as n.
LEMMA MoveKeeps ==
  ASSUME PrimitivesInv, LeasesAdvance, NEW s \in Server, LedgersMove(s), clock' = clock,
         undrawn' \in SUBSET undrawn, NEW n \in InProgress,
         request' = [request EXCEPT ![s] = {n}], returned' = returned,
         OwnToken(s, n)', SlotInv(n)', StageInv(n)'
  PROVE  PrimitivesInv'
<1>1. {n} \in SUBSET InProgress /\ {} \in SUBSET Capability /\ Returns(s, {n}, {})
  BY Zenon DEF Returns
<1>2. returned' = returned \cup {}
  BY Zenon
<1>. QED
  BY <1>1, <1>2, StepKeeps, Zenon

LEMMA RequestFacts ==
  ASSUME PrimitivesInv, NEW s \in Server, NEW r \in request[s]
  PROVE  /\ r \in InProgress /\ OwnToken(s, r) /\ SlotInv(r) /\ StageInv(r)
         /\ r.cap \in Capability /\ r.cap.owner \in Principal /\ r.cap.key \in Scope
         /\ r.cap.holder \in Holder /\ r.cap.expires \in Nat /\ r.cap.fence \in Nat
         /\ r.cap.token \in Token /\ r.old \in SUBSET Capability
<1>1. r \in InProgress /\ OwnToken(s, r) /\ SlotInv(r) /\ StageInv(r)
  BY Zenon DEF PrimitivesInv, PrimitivesTypeOK, RequestInv
<1>2. r.cap \in Capability /\ r.old \in SUBSET Capability
  BY <1>1, Zenon DEF InProgress
<1>. QED
  BY <1>1, <1>2, Zenon DEF Capability

LEMMA MovedRequest ==
  ASSUME NEW r \in InProgress, NEW step \in Step, NEW n, n = [r EXCEPT !.step = step]
  PROVE  n \in InProgress /\ n.step = step /\ n.cap = r.cap /\ n.old = r.old
<1>1. n = [step |-> step, cap |-> r.cap, old |-> r.old]
  BY Zenon DEF InProgress
<1>. QED
  BY <1>1, Zenon DEF InProgress

LEMMA FencedRequest ==
  ASSUME NEW r \in InProgress, NEW f \in Nat, NEW n,
         n = [r EXCEPT !.cap = [r.cap EXCEPT !.fence = f]]
  PROVE  /\ n \in InProgress /\ n.step = r.step /\ n.old = r.old
         /\ n.cap.owner = r.cap.owner /\ n.cap.key = r.cap.key /\ n.cap.fence = f
         /\ n.cap.expires = r.cap.expires /\ n.cap.token = r.cap.token
<1>1. PICK c : c = [r.cap EXCEPT !.fence = f]
  BY Zenon
<1>2. r.cap \in Capability
  BY Zenon DEF InProgress
<1>3. c = [owner |-> r.cap.owner, key |-> r.cap.key, holder |-> r.cap.holder,
           expires |-> r.cap.expires, fence |-> f, token |-> r.cap.token]
  BY <1>1, <1>2, Zenon DEF Capability
<1>4. c \in Capability
  BY <1>2, <1>3, Zenon DEF Capability
<1>5. n = [step |-> r.step, cap |-> c, old |-> r.old]
  BY <1>1, Zenon DEF InProgress
<1>. QED
  BY <1>3, <1>4, <1>5 DEF InProgress

\* What a request keeps to itself stays its own while it goes on with the same
\* token.
LEMMA TokenStays ==
  ASSUME PrimitivesInv, NEW s \in Server, NEW r \in request[s], r.step \in Drawn, NEW n,
         n.cap.token = r.cap.token, UNCHANGED <<undrawn, returned>>,
         NEW Q, request' = [request EXCEPT ![s] = Q]
  PROVE  OwnToken(s, n)'
<1>1. OwnToken(s, r)
  BY RequestFacts, Zenon
<1>2. \A z \in Server : z # s => request'[z] = request[z]
  BY Zenon DEF PrimitivesInv, PrimitivesTypeOK
<1>. QED
  BY <1>1, <1>2, Zenon DEF OwnToken

LEMMA ReserveKeeps ==
  ASSUME PrimitivesInv, NEW s \in Server, NEW r \in request[s], ReserveToken(s, r)
  PROVE  PrimitivesInv'
<1>. UNCHANGED <<clock, undrawn>> /\ r.step = "reserve"
  BY Zenon DEF ReserveToken
<1>1. /\ r \in InProgress /\ SlotInv(r) /\ StageInv(r)
      /\ r.cap.owner \in Principal /\ r.cap.token \in Token /\ r.cap.expires \in Nat
  BY RequestFacts, Zenon
<1>2. CASE UNCHANGED stores /\ FailRequest(s)
  BY <1>2, LeasesStay, LedgersStay, FailKeeps, Zenon DEF stores
<1>3. ASSUME BudgetEffect(r.cap.owner, "reserve", r.cap.token, r.cap.token, r.cap.expires)
      PROVE  LeasesAdvance /\ LedgersMove(s)
  BY <1>1, <1>3, EffectMoves, Zenon DEF Op, Drawn
<1>4. ASSUME BudgetEffect(r.cap.owner, "reserve", r.cap.token, r.cap.token, r.cap.expires),
             FailRequest(s)
      PROVE  PrimitivesInv'
  BY <1>3, <1>4, FailKeeps, Zenon
<1>5. ASSUME BudgetEffect(r.cap.owner, "reserve", r.cap.token, r.cap.token, r.cap.expires),
             Goto(s, r, "acquire")
      PROVE  PrimitivesInv'
  <2>1. PICK n : n = [r EXCEPT !.step = "acquire"]
    BY Zenon
  <2>2. n \in InProgress /\ n.step = "acquire" /\ n.cap = r.cap /\ n.old = r.old
    BY <1>1, <2>1, MovedRequest DEF Step
  <2>3. request' = [request EXCEPT ![s] = {n}] /\ returned' = returned
    BY <1>5, <2>1, Zenon DEF Goto
  <2>4. OwnToken(s, n)'
    BY <2>2, <2>3, TokenStays, Zenon DEF Drawn
  <2>5. PICK w : /\ ledger' = [ledger EXCEPT ![r.cap.owner] = w]
                 /\ Effect(ledger[r.cap.owner], w, "reserve", r.cap.token, r.cap.token, r.cap.expires)
    BY <1>1, <1>5, EffectFacts, Zenon DEF Op
  <2>6. ledger'[r.cap.owner] = w
    BY <1>1, <2>5, Zenon DEF PrimitivesInv, PrimitivesTypeOK
  <2>7. \A x \in w : x.token = r.cap.token => x.lease = r.cap.expires
    BY <1>1, <2>5, Zenon DEF Effect, SlotInv
  <2>8. SlotInv(n)'
    BY <2>2, <2>6, <2>7, Zenon DEF SlotInv
  <2>9. StageInv(n)'
    BY <1>1, <2>2, <2>3, Zenon DEF StageInv
  <2>. QED
    BY <1>3, <1>5, <2>2, <2>3, <2>4, <2>8, <2>9, MoveKeeps, Zenon
<1>. QED
  BY <1>2, <1>4, <1>5, Zenon DEF ReserveToken, BudgetError

\* The lease that a request has got or renewed.
LEMMA GrantedFacts ==
  ASSUME PrimitivesInv, NEW c \in Capability, NEW e \in Nat, NEW released \in BOOLEAN,
         (Granted(c) /\ e = c.expires) \/ Mutated(c, e, released)
  PROVE  /\ LeasesAdvance /\ ledger' = ledger /\ issued' = issued + 1
         /\ \A x \in lease'[c.key] : x.fence = issued + 1 /\ x.expires = e
<1>1. c.key \in Scope /\ c.holder \in Holder /\ c.expires \in Nat
  BY Zenon DEF Capability
<1>2. PICK rel \in BOOLEAN :
        Stored(c.key, [holder |-> c.holder, expires |-> e, released |-> rel, fence |-> 0])
  BY Zenon DEF Granted, Mutated
<1>3. PICK l : l = [holder |-> c.holder, expires |-> e, released |-> rel, fence |-> 0]
  BY Zenon
<1>4. Stored(c.key, l)
  BY <1>2, <1>3, Zenon
<1>. QED
  BY <1>1, <1>3, <1>4, StoredAdvances

\* A request goes on, as m, to its next step; the ledgers stay.
LEMMA GoesOn ==
  ASSUME PrimitivesInv, LeasesAdvance, ledger' = ledger, UNCHANGED <<clock, undrawn>>,
         NEW s \in Server, NEW r \in request[s], NEW m \in InProgress, m.old = r.old,
         m.cap.owner = r.cap.owner, m.cap.token = r.cap.token, m.cap.expires = r.cap.expires,
         NEW step \in Step, Goto(s, m, step),
         step \in {"acquire", "seal", "commit", "cancel"} =>
           r.step \in {"reserve", "acquire", "seal", "commit", "cancel"},
         step \notin {"reserve", "replace"},
         NEW n, n = [m EXCEPT !.step = step], StageInv(n)'
  PROVE  PrimitivesInv'
<1>1. n \in InProgress /\ n.step = step /\ n.cap = m.cap /\ n.old = m.old
  BY MovedRequest
<1>2. request' = [request EXCEPT ![s] = {n}] /\ returned' = returned
  BY Zenon DEF Goto
<1>3. LedgersMove(s)
  BY LedgersStay, Zenon
<1>4. OwnToken(s, n)'
  <2>1. CASE step \notin Drawn
    BY <1>1, <2>1, Zenon DEF OwnToken
  <2>2. CASE step \in Drawn
    <3>1. r.step \in Drawn
      BY <2>2, Zenon DEF Drawn
    <3>. QED
      BY <1>1, <1>2, <3>1, TokenStays, Zenon
  <2>. QED
    BY <2>1, <2>2, Zenon
<1>5. SlotInv(n)'
  BY <1>1, RequestFacts DEF SlotInv
<1>. QED
  BY <1>1, <1>2, <1>3, <1>4, <1>5, MoveKeeps, Zenon

LEMMA AcquireLeaseKeeps ==
  ASSUME PrimitivesInv, NEW s \in Server, NEW r \in request[s], AcquireLease(s, r)
  PROVE  PrimitivesInv'
<1>. UNCHANGED <<clock, undrawn>> /\ r.step = "acquire"
  BY Zenon DEF AcquireLease
<1>1. /\ r \in InProgress /\ StageInv(r) /\ r.cap \in Capability /\ issued \in Nat
      /\ r.cap.key \in Scope /\ r.cap.expires \in Nat
  BY RequestFacts, Zenon DEF PrimitivesInv, PrimitivesTypeOK
<1>2. ASSUME NEW f \in Nat, NEW m, m = [r EXCEPT !.cap = [r.cap EXCEPT !.fence = f]],
             LeasesAdvance, ledger' = ledger, f <= issued',
             \A l \in lease'[r.cap.key] : l.fence = f => l.expires = r.cap.expires,
             Goto(s, m, "seal")
      PROVE  PrimitivesInv'
  <2>1. /\ m \in InProgress /\ m.old = r.old
        /\ m.cap.owner = r.cap.owner /\ m.cap.key = r.cap.key /\ m.cap.fence = f
        /\ m.cap.expires = r.cap.expires /\ m.cap.token = r.cap.token
    BY <1>1, <1>2, FencedRequest
  <2>2. PICK n : n = [m EXCEPT !.step = "seal"]
    BY Zenon
  <2>3. n.step = "seal" /\ n.cap = m.cap /\ n.old = m.old
    BY <2>1, <2>2, MovedRequest DEF Step
  <2>4. returned' = returned
    BY <1>2, Zenon DEF Goto
  <2>5. Faithful(n.cap)'
    BY <1>2, <2>1, <2>3, Zenon DEF Faithful
  <2>6. StageInv(n)'
    BY <1>1, <2>1, <2>3, <2>4, <2>5, Zenon DEF StageInv
  <2>. QED
    BY <1>2, <2>1, <2>2, <2>6, GoesOn, Zenon DEF Step
<1>3. ASSUME Granted(r.cap), Goto(s, [r EXCEPT !.cap = [r.cap EXCEPT !.fence = issued + 1]], "seal")
      PROVE  PrimitivesInv'
  <2>1. /\ LeasesAdvance /\ ledger' = ledger /\ issued' = issued + 1
        /\ \A x \in lease'[r.cap.key] : x.fence = issued + 1 /\ x.expires = r.cap.expires
    BY <1>1, <1>3, GrantedFacts, Zenon
  <2>2. issued + 1 \in Nat /\ issued + 1 <= issued'
    BY <1>1, <2>1
  <2>. QED
    BY <1>2, <1>3, <2>1, <2>2, Zenon
<1>4. ASSUME UNCHANGED stores, NEW l \in lease[r.cap.key], l.expires = r.cap.expires,
             Goto(s, [r EXCEPT !.cap = [r.cap EXCEPT !.fence = l.fence]], "seal")
      PROVE  PrimitivesInv'
  <2>1. /\ l.fence \in Nat /\ l.fence <= issued /\ \A x \in lease[r.cap.key] : x = l
    BY <1>1 DEF PrimitivesInv, PrimitivesTypeOK, Lease, LeaseInv
  <2>2. /\ LeasesAdvance /\ ledger' = ledger /\ l.fence <= issued'
        /\ \A x \in lease'[r.cap.key] : x.expires = r.cap.expires
    BY <1>4, <2>1, LeasesStay, Zenon DEF stores
  <2>. QED
    BY <1>2, <1>4, <2>1, <2>2, Zenon
<1>5. ASSUME Granted(r.cap) \/ UNCHANGED stores, Goto(s, r, "cancel")
      PROVE  PrimitivesInv'
  <2>1. LeasesAdvance /\ ledger' = ledger
    BY <1>1, <1>5, GrantedFacts, LeasesStay, Zenon DEF stores
  <2>2. PICK n : n = [r EXCEPT !.step = "cancel"]
    BY Zenon
  <2>3. n.step = "cancel" /\ n.cap = r.cap /\ n.old = r.old
    BY <1>1, <2>2, MovedRequest DEF Step
  <2>4. returned' = returned
    BY <1>5, Zenon DEF Goto
  <2>5. StageInv(n)'
    BY <1>1, <2>3, <2>4, Zenon DEF StageInv
  <2>. QED
    BY <1>1, <1>5, <2>1, <2>2, <2>5, GoesOn, Zenon DEF Step
<1>. QED
  BY <1>3, <1>4, <1>5, Zenon DEF AcquireLease

LEMMA SealKeeps ==
  ASSUME PrimitivesInv, NEW s \in Server, NEW r \in request[s], Seal(s, r)
  PROVE  PrimitivesInv'
<1>. UNCHANGED <<clock, undrawn>> /\ UNCHANGED stores /\ r.step = "seal"
  BY Zenon DEF Seal
<1>1. r \in InProgress /\ StageInv(r)
  BY RequestFacts, Zenon
<1>2. LeasesAdvance /\ ledger' = ledger /\ lease' = lease /\ issued' = issued
  BY LeasesStay, Zenon DEF stores
<1>3. PICK step \in {"commit", "cancel"} : Goto(s, r, step)
  BY Zenon DEF Seal
<1>4. PICK n : n = [r EXCEPT !.step = step]
  BY Zenon
<1>5. n.step = step /\ n.cap = r.cap /\ n.old = r.old
  BY <1>1, <1>4, MovedRequest DEF Step
<1>6. returned' = returned
  BY <1>3, Zenon DEF Goto
<1>7. Faithful(n.cap)'
  BY <1>1, <1>2, <1>5, Zenon DEF StageInv, Faithful
<1>8. StageInv(n)'
  BY <1>1, <1>5, <1>6, <1>7, Zenon DEF StageInv
<1>. QED
  BY <1>1, <1>2, <1>3, <1>4, <1>8, GoesOn, Zenon DEF Step

\* The slot of a committed capability is active until the capability expires.
LEMMA CommitKeeps ==
  ASSUME PrimitivesInv, NEW s \in Server, NEW r \in request[s], Commit(s, r)
  PROVE  PrimitivesInv'
<1>. UNCHANGED <<clock, undrawn>> /\ r.step = "commit"
  BY Zenon DEF Commit
<1>1. /\ r \in InProgress /\ SlotInv(r) /\ StageInv(r) /\ r.cap \in Capability
      /\ r.cap.owner \in Principal /\ r.cap.token \in Token /\ r.cap.expires \in Nat
      /\ r.cap.fence \in Nat
  BY RequestFacts, Zenon
<1>2. CASE UNCHANGED stores /\ FailRequest(s)
  BY <1>2, LeasesStay, LedgersStay, FailKeeps, Zenon DEF stores
<1>3. ASSUME BudgetEffect(r.cap.owner, "commit", r.cap.token, r.cap.token, 0)
      PROVE  LeasesAdvance /\ LedgersMove(s)
  BY <1>1, <1>3, EffectMoves, Zenon DEF Op, Drawn
<1>4. ASSUME BudgetEffect(r.cap.owner, "commit", r.cap.token, r.cap.token, 0), FailRequest(s)
      PROVE  PrimitivesInv'
  BY <1>3, <1>4, FailKeeps, Zenon
<1>5. ASSUME BudgetEffect(r.cap.owner, "commit", r.cap.token, r.cap.token, 0), Return(s, r.cap)
      PROVE  PrimitivesInv'
  <2>1. PICK w : /\ ledger' = [ledger EXCEPT ![r.cap.owner] = w]
                 /\ Effect(ledger[r.cap.owner], w, "commit", r.cap.token, r.cap.token, 0)
    BY <1>1, <1>5, EffectFacts, Zenon DEF Op
  <2>2. ledger'[r.cap.owner] = w
    BY <1>1, <2>1, Zenon DEF PrimitivesInv, PrimitivesTypeOK
  <2>3. PICK y \in ledger[r.cap.owner] : y.token = r.cap.token /\ Active(r.cap.token, y.lease) \in w
    BY <2>1, Zenon DEF Effect
  <2>4. y.lease = r.cap.expires
    BY <1>1, <2>3, Zenon DEF SlotInv
  <2>5. HasSlot(r.cap)'
    BY <1>1, <2>2, <2>3, <2>4, SlotFields DEF HasSlot
  <2>6. Faithful(r.cap) /\ r.cap.fence <= issued
    BY <1>1, Zenon DEF StageInv, Faithful
  <2>7. Faithful(r.cap)'
    BY <1>1, <1>3, <1>5, <2>6, FoundStays, Zenon
  <2>. QED
    BY <1>3, <1>5, <2>5, <2>7, ReturnKeeps, Zenon DEF Drawn
<1>. QED
  BY <1>2, <1>4, <1>5, Zenon DEF Commit, BudgetError

LEMMA CancelKeeps ==
  ASSUME PrimitivesInv, NEW s \in Server, NEW r \in request[s], Cancel(s, r)
  PROVE  PrimitivesInv'
<1>. UNCHANGED <<clock, undrawn>> /\ FailRequest(s)
  BY Zenon DEF Cancel
<1>1. r.cap.owner \in Principal /\ r.cap.token \in Token
  BY RequestFacts, Zenon
<1>2. CASE UNCHANGED stores
  BY <1>2, LeasesStay, LedgersStay, FailKeeps, Zenon DEF stores
<1>3. CASE BudgetEffect(r.cap.owner, "cancel", r.cap.token, r.cap.token, 0)
  <2>1. LeasesAdvance /\ LedgersMove(s)
    BY <1>1, <1>3, EffectMoves, Zenon DEF Op
  <2>. QED
    BY <2>1, FailKeeps, Zenon
<1>. QED
  BY <1>2, <1>3, Zenon DEF Cancel, BudgetError

\* The capability that a renewal or a release was made with is superseded.
LEMMA RenewLeaseKeeps ==
  ASSUME PrimitivesInv, NEW s \in Server, NEW r \in request[s], RenewLease(s, r)
  PROVE  PrimitivesInv'
<1>. UNCHANGED <<clock, undrawn>> /\ r.step = "renew"
  BY Zenon DEF RenewLease
<1>1. /\ r \in InProgress /\ StageInv(r) /\ r.cap \in Capability /\ issued \in Nat
      /\ r.cap.key \in Scope /\ r.cap.expires \in Nat /\ r.cap.fence \in Nat
  BY RequestFacts, Zenon DEF PrimitivesInv, PrimitivesTypeOK
<1>2. \A o \in r.old : /\ o \in returned /\ o.key = r.cap.key /\ o.fence = r.cap.fence
                       /\ r.cap.fence <= issued
  BY <1>1, ReturnedFacts, Zenon DEF StageInv
<1>3. ASSUME NEW f \in Nat, NEW m, m = [r EXCEPT !.cap = [r.cap EXCEPT !.fence = f]],
             LeasesAdvance, ledger' = ledger, f <= issued', r.old # {} => r.cap.fence < f,
             \A l \in lease'[r.cap.key] : l.fence = f /\ l.expires = r.cap.expires,
             Goto(s, m, "reseal")
      PROVE  PrimitivesInv'
  <2>1. /\ m \in InProgress /\ m.old = r.old
        /\ m.cap.owner = r.cap.owner /\ m.cap.key = r.cap.key /\ m.cap.fence = f
        /\ m.cap.expires = r.cap.expires /\ m.cap.token = r.cap.token
    BY <1>1, <1>3, FencedRequest
  <2>2. PICK n : n = [m EXCEPT !.step = "reseal"]
    BY Zenon
  <2>3. n.step = "reseal" /\ n.cap = m.cap /\ n.old = m.old
    BY <2>1, <2>2, MovedRequest DEF Step
  <2>4. returned' = returned
    BY <1>3, Zenon DEF Goto
  <2>5. Faithful(n.cap)'
    BY <1>3, <2>1, <2>3, Zenon DEF Faithful
  <2>6. ASSUME NEW o \in n.old  PROVE Superseded(o)'
    <3>1. o \in r.old /\ o.key = r.cap.key /\ o.fence = r.cap.fence /\ r.cap.fence < f
      BY <1>2, <1>3, <2>1, <2>3, Zenon
    <3>2. \A l \in lease'[o.key] : l.fence = f
      BY <1>3, <3>1, Zenon
    <3>3. o.fence < f /\ o.fence \in Nat
      BY <1>1, <3>1, Zenon
    <3>. QED
      BY <3>2, <3>3, Zenon DEF Superseded
  <2>7. StageInv(n)'
    BY <1>1, <2>1, <2>3, <2>4, <2>5, <2>6, Zenon DEF StageInv
  <2>8. /\ "reseal" \in Step /\ "reseal" \notin {"acquire", "seal", "commit", "cancel"}
        /\ "reseal" \notin {"reserve", "replace"}
    BY Zenon DEF Step
  <2>. QED
    BY <1>3, <2>1, <2>2, <2>7, <2>8, GoesOn, Zenon
<1>4. ASSUME Mutated(r.cap, r.cap.expires, FALSE),
             Goto(s, [r EXCEPT !.cap = [r.cap EXCEPT !.fence = issued + 1]], "reseal")
      PROVE  PrimitivesInv'
  <2>1. /\ LeasesAdvance /\ ledger' = ledger /\ issued' = issued + 1
        /\ \A x \in lease'[r.cap.key] : x.fence = issued + 1 /\ x.expires = r.cap.expires
    BY <1>1, <1>4, GrantedFacts, Zenon
  <2>2. issued + 1 \in Nat /\ issued + 1 <= issued' /\ (r.old # {} => r.cap.fence < issued + 1)
    BY <1>1, <1>2, <2>1
  <2>. QED
    BY <1>3, <1>4, <2>1, <2>2, Zenon
<1>5. ASSUME UNCHANGED stores, NEW l \in lease[r.cap.key], l.expires = r.cap.expires,
             Found(r.cap.key, r.cap.fence, l),
             Goto(s, [r EXCEPT !.cap = [r.cap EXCEPT !.fence = l.fence]], "reseal")
      PROVE  PrimitivesInv'
  <2>1. /\ l.fence \in Nat /\ l.fence <= issued /\ \A x \in lease[r.cap.key] : x = l
    BY <1>1 DEF PrimitivesInv, PrimitivesTypeOK, Lease, LeaseInv
  <2>2. /\ LeasesAdvance /\ ledger' = ledger /\ l.fence <= issued'
        /\ \A x \in lease'[r.cap.key] : x.fence = l.fence /\ x.expires = r.cap.expires
    BY <1>5, <2>1, LeasesStay, Zenon DEF stores
  <2>3. r.cap.fence < l.fence
    BY <1>1, <1>5, <2>1, Zenon DEF Found
  <2>. QED
    BY <1>3, <1>5, <2>1, <2>2, <2>3, Zenon
<1>6. ASSUME Mutated(r.cap, r.cap.expires, FALSE) \/ UNCHANGED stores, FailRequest(s)
      PROVE  PrimitivesInv'
  <2>1. LeasesAdvance /\ ledger' = ledger
    BY <1>1, <1>6, GrantedFacts, LeasesStay, Zenon DEF stores
  <2>. QED
    BY <1>6, <2>1, LedgersStay, FailKeeps, Zenon
<1>. QED
  BY <1>4, <1>5, <1>6, Zenon DEF RenewLease

\* A fresh token is nobody's.
LEMMA FreshIsOwn ==
  ASSUME PrimitivesInv, NEW s \in Server, NEW t \in undrawn, NEW n, n.cap.token = t,
         undrawn' = undrawn \ {t}, returned' = returned, NEW Q, request' = [request EXCEPT ![s] = Q]
  PROVE  /\ OwnToken(s, n)'
         /\ \A a \in Principal : \A x \in ledger[a] : x.token # t
<1>1. \A z \in Server : z # s => request'[z] = request[z]
  BY Zenon DEF PrimitivesInv, PrimitivesTypeOK
<1>2. \A c \in returned : c.token # t
  BY Zenon DEF PrimitivesInv, ReturnedInv
<1>3. \A z \in Server : \A q \in request[z] : q.step \in Drawn => q.cap.token # t
  BY Zenon DEF PrimitivesInv, RequestInv, OwnToken
<1>. QED
  BY <1>1, <1>2, <1>3, Zenon DEF OwnToken, PrimitivesInv, LedgerInv

LEMMA ResealKeeps ==
  ASSUME PrimitivesInv, NEW s \in Server, NEW r \in request[s], NEW t \in undrawn, Reseal(s, r, t)
  PROVE  PrimitivesInv'
<1>. UNCHANGED clock /\ UNCHANGED stores /\ r.step = "reseal"
  BY Zenon DEF Reseal
<1>1. r \in InProgress /\ StageInv(r) /\ r.cap \in Capability /\ t \in Token
  BY RequestFacts, Zenon DEF PrimitivesInv, PrimitivesTypeOK
<1>2. LeasesAdvance /\ ledger' = ledger /\ lease' = lease /\ issued' = issued
  BY LeasesStay, Zenon DEF stores
<1>3. CASE UNCHANGED undrawn /\ FailRequest(s)
  BY <1>2, <1>3, LedgersStay, FailKeeps, Zenon
<1>4. ASSUME undrawn' = undrawn \ {t}, Goto(s, [r EXCEPT !.cap.token = t], "replace")
      PROVE  PrimitivesInv'
  <2>1. PICK m : m = [r EXCEPT !.cap.token = t]
    BY Zenon
  <2>2. PICK c : c = [r.cap EXCEPT !.token = t]
    BY Zenon
  <2>3. c = [owner |-> r.cap.owner, key |-> r.cap.key, holder |-> r.cap.holder,
             expires |-> r.cap.expires, fence |-> r.cap.fence, token |-> t]
    BY <1>1, <2>2, Zenon DEF Capability
  <2>4. m = [step |-> r.step, cap |-> c, old |-> r.old]
    BY <1>1, <2>1, <2>2, Zenon DEF InProgress
  <2>5. /\ m \in InProgress /\ m.old = r.old /\ m.cap = c
        /\ c.key = r.cap.key /\ c.fence = r.cap.fence /\ c.expires = r.cap.expires /\ c.token = t
    BY <1>1, <2>3, <2>4, Zenon DEF InProgress, Capability
  <2>6. PICK n : n = [m EXCEPT !.step = "replace"]
    BY Zenon
  <2>7. n \in InProgress /\ n.step = "replace" /\ n.cap = c /\ n.old = r.old
    BY <2>5, <2>6, MovedRequest DEF Step
  <2>8. request' = [request EXCEPT ![s] = {n}] /\ returned' = returned
    BY <1>4, <2>1, <2>6, Zenon DEF Goto
  <2>9. OwnToken(s, n)'
    BY <1>4, <2>5, <2>7, <2>8, FreshIsOwn, Zenon
  <2>10. Faithful(n.cap)' /\ \A o \in n.old : Superseded(o)'
    BY <1>1, <1>2, <2>5, <2>7, Zenon DEF StageInv, Faithful, Superseded
  <2>11. StageInv(n)' /\ SlotInv(n)'
    BY <1>1, <2>7, <2>8, <2>10, Zenon DEF StageInv, SlotInv
  <2>12. undrawn' \in SUBSET undrawn
    BY <1>4, Zenon
  <2>13. LedgersMove(s)
    BY <1>2, <2>12, LedgersStay, Zenon
  <2>. QED
    BY <1>2, <2>7, <2>8, <2>9, <2>11, <2>12, <2>13, MoveKeeps, Zenon
<1>. QED
  BY <1>3, <1>4, Zenon DEF Reseal

\* The old capability's slot goes to the new one; the old one is superseded.
LEMMA ReplaceKeeps ==
  ASSUME PrimitivesInv, NEW s \in Server, NEW r \in request[s], ReplaceToken(s, r)
  PROVE  PrimitivesInv'
<1>. UNCHANGED <<clock, undrawn>> /\ r.step = "replace"
  BY Zenon DEF ReplaceToken
<1>1. /\ r \in InProgress /\ StageInv(r) /\ r.cap \in Capability
      /\ r.cap.owner \in Principal /\ r.cap.token \in Token /\ r.cap.expires \in Nat
      /\ r.cap.fence \in Nat
  BY RequestFacts, Zenon
<1>2. PICK o \in r.old :
        \/ /\ BudgetEffect(r.cap.owner, "replace", o.token, r.cap.token, r.cap.expires)
           /\ Return(s, r.cap)
        \/ /\ BudgetError(r.cap.owner, "replace", o.token, r.cap.token, r.cap.expires)
           /\ FailRequest(s)
  BY Zenon DEF ReplaceToken
<1>3. o \in returned /\ o.token \in Token /\ Superseded(o)
  BY <1>1, ReturnedFacts, Zenon DEF StageInv
<1>4. CASE UNCHANGED stores /\ FailRequest(s)
  BY <1>4, LeasesStay, LedgersStay, FailKeeps, Zenon DEF stores
<1>5. ASSUME BudgetEffect(r.cap.owner, "replace", o.token, r.cap.token, r.cap.expires)
      PROVE  LeasesAdvance /\ LedgersMove(s)
  BY <1>1, <1>3, <1>5, EffectMoves, Zenon DEF Op, Drawn
<1>6. ASSUME BudgetEffect(r.cap.owner, "replace", o.token, r.cap.token, r.cap.expires), FailRequest(s)
      PROVE  PrimitivesInv'
  BY <1>5, <1>6, FailKeeps, Zenon
<1>7. ASSUME BudgetEffect(r.cap.owner, "replace", o.token, r.cap.token, r.cap.expires),
             Return(s, r.cap)
      PROVE  PrimitivesInv'
  <2>1. PICK w : /\ ledger' = [ledger EXCEPT ![r.cap.owner] = w]
                 /\ Effect(ledger[r.cap.owner], w, "replace", o.token, r.cap.token, r.cap.expires)
    BY <1>1, <1>3, <1>7, EffectFacts, Zenon DEF Op
  <2>2. ledger'[r.cap.owner] = w
    BY <1>1, <2>1, Zenon DEF PrimitivesInv, PrimitivesTypeOK
  <2>3. Active(r.cap.token, r.cap.expires) \in w
    BY <2>1, Zenon DEF Effect
  <2>4. HasSlot(r.cap)'
    BY <1>1, <2>2, <2>3, SlotFields DEF HasSlot
  <2>5. Faithful(r.cap) /\ r.cap.fence <= issued
    BY <1>1, Zenon DEF StageInv, Faithful
  <2>6. Faithful(r.cap)'
    BY <1>1, <1>5, <1>7, <2>5, FoundStays, Zenon
  <2>. QED
    BY <1>5, <1>7, <2>4, <2>6, ReturnKeeps, Zenon DEF Drawn
<1>. QED
  BY <1>2, <1>4, <1>6, <1>7, Zenon DEF BudgetError

\* A renewal or a release that took effect, or is found done, has moved the
\* lease on.
LEMMA ReleaseLeaseKeeps ==
  ASSUME PrimitivesInv, NEW s \in Server, NEW r \in request[s], ReleaseLease(s, r)
  PROVE  PrimitivesInv'
<1>. UNCHANGED <<clock, undrawn>> /\ r.step = "release"
  BY Zenon DEF ReleaseLease
<1>1. /\ r \in InProgress /\ StageInv(r) /\ r.cap \in Capability /\ issued \in Nat
      /\ r.cap.key \in Scope /\ r.cap.expires \in Nat /\ r.cap.fence \in Nat
  BY RequestFacts, Zenon DEF PrimitivesInv, PrimitivesTypeOK
<1>2. /\ r.cap \in r.old /\ r.old \in SUBSET returned
      /\ \A o \in r.old : /\ o \in returned /\ o.key = r.cap.key /\ o.fence = r.cap.fence
                          /\ r.cap.fence <= issued
  BY <1>1, ReturnedFacts, Zenon DEF StageInv
<1>3. ASSUME LeasesAdvance, ledger' = ledger,
             \A l \in lease'[r.cap.key] : l.fence > r.cap.fence, Goto(s, r, "retire")
      PROVE  PrimitivesInv'
  <2>1. PICK n : n = [r EXCEPT !.step = "retire"]
    BY Zenon
  <2>2. n.step = "retire" /\ n.cap = r.cap /\ n.old = r.old
    BY <1>1, <2>1, MovedRequest DEF Step
  <2>3. returned' = returned
    BY <1>3, Zenon DEF Goto
  <2>4. ASSUME NEW o \in n.old  PROVE Superseded(o)'
    <3>1. o.key = r.cap.key /\ o.fence = r.cap.fence
      BY <1>2, <2>2, Zenon
    <3>. QED
      BY <1>3, <3>1, Zenon DEF Superseded
  <2>5. StageInv(n)'
    BY <1>2, <2>2, <2>3, <2>4, Zenon DEF StageInv
  <2>. QED
    BY <1>1, <1>3, <2>1, <2>5, GoesOn, Zenon DEF Step
<1>4. ASSUME Mutated(r.cap, r.cap.expires, TRUE)
      PROVE  /\ LeasesAdvance /\ ledger' = ledger
             /\ \A x \in lease'[r.cap.key] : x.fence > r.cap.fence
  <2>1. /\ LeasesAdvance /\ ledger' = ledger /\ issued' = issued + 1
        /\ \A x \in lease'[r.cap.key] : x.fence = issued + 1 /\ x.expires = r.cap.expires
    BY <1>1, <1>4, GrantedFacts, Zenon
  <2>2. r.cap.fence < issued + 1
    BY <1>1, <1>2
  <2>. QED
    BY <2>1, <2>2, Zenon
<1>5. ASSUME UNCHANGED stores, NEW l \in lease[r.cap.key], Found(r.cap.key, r.cap.fence, l)
      PROVE  /\ LeasesAdvance /\ ledger' = ledger
             /\ \A x \in lease'[r.cap.key] : x.fence > r.cap.fence
  <2>1. LeasesAdvance /\ ledger' = ledger /\ lease' = lease
    BY <1>5, LeasesStay, Zenon DEF stores
  <2>2. \A x \in lease[r.cap.key] : x = l
    BY <1>1, Zenon DEF PrimitivesInv, LeaseInv
  <2>. QED
    BY <1>5, <2>1, <2>2, Zenon DEF Found
<1>6. CASE UNCHANGED stores /\ FailRequest(s)
  BY <1>6, LeasesStay, LedgersStay, FailKeeps, Zenon DEF stores
<1>7. CASE Mutated(r.cap, r.cap.expires, TRUE) /\ FailRequest(s)
  BY <1>4, <1>7, LedgersStay, FailKeeps, Zenon
<1>. QED
  BY <1>3, <1>4, <1>5, <1>6, <1>7, Zenon DEF ReleaseLease

LEMMA RetireKeeps ==
  ASSUME PrimitivesInv, NEW s \in Server, NEW r \in request[s], Retire(s, r)
  PROVE  PrimitivesInv'
<1>. FailRequest(s) /\ UNCHANGED <<clock, undrawn>> /\ r.step = "retire"
  BY Zenon DEF Retire
<1>1. /\ r \in InProgress /\ StageInv(r) /\ r.cap \in Capability
      /\ r.cap.owner \in Principal /\ r.cap.token \in Token
  BY RequestFacts, Zenon
<1>2. r.cap \in returned /\ Superseded(r.cap)
  BY <1>1, Zenon DEF StageInv
<1>3. CASE UNCHANGED stores
  BY <1>3, LeasesStay, LedgersStay, FailKeeps, Zenon DEF stores
<1>4. CASE BudgetEffect(r.cap.owner, "retire", r.cap.token, r.cap.token, 0)
  <2>1. LeasesAdvance /\ LedgersMove(s)
    BY <1>1, <1>2, <1>4, EffectMoves, Zenon DEF Op
  <2>. QED
    BY <2>1, FailKeeps, Zenon
<1>. QED
  BY <1>3, <1>4, Zenon DEF Retire, BudgetError

(***************************************************************************)
(* The requests begin and end; time passes                                 *)
(***************************************************************************)
LEMMA AcquireKeeps ==
  ASSUME PrimitivesInv, NEW s \in Server, NEW a \in Principal, NEW k \in Scope, NEW h \in Holder,
         NEW e \in LeaseExpiry, NEW t \in undrawn, Acquire(s, a, k, h, e, t)
  PROVE  PrimitivesInv'
<1>1. e \in Nat /\ t \in Token /\ MaxClock \in Nat /\ MaxTTL \in Nat
  BY PrimitivesAssumption DEF LeaseExpiry, PrimitivesInv, PrimitivesTypeOK
<1>2. PICK c : c = [owner |-> a, key |-> k, holder |-> h, expires |-> e, fence |-> 0, token |-> t]
  BY Zenon
<1>3. c \in Capability /\ c.token = t /\ c.owner = a
  BY <1>1, <1>2, Zenon DEF Capability
<1>4. PICK n : n = [step |-> "reserve", old |-> {}, cap |-> c]
  BY Zenon
<1>5. n \in InProgress /\ n.step = "reserve" /\ n.cap = c /\ n.old = {}
  BY <1>3, <1>4, Zenon DEF InProgress, Step
<1>6. /\ request' = [request EXCEPT ![s] = {n}] /\ returned' = returned
      /\ undrawn' = undrawn \ {t} /\ clock' = clock /\ UNCHANGED stores
  BY <1>2, <1>4, Zenon DEF Acquire
<1>7. LeasesAdvance /\ ledger' = ledger /\ undrawn' \in SUBSET undrawn
  BY <1>6, LeasesStay, Zenon DEF stores
<1>8. LedgersMove(s)
  BY <1>6, <1>7, LedgersStay, Zenon
<1>9. OwnToken(s, n)' /\ \A b \in Principal : \A x \in ledger[b] : x.token # t
  BY <1>3, <1>5, <1>6, FreshIsOwn, Zenon
<1>10. SlotInv(n)'
  BY <1>3, <1>5, <1>7, <1>9, Zenon DEF SlotInv
<1>11. StageInv(n)'
  BY <1>5, <1>6, Zenon DEF StageInv
<1>. QED
  BY <1>5, <1>6, <1>7, <1>8, <1>9, <1>10, <1>11, MoveKeeps, Zenon

LEMMA ResumeKeeps ==
  ASSUME PrimitivesInv, NEW s \in Server, NEW c \in returned, NEW d \in Capability,
         d.key = c.key, d.fence = c.fence, NEW step \in {"renew", "release"},
         step = "release" => d = c, Resume(s, c, d, step), UNCHANGED undrawn
  PROVE  PrimitivesInv'
<1>1. c \in Capability
  BY ReturnedFacts, Zenon
<1>2. PICK n : n = [step |-> step, cap |-> d, old |-> {c}]
  BY Zenon
<1>3. n \in InProgress /\ n.step = step /\ n.cap = d /\ n.old = {c}
  BY <1>1, <1>2, Zenon DEF InProgress, Step
<1>4. /\ request' = [request EXCEPT ![s] = {n}] /\ returned' = returned
      /\ clock' = clock /\ UNCHANGED stores
  BY <1>2, Zenon DEF Resume
<1>5. LeasesAdvance /\ ledger' = ledger /\ undrawn' \in SUBSET undrawn
  BY <1>4, LeasesStay, Zenon DEF stores
<1>6. LedgersMove(s)
  BY <1>4, <1>5, LedgersStay, Zenon
<1>7. OwnToken(s, n)' /\ SlotInv(n)'
  BY <1>3, Zenon DEF OwnToken, SlotInv, Drawn
<1>8. StageInv(n)'
  BY <1>3, <1>4, Zenon DEF StageInv
<1>. QED
  BY <1>3, <1>4, <1>5, <1>6, <1>7, <1>8, MoveKeeps, Zenon

LEMMA RenewKeeps ==
  ASSUME PrimitivesInv, NEW s \in Server, NEW c \in returned, NEW e \in LeaseExpiry, Renew(s, c, e)
  PROVE  PrimitivesInv'
<1>1. c \in Capability /\ e \in Nat
  BY ReturnedFacts, PrimitivesAssumption DEF LeaseExpiry
<1>2. PICK d : d = [c EXCEPT !.expires = e]
  BY Zenon
<1>3. d = [owner |-> c.owner, key |-> c.key, holder |-> c.holder, expires |-> e,
           fence |-> c.fence, token |-> c.token]
  BY <1>1, <1>2, Zenon DEF Capability
<1>4. d \in Capability /\ d.key = c.key /\ d.fence = c.fence
  BY <1>1, <1>3, Zenon DEF Capability
<1>5. Resume(s, c, d, "renew") /\ UNCHANGED undrawn
  BY <1>2, Zenon DEF Renew
<1>. QED
  BY <1>4, <1>5, ResumeKeeps, Zenon

LEMMA ReleaseKeeps ==
  ASSUME PrimitivesInv, NEW s \in Server, NEW c \in returned, Release(s, c)
  PROVE  PrimitivesInv'
<1>1. c \in Capability /\ Resume(s, c, c, "release") /\ UNCHANGED undrawn
  BY ReturnedFacts, Zenon DEF Release
<1>. QED
  BY <1>1, ResumeKeeps, Zenon

LEMMA AbandonKeeps ==
  ASSUME PrimitivesInv, NEW s \in Server, Abandon(s)
  PROVE  PrimitivesInv'
<1>1. FailRequest(s) /\ clock' = clock /\ undrawn' = undrawn /\ UNCHANGED stores
  BY Zenon DEF Abandon
<1>. QED
  BY <1>1, LeasesStay, LedgersStay, FailKeeps, Zenon DEF stores

\* Only the clock moves: less is usable, and nothing else depends on it.
LEMMA TickKeeps ==
  ASSUME PrimitivesInv, ClockTick
  PROVE  PrimitivesInv'
<1>. /\ clock' = clock + 1 /\ clock < MaxClock
     /\ UNCHANGED <<lease, issued, ledger, undrawn, request, returned>>
  BY Zenon DEF ClockTick, stores
<1>1. PrimitivesTypeOK' /\ clock \in Nat
  BY PrimitivesAssumption DEF PrimitivesInv, PrimitivesTypeOK
<1>2. LeaseInv' /\ LedgerInv'
  BY Zenon DEF PrimitivesInv, LeaseInv, LedgerInv
<1>3. RequestInv'
  BY DEF PrimitivesInv, RequestInv, OwnToken, SlotInv, StageInv, Faithful, Superseded
<1>4. \A c \in returned : (Usable(c)' => Usable(c)) /\ (HasSlot(c) => HasSlot(c)')
                          /\ (Faithful(c) => Faithful(c)')
  <2>. TAKE c \in returned
  <2>1. c.expires \in Nat
    BY ReturnedFacts, Zenon DEF Capability
  <2>. QED
    BY <1>1, <2>1 DEF Usable, HasSlot, Faithful
<1>5. ReturnedInv'
  BY <1>4, Zenon DEF PrimitivesInv, ReturnedInv
<1>. QED
  BY <1>1, <1>2, <1>3, <1>5, Zenon DEF PrimitivesInv

(***************************************************************************)
(* Theorems                                                                *)
(***************************************************************************)
LEMMA PrimitivesInitially == PrimitivesInit => PrimitivesInv
<1>. SUFFICES ASSUME PrimitivesInit  PROVE PrimitivesInv
  BY Zenon
<1>. /\ clock = 0 /\ lease = [k \in Scope |-> {}] /\ issued = 0
     /\ ledger = [a \in Principal |-> {}] /\ undrawn = Token
     /\ request = [s \in Server |-> {}] /\ returned = {}
  BY Zenon DEF PrimitivesInit
<1>1. PrimitivesTypeOK /\ LeaseInv /\ ReturnedInv /\ RequestInv
  BY Zenon DEF PrimitivesTypeOK, LeaseInv, ReturnedInv, RequestInv
<1>2. Bounded({})
  BY FS_EmptySet, SlotAssumption DEF Bounded
<1>3. LedgerInv
  BY <1>2, Zenon DEF LedgerInv
<1>. QED
  BY <1>1, <1>3, Zenon DEF PrimitivesInv

LEMMA PrimitivesStep ==
  ASSUME PrimitivesInv, [PrimitivesNext]_primitivesVars
  PROVE  PrimitivesInv'
<1>1. ASSUME NEW s \in Server, Begin(s)  PROVE PrimitivesInv'
  BY <1>1, AcquireKeeps, RenewKeeps, ReleaseKeeps, Zenon DEF Begin
<1>2. ASSUME NEW s \in Server, NEW r \in request[s], Serve(s, r)  PROVE PrimitivesInv'
  BY <1>2, ReserveKeeps, AcquireLeaseKeeps, SealKeeps, CommitKeeps, CancelKeeps,
     RenewLeaseKeeps, ResealKeeps, ReplaceKeeps, ReleaseLeaseKeeps, RetireKeeps, Zenon DEF Serve
<1>3. CASE UNCHANGED primitivesVars
  BY <1>3 DEF primitivesVars, stores, PrimitivesInv, PrimitivesTypeOK, LeaseInv, LedgerInv,
     ReturnedInv, RequestInv,
     OwnToken, SlotInv, StageInv, Faithful, Superseded, Usable, HasSlot
<1>. QED
  BY <1>1, <1>2, <1>3, AbandonKeeps, TickKeeps, Zenon DEF PrimitivesNext

\* The inductive invariant of the service.
THEOREM PrimitivesInvariant == PrimitivesSpec => []PrimitivesInv
<1>1. PrimitivesInit => PrimitivesInv
  BY PrimitivesInitially, Zenon
<1>2. PrimitivesInv /\ [PrimitivesNext]_primitivesVars => PrimitivesInv'
  BY PrimitivesStep, Zenon
<1>. QED
  BY <1>1, <1>2, PTL DEF PrimitivesSpec

\* The usable capabilities of a principal inject into the principal's slots.
LEMMA UsableFit ==
  ASSUME PrimitivesInv, NEW a \in Principal
  PROVE  Cardinality({c \in returned : c.owner = a /\ Usable(c)}) <= Limit
<1> DEFINE U == {c \in returned : c.owner = a /\ Usable(c)}
           slot(c) == CHOOSE x \in ledger[a] : x.token = c.token
           f == [c \in U |-> slot(c)]
<1>1. Bounded(ledger[a])
  BY Zenon DEF PrimitivesInv, LedgerInv
<1>2. \A c \in U : slot(c) \in ledger[a] /\ slot(c).token = c.token
  BY ReturnedFacts, Zenon DEF HasSlot
<1>3. f \in Injection(U, ledger[a])
  <2>1. f \in [U -> ledger[a]]
    BY <1>2, Zenon
  <2>2. ASSUME NEW c \in U, NEW d \in U, f[c] = f[d]  PROVE c = d
    <3>1. c.token = d.token
      BY <1>2, <2>2, Zenon
    <3>. QED
      BY <3>1, Zenon DEF PrimitivesInv, ReturnedInv
  <2>. QED
    BY <2>1, <2>2, Zenon DEF Injection, IsInjective
<1>4. IsFiniteSet(U) /\ Cardinality(U) <= Cardinality(ledger[a])
  BY <1>1, <1>3, FS_Injection, Zenon DEF Bounded
<1>5. Cardinality(U) \in Nat /\ Cardinality(ledger[a]) \in Nat /\ Limit \in Nat
  BY <1>1, <1>4, FS_CardinalityType, SlotAssumption, Zenon DEF Bounded
<1>. QED
  BY <1>1, <1>4, <1>5 DEF Bounded

\* Every capability that a client can still use has an active slot of its
\* own in its principal's ledger, and there are at most Limit of them.
THEOREM UsableAreCounted == PrimitivesSpec => []UsableIsCounted
<1>1. PrimitivesInv => UsableIsCounted
  <2>. SUFFICES ASSUME PrimitivesInv  PROVE UsableIsCounted
    BY Zenon
  <2>1. UsableIsAccounted
    BY ReturnedFacts, Zenon DEF UsableIsAccounted, HasSlot
  <2>2. UsableIsBounded
    BY UsableFit, Zenon DEF UsableIsBounded
  <2>. QED
    BY <2>1, <2>2, Zenon DEF UsableIsCounted
<1>. QED
  BY <1>1, PrimitivesInvariant, PTL

\* A lease changes when an acquisition is granted, or when a renewal or a
\* release wins its compare-and-set.
Touched ==
  \E s \in Server : \E r \in request[s] :
    \/ clock' = clock /\ Granted(r.cap)
    \/ /\ r.step \in {"renew", "release"}
       /\ \E e \in Nat, b \in BOOLEAN : Mutated(r.cap, e, b)

LEMMA WhoTouches ==
  ASSUME PrimitivesInv, [PrimitivesNext]_primitivesVars
  PROVE  lease' = lease \/ Touched
<1>1. ASSUME NEW s \in Server, Begin(s)  PROVE lease' = lease
  BY <1>1, Zenon DEF Begin, Acquire, Renew, Release, Resume, stores
<1>2. ASSUME NEW s \in Server, NEW r \in request[s], Serve(s, r)  PROVE lease' = lease \/ Touched
  <2>1. r.cap.expires \in Nat
    BY RequestFacts, Zenon DEF Capability
  <2>2. CASE ReserveToken(s, r) \/ Commit(s, r) \/ Cancel(s, r) \/ ReplaceToken(s, r) \/ Retire(s, r)
    BY <2>2, Zenon DEF ReserveToken, Commit, Cancel, ReplaceToken, Retire, BudgetError,
       BudgetEffect, stores
  <2>3. CASE Seal(s, r) \/ \E t \in undrawn : Reseal(s, r, t)
    BY <2>3, Zenon DEF Seal, Reseal, stores
  <2>4. CASE AcquireLease(s, r)
    <3>1. clock' = clock /\ (Granted(r.cap) \/ lease' = lease)
      BY <2>4, Zenon DEF AcquireLease, stores
    <3>. QED
      BY <3>1, Zenon DEF Touched
  <2>5. CASE RenewLease(s, r)
    <3>1. r.step = "renew" /\ (Mutated(r.cap, r.cap.expires, FALSE) \/ lease' = lease)
      BY <2>5, Zenon DEF RenewLease, stores
    <3>. QED
      BY <2>1, <3>1, Zenon DEF Touched
  <2>6. CASE ReleaseLease(s, r)
    <3>1. r.step = "release" /\ (Mutated(r.cap, r.cap.expires, TRUE) \/ lease' = lease)
      BY <2>6, Zenon DEF ReleaseLease, stores
    <3>. QED
      BY <2>1, <3>1, Zenon DEF Touched
  <2>. QED
    BY <1>2, <2>2, <2>3, <2>4, <2>5, <2>6, Zenon DEF Serve
<1>. QED
  BY <1>1, <1>2, Zenon DEF PrimitivesNext, Abandon, ClockTick, primitivesVars, stores

\* One step of the service ends the use of c only by the request of a client
\* with the same fencing token.
LEMMA OwnRequestEnds ==
  ASSUME PrimitivesInv, [PrimitivesNext]_primitivesVars, NEW c \in returned,
         Usable(c), c.expires > clock', ~Usable(c)'
  PROVE  \E s \in Server : \E r \in request[s] :
           r.step \in {"renew", "release"} /\ \E o \in r.old : o.fence = c.fence
<1>1. PICK l \in lease[c.key] : l.fence = c.fence /\ ~l.released
  BY Zenon DEF Usable
<1>2. /\ c \in Capability /\ c.key \in Scope /\ c.expires \in Nat /\ l.expires = c.expires
      /\ clock \in Nat /\ lease \in [Scope -> SUBSET Lease]
  BY <1>1, ReturnedFacts, Zenon DEF Faithful, Capability, PrimitivesInv, PrimitivesTypeOK
<1>3. \A m \in lease[c.key] : m = l
  BY <1>1, <1>2, Zenon DEF PrimitivesInv, LeaseInv
<1>4. lease'[c.key] # lease[c.key]
  BY <1>1, Zenon DEF Usable
<1>5. PICK s \in Server : \E r \in request[s] :
        \/ clock' = clock /\ Granted(r.cap)
        \/ /\ r.step \in {"renew", "release"}
           /\ \E e \in Nat, b \in BOOLEAN : Mutated(r.cap, e, b)
  BY <1>4, WhoTouches, Zenon DEF Touched
<1>6. PICK r \in request[s] :
        \/ clock' = clock /\ Granted(r.cap)
        \/ /\ r.step \in {"renew", "release"}
           /\ \E e \in Nat, b \in BOOLEAN : Mutated(r.cap, e, b)
  BY <1>5, Zenon
<1>7. r.cap.key \in Scope /\ StageInv(r)
  BY RequestFacts, Zenon
<1>8. c.key = r.cap.key
  <2>1. PICK x : Stored(r.cap.key, x)
    BY <1>6, Zenon DEF Granted, Mutated
  <2>. QED
    BY <1>2, <1>4, <1>7, <2>1, Zenon DEF Stored
<1>9. ~(clock' = clock /\ Granted(r.cap))
  BY <1>1, <1>2, <1>8 DEF Granted
<1>10. r.step \in {"renew", "release"} /\ l.fence = r.cap.fence
  BY <1>3, <1>6, <1>8, <1>9, Zenon DEF Mutated
<1>11. PICK o \in r.old : o.fence = r.cap.fence
  BY <1>7, <1>10, Zenon DEF StageInv
<1>. QED
  BY <1>1, <1>10, <1>11, Zenon

\* Nobody else's request takes a lease from a client.
THEOREM OwnRequestsEndLeases == PrimitivesSpec => OnlyOwnRequestEndsLease
<1>1. PrimitivesInv /\ [PrimitivesNext]_primitivesVars =>
        [\A c \in returned :
           Usable(c) /\ c.expires > clock' /\ ~Usable(c)' =>
             \E s \in Server : \E r \in request[s] :
               r.step \in {"renew", "release"} /\ \E o \in r.old : o.fence = c.fence]_primitivesVars
  BY OwnRequestEnds, Zenon
<1>. QED
  BY <1>1, PrimitivesInvariant, PTL DEF PrimitivesSpec, OnlyOwnRequestEndsLease
=============================================================================
