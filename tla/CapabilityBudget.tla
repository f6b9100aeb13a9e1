--------------------------- MODULE CapabilityBudget ---------------------------
(***************************************************************************)
(* The capability ledger of internal/coordination/jetstreamkv/budget.go.   *)
(* The ledger of a principal is one bucket entry, a set of slots (the code *)
(* sorts the slots by token before it writes them).  Every operation reads *)
(* the entry, prunes it, changes it, writes it back at the revision it     *)
(* read, and reconciles a failed write by one read.  The clock counts      *)
(* ticks finer than a millisecond; only whole milliseconds can be read     *)
(* back from a ledger.                                                     *)
(***************************************************************************)
EXTENDS KVBucket, BudgetSlots

CONSTANTS
  Proc,         \* the callers
  MaxLifetime,  \* the longest lease the service asks a slot for
  Expiry,       \* the lease expiries callers ask for
  Millisecond   \* clock ticks in a millisecond

ASSUME BudgetAssumption ==
  /\ Millisecond \in Nat \ {0}
  /\ MaxLifetime \in Nat \ {0}
  /\ MaxLifetime < Retention
  /\ Expiry \subseteq Nat

VARIABLES
  call,    \* call[p]: {} or the operation p is executing
  fresh,   \* the tokens not drawn yet
  done     \* the operations that were reported successful

vars == <<bucketVars, call, fresh, done>>

Call == [pc: {"read", "write", "reconcile"}, key: Key, request: BudgetRequest,
         revision: Nat, value: SUBSET Slot]

TypeOK ==
  /\ BucketTypeOK(Op, SUBSET Slot)
  /\ call \in [Proc -> SUBSET Call]
  /\ fresh \in SUBSET Token
  /\ done \in SUBSET [key: Key, request: BudgetRequest]

Init ==
  /\ BucketInit
  /\ call = [p \in Proc |-> {}]
  /\ fresh = Token
  /\ done = {}

(***************************************************************************)
(* decodeBudget                                                            *)
(***************************************************************************)
Truncated(t) == t % Millisecond = 0

DecodesSlot(s) ==
  /\ Truncated(s.expires) /\ Truncated(s.lease)
  /\ s.phase = "active" => s.expires = s.lease
  /\ s.phase = "pending" => s.expires <= s.lease

Decodes(v) == \A s \in v : DecodesSlot(s)

(***************************************************************************)
(* mutate                                                                  *)
(***************************************************************************)
Fail(p) == call' = [call EXCEPT ![p] = {}] /\ UNCHANGED <<fresh, done>>

Succeed(p, c) ==
  /\ call' = [call EXCEPT ![p] = {}]
  /\ done' = done \cup {[key |-> c.key, request |-> c.request]}
  /\ UNCHANGED fresh

Continue(p, c) == call' = [call EXCEPT ![p] = {c}] /\ UNCHANGED <<fresh, done>>

\* decode, prune and change the entry at r (0: there is none).
ReadEntry(p, c, r) ==
  LET v == IF r = 0 THEN {} ELSE log[r].value
      next == IF Decodes(v) THEN Results(v, c.request, now) ELSE {}
  IN  \/ next = {} /\ Fail(p)
      \/ \E w \in next :
           Continue(p, [c EXCEPT !.pc = "write", !.revision = r, !.value = w])

Read(p, c) ==
  /\ c.pc = "read"
  /\ \/ Fail(p)
     \/ \E r \in 0..Len(log) : Get(c.key, r) /\ ReadEntry(p, c, r)
  /\ UNCHANGED bucketVars

WriteOverLatest(c) ==
  LET last == CHOOSE r \in 0..Len(log) : Latest(Len(log), c.key, r)
  IN  [op |-> c.request.op, key |-> c.key, expect |-> last, value |-> c.value]

Write(c) == [op |-> c.request.op, key |-> c.key, expect |-> c.revision, value |-> c.value]

WriteBack(p, c) ==
  /\ c.pc = "write"
  /\ \/ Accept(Write(c)) /\ Succeed(p, c)
     \/ /\ Refuse(Write(c)) \/ Ambiguous(Write(c))
        /\ Continue(p, [c EXCEPT !.pc = "reconcile"])

Reconciled(c, r) == r > c.revision /\ log[r].value = c.value

Reconcile(p, c) ==
  /\ c.pc = "reconcile"
  /\ \/ Fail(p)
     \/ \E r \in 1..Len(log) : Get(c.key, r) /\ Reconciled(c, r) /\ Succeed(p, c)
  /\ UNCHANGED bucketVars

(***************************************************************************)
(* The calls                                                               *)
(***************************************************************************)
Start(p, k, q) ==
  /\ call[p] = {}
  /\ call' = [call EXCEPT ![p] = {[pc |-> "read", key |-> k, request |-> q,
                                   revision |-> 0, value |-> {}]}]
  /\ UNCHANGED <<bucketVars, done>>

ValidExpiryNoMaximum(e) == Truncated(e) /\ now < e

ValidExpiry(e) == Truncated(e) /\ now < e /\ e <= now + MaxLifetime

\* Reserve and Replace bring a token drawn for this call.
Reserve(p, k, t, e) ==
  /\ ValidExpiry(e)
  /\ fresh' = fresh \ {t}
  /\ Start(p, k, [op |-> "reserve", token |-> t, next |-> t, expires |-> e])

Replace(p, k, old, t, e) ==
  /\ ValidExpiry(e)
  /\ fresh' = fresh \ {t}
  /\ Start(p, k, [op |-> "replace", token |-> old, next |-> t, expires |-> e])

\* Commit, Cancel and Retire name a token drawn before.
Settle(p, op, k, t) ==
  /\ UNCHANGED fresh
  /\ Start(p, k, [op |-> op, token |-> t, next |-> t, expires |-> 0])

Caller(p) ==
  \/ \E k \in Key, t \in fresh, e \in Expiry : Reserve(p, k, t, e)
  \/ \E k \in Key, o \in Token \ fresh, t \in fresh, e \in Expiry : Replace(p, k, o, t, e)
  \/ \E op \in {"commit", "cancel", "retire"}, k \in Key, t \in Token \ fresh :
       Settle(p, op, k, t)
  \/ \E c \in call[p] : Read(p, c)
  \/ \E c \in call[p] : WriteBack(p, c)
  \/ \E c \in call[p] : Reconcile(p, c)

Next ==
  \/ \E p \in Proc : Caller(p)
  \/ BucketNext /\ UNCHANGED <<call, fresh, done>>

Spec == Init /\ [][Next]_vars

(***************************************************************************)
(* Properties                                                              *)
(***************************************************************************)

\* The ledger of principal k as an up-to-date reader sees it.
LedgerOf(k) ==
  UNION {log[r].value : r \in {i \in 1..Len(log) : Latest(Len(log), k, i)}}

Ledger == INSTANCE BudgetLedger WITH
  Principal <- Key,
  ledger <- [k \in Key |-> LedgerOf(k)]

\* The bucket implements the ledger: every accepted write is one operation
\* on the slots it replaces, judged at some earlier moment; no concurrent
\* update is lost, and retention drops only ledgers that have expired.
ImplementsLedger == Ledger!Spec

\* Pending and active slots of a principal together stay within the
\* configured maximum, and a token has one slot, whoever writes.
LimitHolds == Ledger!LimitHolds

\* A slot whose Commit or Replace was reported successful is in the ledger
\* until it expires or a write took it out on purpose: no write by another
\* caller, no stray write and no reconciliation loses it.
ReportedSlotLives ==
  \A d \in done : \A j \in 1..Len(log) : \A s \in log[j].value :
    /\ d.request.op \in {"commit", "replace"}
    /\ d.key = log[j].key /\ s.token = d.request.next /\ s.phase = "active"
    => \/ s \in LedgerOf(d.key)
       \/ s.expires <= now
       \/ \E i \in 1..Len(log) : /\ log[i].key = d.key
                                 /\ log[i].op \in {"replace", "retire"}
                                 /\ log[i].expect >= j

\* The ledger stays within its limit and loses nothing it has reported.
LedgerIsSound == LimitHolds /\ ReportedSlotLives

\* Every slot the ledger holds can be read back: a record that a caller was
\* able to write does not lock its principal out until the bucket forgets
\* it.
LedgerReadable == \A k \in Key : Decodes(LedgerOf(k))
=============================================================================
