----------------------------- MODULE FencedLease -----------------------------
(***************************************************************************)
(* The fenced lease store of internal/coordination/jetstreamkv/store.go    *)
(* over a JetStream bucket.  A process runs one call at a time: Acquire,   *)
(* and Renew and Release of the lease object it holds (the object's mutex  *)
(* serialises them).  The fencing token of a lease is the revision of the  *)
(* bucket entry that granted it.  A token, once returned, is carried by a  *)
(* client, so any process can Resume it later.                             *)
(***************************************************************************)
EXTENDS KVBucket

CONSTANTS
  Proc,         \* the processes that call the store
  Holder,       \* holder digests
  MaxLifetime   \* Config.MaxLifetime

ASSUME LeaseAssumption ==
  /\ MaxLifetime \in Nat \ {0}
  /\ MaxLifetime < Retention

VARIABLES
  call,     \* call[p]: the call p is executing, {} when there is none
  handle,   \* handle[p]: the lease object of p, {} when there is none
  granted   \* every (key, value, token) a caller was told it owns

vars == <<bucketVars, call, handle, granted>>

Op == {"acquire", "renew", "release"}

Value == [holder: Holder, expires: Nat, released: BOOLEAN]

\* NewLeaseResumeValue refuses a fencing token of 0.
Token == Nat \ {0}

\* A lease object, and what a resume value says of it.
Grant == [key: Key, value: Value, token: Token]

Call == [pc: {"create", "lookup", "update", "reconcile"}, op: Op, key: Key,
         value: Value, previous: Nat, exists: BOOLEAN]

TypeOK ==
  /\ BucketTypeOK(Op, Value)
  /\ call \in [Proc -> SUBSET Call]
  /\ handle \in [Proc -> SUBSET Grant]
  /\ granted \in SUBSET Grant

Init ==
  /\ BucketInit
  /\ call = [p \in Proc |-> {}]
  /\ handle = [p \in Proc |-> {}]
  /\ granted = {}

(***************************************************************************)
(* Helpers                                                                 *)
(***************************************************************************)
\* The expiries callers may ask for, too early and too late ones included.
Expiry == 0..(MaxTime + Retention)

ValidExpiryNoMaximum(e) == now < e

ValidExpiry(e) == now < e /\ e <= now + MaxLifetime

\* Held by somebody at this moment, as Acquire judges the entry it read.
Running(v) == ~v.released /\ v.expires > now

\* The call of p returns an error: ErrConflict or ErrUnavailable.
Fail(p) ==
  /\ call' = [call EXCEPT ![p] = {}]
  /\ UNCHANGED <<handle, granted>>

\* The call c of p returns success at revision r.
Succeed(p, c, r) ==
  LET held == [key |-> c.key, value |-> c.value, token |-> r]
  IN  /\ call' = [call EXCEPT ![p] = {}]
      /\ handle' = [handle EXCEPT ![p] = {held}]
      /\ granted' = IF c.op = "release" THEN granted ELSE granted \cup {held}

\* The call of p goes on as c.
Continue(p, c) ==
  /\ call' = [call EXCEPT ![p] = {c}]
  /\ UNCHANGED <<handle, granted>>

Write(c) == [op |-> c.op, key |-> c.key, expect |-> c.previous, value |-> c.value]

(***************************************************************************)
(* Acquire                                                                 *)
(***************************************************************************)
Acquire(p, k, h, e) ==
  /\ call[p] = {}
  /\ handle[p] = {}
  /\ ValidExpiry(e)
  /\ Continue(p, [pc |-> "create", op |-> "acquire", key |-> k, previous |-> 0,
                  value |-> [holder |-> h, expires |-> e, released |-> FALSE],
                  exists |-> FALSE])
  /\ UNCHANGED bucketVars

Create(p, c) ==
  /\ c.pc = "create"
  /\ \/ Accept(Write(c)) /\ Succeed(p, c, Len(log) + 1)
     \/ Refuse(Write(c)) /\ Continue(p, [c EXCEPT !.pc = "lookup", !.exists = TRUE])
     \/ Ambiguous(Write(c)) /\ Continue(p, [c EXCEPT !.pc = "lookup"])

LookupTakesAnyLease(p, c, r) ==
  \/ ~c.exists /\ log[r].value = c.value /\ Succeed(p, c, r)
  \/ Continue(p, [c EXCEPT !.pc = "update", !.previous = r, !.exists = FALSE])

\* The entry read after a failed Create: reconcile an ambiguous Create, give
\* way to a running lease, or replace a released or expired one.
LookupReads(p, c, r) ==
  LET own == ~c.exists /\ log[r].value = c.value
  IN  \/ own /\ Succeed(p, c, r)
      \/ ~own /\ Running(log[r].value) /\ Fail(p)
      \/ ~own /\ ~Running(log[r].value)
             /\ Continue(p, [c EXCEPT !.pc = "update", !.previous = r,
                                     !.exists = FALSE])

Lookup(p, c) ==
  /\ c.pc = "lookup"
  /\ \/ Fail(p)
     \/ \E r \in 1..Len(log) : Get(c.key, r) /\ LookupReads(p, c, r)
  /\ UNCHANGED bucketVars

(***************************************************************************)
(* Update and its reconciliation, shared by Acquire, Renew and Release     *)
(***************************************************************************)
Update(p, c) ==
  /\ c.pc = "update"
  /\ \/ Accept(Write(c)) /\ Succeed(p, c, Len(log) + 1)
     \/ /\ Refuse(Write(c)) \/ Ambiguous(Write(c))
        /\ Continue(p, [c EXCEPT !.pc = "reconcile"])

\* The mutation is taken for done when the entry is newer than the one it
\* replaced and holds exactly the bytes it wrote.
Reconciled(c, r) == r > c.previous /\ log[r].value = c.value

ReconcileLeaseMutation(p, c) ==
  /\ c.pc = "reconcile"
  /\ \/ Fail(p)
     \/ \E r \in 1..Len(log) : Get(c.key, r) /\ Reconciled(c, r) /\ Succeed(p, c, r)
  /\ UNCHANGED bucketVars

(***************************************************************************)
(* Operations on a lease object                                            *)
(***************************************************************************)
Mutation(op, h, v) ==
  [pc |-> "update", op |-> op, key |-> h.key, value |-> v,
   previous |-> h.token, exists |-> FALSE]

RenewAfterRelease(p, h, e) ==
  /\ call[p] = {}
  /\ ValidExpiry(e)
  /\ Continue(p, Mutation("renew", h, [h.value EXCEPT !.expires = e]))
  /\ UNCHANGED bucketVars

Renew(p, h, e) ==
  /\ call[p] = {}
  /\ ~h.value.released
  /\ ValidExpiry(e)
  /\ Continue(p, Mutation("renew", h, [h.value EXCEPT !.expires = e]))
  /\ UNCHANGED bucketVars

Release(p, h) ==
  /\ call[p] = {}
  /\ ~h.value.released
  /\ Continue(p, Mutation("release", h, [h.value EXCEPT !.released = TRUE]))
  /\ UNCHANGED bucketVars

\* The entry at r is the lease g, and g has time left.
Resumable(g, r) ==
  /\ r = g.token
  /\ log[r].value = g.value
  /\ Running(g.value)

Resume(p, g) ==
  /\ call[p] = {}
  /\ handle[p] = {}
  /\ \E r \in 1..Len(log) : Get(g.key, r) /\ Resumable(g, r)
  /\ handle' = [handle EXCEPT ![p] = {g}]
  /\ UNCHANGED <<bucketVars, call, granted>>

\* The process drops its lease object, or stops in the middle of a call.
Discard(p) ==
  /\ call[p] # {} \/ handle[p] # {}
  /\ call' = [call EXCEPT ![p] = {}]
  /\ handle' = [handle EXCEPT ![p] = {}]
  /\ UNCHANGED <<bucketVars, granted>>

InspectAnyLaterRelease(g, r) ==
  LET same == r > 0 /\ log[r].value.holder = g.value.holder
                    /\ log[r].value.expires = g.value.expires
  IN  IF same /\ log[r].value.released THEN "released" ELSE "stale"

\* What Inspect reports of the lease g from the entry at r.
Inspect(g, r) ==
  LET same == r > 0 /\ log[r].value.holder = g.value.holder
                    /\ log[r].value.expires = g.value.expires
  IN  IF ~same THEN "stale"
      ELSE IF log[r].value.released
           THEN IF r = g.token + 1 THEN "released" ELSE "stale"
           ELSE IF r # g.token THEN "stale"
                ELSE IF g.value.expires > now THEN "valid" ELSE "expired"

(***************************************************************************)
(* Specification                                                           *)
(***************************************************************************)
Bucket == BucketNext /\ UNCHANGED <<call, handle, granted>>

Caller(p) ==
  \/ \E k \in Key, h \in Holder, e \in Expiry : Acquire(p, k, h, e)
  \/ \E c \in call[p] : Create(p, c)
  \/ \E c \in call[p] : Lookup(p, c)
  \/ \E c \in call[p] : Update(p, c)
  \/ \E c \in call[p] : ReconcileLeaseMutation(p, c)
  \/ \E h \in handle[p], e \in Expiry : Renew(p, h, e)
  \/ \E h \in handle[p] : Release(p, h)
  \/ \E g \in granted : Resume(p, g)
  \/ Discard(p)

Next == Bucket \/ \E p \in Proc : Caller(p)

Spec == Init /\ [][Next]_vars

(***************************************************************************)
(* Properties                                                              *)
(***************************************************************************)

\* The entry at j replaced the entry at i.
Replaced(i, j) ==
  /\ i < j
  /\ log[i].key = log[j].key
  /\ \A m \in (i + 1)..(j - 1) : log[m].key # log[j].key

\* A lease is taken over only once it was released or its time had run out
\* when the new grant was written, however late that write reached the
\* bucket, whichever replica answered the read that allowed it, and even
\* when the bucket had already dropped the entry of the old lease.
RunningLeaseNotTaken ==
  \A i, j \in 1..Len(log) :
    Replaced(i, j) /\ log[j].op = "acquire" =>
      log[i].value.released \/ log[i].value.expires <= log[j].at

\* Renew and Release write only on top of the entry they were granted, for
\* the same holder, and never on top of a release: the writer that lost the
\* lease cannot change the one that replaced it.
OnlyOwnerMutates ==
  \A j \in 1..Len(log) :
    LET i == log[j].expect
    IN  log[j].op # "acquire" =>
          /\ i \in 1..(j - 1)
          /\ log[i].key = log[j].key
          /\ log[i].value.holder = log[j].value.holder
          /\ ~log[i].value.released

\* Two callers that were told the same fencing token were told the same
\* lease: reconciliation after an ambiguous answer never hands a token to
\* the owner of another key, holder or expiry.
TokenNamesOneLease ==
  \A g, h \in granted : g.token = h.token => g = h

\* Inspect answers "released" for a token only when that very lease was
\* released by its owner, and not when a later lease of the same holder was.
ReleasedVerdictIsTrue ==
  \A g \in granted : \A r \in 1..Len(log) :
    Get(g.key, r) /\ Inspect(g, r) = "released" =>
      log[r].op = "release" /\ log[r].expect = g.token

\* What a token says is true: it names one lease, and the verdict about that
\* lease is right.
TokensAreTrue == TokenNamesOneLease /\ ReleasedVerdictIsTrue

\* The lease of key k as an up-to-date reader sees it.
LeaseOf(k) ==
  {[holder |-> log[r].value.holder, expires |-> log[r].value.expires,
    released |-> log[r].value.released, token |-> r] :
     r \in {i \in 1..Len(log) : Latest(Len(log), k, i)}}

Table == INSTANCE LeaseTable WITH
  lease <- [k \in Key |-> LeaseOf(k)],
  issued <- Len(log)

\* The bucket adapter implements the lease table: every accepted write is a
\* legal grant, renewal or release of the lease of its key, and nothing else
\* ever changes a lease.
ImplementsLeaseTable == Table!Spec
=============================================================================
