----------------------------- MODULE BudgetLedger -----------------------------
(***************************************************************************)
(* What coordination.CapabilityBudget promises: a bounded set of slots per *)
(* principal, changed by one operation at a time, from which slots vanish  *)
(* only once they have expired.  internal/coordination/memory/budget.go is *)
(* this ledger under a mutex; a ledger kept in a bucket judges expiry at   *)
(* the moment it read the bucket, which is earlier than the write.         *)
(***************************************************************************)
EXTENDS BudgetSlots

CONSTANTS
  Principal,
  Expiry      \* the lease expiries callers ask for

VARIABLES
  ledger,  \* ledger[k]: the slots of principal k
  now

vars == <<ledger, now>>

Init ==
  /\ ledger = [k \in Principal |-> {}]
  /\ now = 0

\* The requests that callers make.
Asked == {q \in [op: Op, token: Token, next: Token, expires: Expiry \cup {0}] :
            q.op \in {"reserve", "replace"} \/ q.expires = 0}

Mutate(k, q, t) ==
  /\ \E v \in Results(ledger[k], q, t) : ledger' = [ledger EXCEPT ![k] = v]
  /\ UNCHANGED now

\* Expired slots may be forgotten at any time.
PruneLedger ==
  /\ now' \in {now, now + 1}
  /\ DOMAIN ledger' = Principal
  /\ \A k \in Principal : ledger'[k] \in {ledger[k], Prune(ledger[k], now')}

Next ==
  /\ vars' # vars
  /\ \/ PruneLedger
     \/ \E k \in Principal, q \in Asked, t \in 0..now : Mutate(k, q, t)

Spec == Init /\ [][Next]_vars

\* Pending and active slots together never exceed the configured maximum,
\* and every token has at most one slot.
LimitHolds ==
  \A k \in Principal :
    /\ Cardinality(ledger[k]) <= Limit
    /\ \A s, r \in ledger[k] : s.token = r.token => s = r
=============================================================================
