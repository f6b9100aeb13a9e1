----------------------------- MODULE BudgetSlots -----------------------------
(***************************************************************************)
(* The slots of a capability ledger and what the five operations of        *)
(* coordination.CapabilityBudget make of them.  budget.go of jetstreamkv   *)
(* and of memory both compute this.                                        *)
(***************************************************************************)
EXTENDS Integers, FiniteSets

CONSTANTS
  Token,       \* capability token IDs
  Limit,       \* the configured maximum of slots
  PendingTTL   \* how long a pending slot lives

ASSUME SlotAssumption ==
  /\ Limit \in Nat \ {0}
  /\ PendingTTL \in Nat \ {0}

Slot == [token: Token, expires: Nat, lease: Nat, phase: {"pending", "active"}]

(***************************************************************************)
(* What each operation makes of the slots v at time t; no result when it   *)
(* refuses                                                                 *)
(***************************************************************************)
Prune(v, t) == {s \in v : s.expires > t}

Find(v, token) == {s \in v : s.token = token}

Phase(v, token, phase) == {s \in Find(v, token) : s.phase = phase}

Earlier(a, b) == IF a <= b THEN a ELSE b

Pending(token, e, t) ==
  [token |-> token, expires |-> Earlier(t + PendingTTL, e), lease |-> e, phase |-> "pending"]

Active(token, e) == [token |-> token, expires |-> e, lease |-> e, phase |-> "active"]

ReserveSlot(v, token, e, t) ==
  {w \in {v \cup {Pending(token, e, t)}} : Find(v, token) = {} /\ Cardinality(v) < Limit}

CommitKeepsPendingExpiry(v, token) ==
  {(v \ {s}) \cup {[s EXCEPT !.phase = "active"]} : s \in Phase(v, token, "pending")}

CommitSlot(v, token) ==
  {(v \ {s}) \cup {Active(token, s.lease)} : s \in Phase(v, token, "pending")}

CancelSlot(v, token) == {v \ {s} : s \in Phase(v, token, "pending")}

ReplaceSlot(v, old, token, e) ==
  {(v \ {s}) \cup {Active(token, e)} :
     s \in {x \in Phase(v, old, "active") : Find(v, token) = {}}}

RetireSlot(v, token) == {v \ {s} : s \in Phase(v, token, "active")}

\* A request names the token it is about, and for reserve and replace the
\* new token and the lease expiry.
Op == {"reserve", "commit", "cancel", "replace", "retire"}

BudgetRequest == [op: Op, token: Token, next: Token, expires: Nat]

Results(v, q, t) ==
  LET kept == Prune(v, t)
  IN  CASE q.op = "reserve" -> ReserveSlot(kept, q.next, q.expires, t)
        [] q.op = "commit"  -> CommitSlot(kept, q.token)
        [] q.op = "cancel"  -> CancelSlot(kept, q.token)
        [] q.op = "replace" -> ReplaceSlot(kept, q.token, q.next, q.expires)
        [] q.op = "retire"  -> RetireSlot(kept, q.token)
=============================================================================
