----------------------------- MODULE LeaseTable -----------------------------
(***************************************************************************)
(* What coordination.FencedLeaseStore promises its users: one lease per    *)
(* key, given away only when it is free, and a token that grows with every *)
(* change of any lease.  It says nothing of buckets, retries or callers.   *)
(***************************************************************************)
EXTENDS Integers

CONSTANTS Key, Holder, Expiry

VARIABLES
  lease,   \* lease[k]: {} or the set of the one lease of key k
  issued,  \* the last token issued
  now

vars == <<lease, issued, now>>

Lease == [holder: Holder, expires: Expiry, released: BOOLEAN, token: Nat]

Free(k) == \A l \in lease[k] : l.released \/ l.expires <= now

Init ==
  /\ lease = [k \in Key |-> {}]
  /\ issued = 0
  /\ now = 0

\* The lease of k becomes that of holder h until e, given back when gone.
Put(k, h, e, gone) ==
  lease' = [lease EXCEPT ![k] = {[holder |-> h, expires |-> e, released |-> gone,
                                  token |-> issued + 1]}]

GrantLease(k, h, e) == Free(k) /\ Put(k, h, e, FALSE)

RenewLease(k, l, e) == ~l.released /\ Put(k, l.holder, e, FALSE)

ReleaseLease(k, l) == ~l.released /\ Put(k, l.holder, l.expires, TRUE)

\* Every change of a lease gets the next token.
Change ==
  /\ issued' = issued + 1
  /\ UNCHANGED now
  /\ \/ \E k \in Key, h \in Holder, e \in Expiry : GrantLease(k, h, e)
     \/ \E k \in Key, e \in Expiry : \E l \in lease[k] : RenewLease(k, l, e)
     \/ \E k \in Key : \E l \in lease[k] : ReleaseLease(k, l)

\* Time passes; a lease whose time has run out may be forgotten.
Pass ==
  /\ now' = now + 1
  /\ \A k \in Key : \/ lease'[k] = lease[k]
                    \/ lease'[k] = {} /\ \A l \in lease[k] : l.expires <= now'
  /\ DOMAIN lease' = Key
  /\ UNCHANGED issued

Next == Change \/ Pass

Spec == Init /\ [][Next]_vars
=============================================================================
