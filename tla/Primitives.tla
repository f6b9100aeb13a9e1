------------------------------ MODULE Primitives ------------------------------
(***************************************************************************)
(* The primitives service of internal/primitives/service.go: it composes   *)
(* the fenced lease store and the capability ledger, and returns sealed    *)
(* capabilities to clients.  The two stores are used through what they     *)
(* promise (LeaseTable, BudgetLedger), with every answer they may give: an *)
(* operation that reports an error may have taken effect, and a lease      *)
(* mutation that finds its own bytes already stored reports success.       *)
(* A request is a sequence of store calls and can stop after any of them.  *)
(***************************************************************************)
EXTENDS BudgetSlots

CONSTANTS
  Server,     \* concurrent requests
  Principal,  \* authenticated callers
  Scope,      \* lease scopes
  Holder,     \* holder digests
  MaxTTL,     \* Service.maxTTL
  MaxClock,   \* bound on the clock
  MaxIssued   \* bound on the number of lease mutations

ASSUME PrimitivesAssumption ==
  /\ MaxTTL \in Nat \ {0}
  /\ MaxClock \in Nat
  /\ MaxIssued \in Nat

VARIABLES
  clock,
  lease,    \* lease[k]: {} or the one lease of key k
  issued,   \* the last fencing token
  ledger,   \* ledger[a]: the slots of principal a
  undrawn,  \* the token IDs not drawn yet
  request,  \* request[s]: {} or the request s is serving
  returned  \* the capabilities clients were given

stores == <<lease, issued, ledger>>

primitivesVars == <<clock, stores, undrawn, request, returned>>

Lease == [holder: Holder, expires: Nat, released: BOOLEAN, fence: Nat]

\* What a sealed capability says; token is its slot in the ledger.
Capability == [owner: Principal, key: Scope, holder: Holder, expires: Nat,
               fence: Nat, token: Token]

\* A request in progress: the capability it is making, and the one it was
\* made with.
Step == {"reserve", "acquire", "seal", "commit", "cancel",
         "renew", "reseal", "replace", "release", "retire"}

InProgress == [step: Step, cap: Capability, old: SUBSET Capability]

PrimitivesTypeOK ==
  /\ clock \in Nat /\ issued \in Nat
  /\ lease \in [Scope -> SUBSET Lease]
  /\ ledger \in [Principal -> SUBSET Slot]
  /\ undrawn \in SUBSET Token
  /\ request \in [Server -> SUBSET InProgress]
  /\ returned \in SUBSET Capability

PrimitivesInit ==
  /\ clock = 0
  /\ lease = [k \in Scope |-> {}]
  /\ issued = 0
  /\ ledger = [a \in Principal |-> {}]
  /\ undrawn = Token
  /\ request = [s \in Server |-> {}]
  /\ returned = {}

(***************************************************************************)
(* Ends and continuations of a request                                     *)
(***************************************************************************)
FailRequest(s) == request' = [request EXCEPT ![s] = {}] /\ UNCHANGED returned

Return(s, c) ==
  /\ request' = [request EXCEPT ![s] = {}]
  /\ returned' = returned \cup {c}

Goto(s, r, step) ==
  /\ request' = [request EXCEPT ![s] = {[r EXCEPT !.step = step]}]
  /\ UNCHANGED returned

(***************************************************************************)
(* The stores                                                              *)
(***************************************************************************)
\* Operation op on the ledger of a, judged at some moment up to now.
BudgetEffect(a, op, old, next, e) ==
  \E t \in 0..clock :
    \E v \in Results(ledger[a], [op |-> op, token |-> old, next |-> next, expires |-> e], t) :
      ledger' = [ledger EXCEPT ![a] = v] /\ UNCHANGED <<lease, issued>>

\* An error says nothing about whether the operation took effect.
BudgetError(a, op, old, next, e) ==
  BudgetEffect(a, op, old, next, e) \/ UNCHANGED stores

Stored(k, l) ==
  /\ issued < MaxIssued
  /\ issued' = issued + 1
  /\ lease' = [lease EXCEPT ![k] = {[l EXCEPT !.fence = issued + 1]}]
  /\ UNCHANGED ledger

GrantedOverAnyLease(c) ==
  Stored(c.key, [holder |-> c.holder, expires |-> c.expires, released |-> FALSE,
                 fence |-> 0])

Granted(c) ==
  /\ \A l \in lease[c.key] : l.released \/ l.expires <= clock
  /\ Stored(c.key, [holder |-> c.holder, expires |-> c.expires, released |-> FALSE,
                    fence |-> 0])

\* Renew or Release: a compare-and-set on the fencing token of the lease.
Mutated(c, e, released) ==
  /\ \E l \in lease[c.key] : l.fence = c.fence /\ ~l.released
  /\ Stored(c.key, [holder |-> c.holder, expires |-> e, released |-> released, fence |-> 0])

\* The store finds the bytes it wanted to write, under a newer token.
Found(k, fence, l) == l \in lease[k] /\ l.fence > fence

(***************************************************************************)
(* Acquire                                                                 *)
(***************************************************************************)
ValidLeaseExpiry(e) == clock < e /\ e <= clock + MaxTTL

Acquire(s, a, k, h, e, t) ==
  /\ request[s] = {}
  /\ ValidLeaseExpiry(e)
  /\ undrawn' = undrawn \ {t}
  /\ request' = [request EXCEPT ![s] =
       {[step |-> "reserve", old |-> {},
         cap |-> [owner |-> a, key |-> k, holder |-> h, expires |-> e, fence |-> 0,
                  token |-> t]]}]
  /\ UNCHANGED <<clock, stores, returned>>

ReserveToken(s, r) ==
  /\ r.step = "reserve"
  /\ LET c == r.cap
     IN  \/ BudgetEffect(c.owner, "reserve", c.token, c.token, c.expires) /\ Goto(s, r, "acquire")
         \/ BudgetError(c.owner, "reserve", c.token, c.token, c.expires) /\ FailRequest(s)
  /\ UNCHANGED <<clock, undrawn>>

AcquireLease(s, r) ==
  /\ r.step = "acquire"
  /\ LET c == r.cap
         with(f) == [r EXCEPT !.cap = [c EXCEPT !.fence = f]]
     IN  \/ Granted(c) /\ Goto(s, with(issued + 1), "seal")
         \/ /\ \E l \in lease[c.key] :
                 /\ l.holder = c.holder /\ l.expires = c.expires /\ ~l.released
                 /\ Goto(s, with(l.fence), "seal")
            /\ UNCHANGED stores
         \/ (Granted(c) \/ UNCHANGED stores) /\ Goto(s, r, "cancel")
  /\ UNCHANGED <<clock, undrawn>>

\* Sealing fails, or the capability is ready.
Seal(s, r) ==
  /\ r.step = "seal"
  /\ Goto(s, r, "commit") \/ Goto(s, r, "cancel")
  /\ UNCHANGED <<clock, stores, undrawn>>

Commit(s, r) ==
  /\ r.step = "commit"
  /\ LET c == r.cap
     IN  \/ BudgetEffect(c.owner, "commit", c.token, c.token, 0) /\ Return(s, c)
         \/ BudgetError(c.owner, "commit", c.token, c.token, 0) /\ FailRequest(s)
  /\ UNCHANGED <<clock, undrawn>>

Cancel(s, r) ==
  /\ r.step = "cancel"
  /\ BudgetError(r.cap.owner, "cancel", r.cap.token, r.cap.token, 0)
  /\ FailRequest(s)
  /\ UNCHANGED <<clock, undrawn>>

(***************************************************************************)
(* RenewOpened and ReleaseOpened                                           *)
(***************************************************************************)
\* Resume reads the lease, perhaps from a replica that lags.
Resume(s, c, new, step) ==
  /\ request[s] = {}
  /\ c.expires > clock
  /\ request' = [request EXCEPT ![s] = {[step |-> step, cap |-> new, old |-> {c}]}]
  /\ UNCHANGED <<clock, stores, returned>>

Renew(s, c, e) ==
  /\ ValidLeaseExpiry(e)
  /\ Resume(s, c, [c EXCEPT !.expires = e], "renew")
  /\ UNCHANGED undrawn

RenewLease(s, r) ==
  /\ r.step = "renew"
  /\ LET c == r.cap
         with(f) == [r EXCEPT !.cap = [c EXCEPT !.fence = f]]
     IN  \/ Mutated(c, c.expires, FALSE) /\ Goto(s, with(issued + 1), "reseal")
         \/ /\ \E l \in lease[c.key] :
                 /\ l.holder = c.holder /\ l.expires = c.expires /\ ~l.released
                 /\ Found(c.key, c.fence, l)
                 /\ Goto(s, with(l.fence), "reseal")
            /\ UNCHANGED stores
         \/ (Mutated(c, c.expires, FALSE) \/ UNCHANGED stores) /\ FailRequest(s)
  /\ UNCHANGED <<clock, undrawn>>

\* A new token ID is drawn and the replacement sealed, or one of them fails.
Reseal(s, r, t) ==
  /\ r.step = "reseal"
  /\ \/ /\ undrawn' = undrawn \ {t}
        /\ Goto(s, [r EXCEPT !.cap.token = t], "replace")
     \/ UNCHANGED undrawn /\ FailRequest(s)
  /\ UNCHANGED <<clock, stores>>

ReplaceToken(s, r) ==
  /\ r.step = "replace"
  /\ \E o \in r.old :
       LET c == r.cap
       IN  \/ BudgetEffect(c.owner, "replace", o.token, c.token, c.expires) /\ Return(s, c)
           \/ BudgetError(c.owner, "replace", o.token, c.token, c.expires) /\ FailRequest(s)
  /\ UNCHANGED <<clock, undrawn>>

Release(s, c) ==
  /\ Resume(s, c, c, "release")
  /\ UNCHANGED undrawn

ReleaseLease(s, r) ==
  /\ r.step = "release"
  /\ LET c == r.cap
     IN  \/ Mutated(c, c.expires, TRUE) /\ Goto(s, r, "retire")
         \/ /\ \E l \in lease[c.key] :
                 /\ l.holder = c.holder /\ l.expires = c.expires /\ l.released
                 /\ Found(c.key, c.fence, l)
            /\ Goto(s, r, "retire")
            /\ UNCHANGED stores
         \/ (Mutated(c, c.expires, TRUE) \/ UNCHANGED stores) /\ FailRequest(s)
  /\ UNCHANGED <<clock, undrawn>>

Retire(s, r) ==
  /\ r.step = "retire"
  /\ BudgetError(r.cap.owner, "retire", r.cap.token, r.cap.token, 0)
  /\ FailRequest(s)
  /\ UNCHANGED <<clock, undrawn>>

(***************************************************************************)
(* Specification                                                           *)
(***************************************************************************)
LeaseExpiry == 0..(MaxClock + MaxTTL)

ClockTick ==
  /\ clock < MaxClock
  /\ clock' = clock + 1
  /\ UNCHANGED <<stores, undrawn, request, returned>>

\* The service stops in the middle of a request, or its context runs out.
Abandon(s) ==
  /\ request[s] # {}
  /\ FailRequest(s)
  /\ UNCHANGED <<clock, stores, undrawn>>

Begin(s) ==
  \/ \E a \in Principal, k \in Scope, h \in Holder, e \in LeaseExpiry, t \in undrawn :
       Acquire(s, a, k, h, e, t)
  \/ \E c \in returned, e \in LeaseExpiry : Renew(s, c, e)
  \/ \E c \in returned : Release(s, c)

Serve(s, r) ==
  \/ ReserveToken(s, r)
  \/ AcquireLease(s, r)
  \/ Seal(s, r)
  \/ Commit(s, r)
  \/ Cancel(s, r)
  \/ RenewLease(s, r)
  \/ \E t \in undrawn : Reseal(s, r, t)
  \/ ReplaceToken(s, r)
  \/ ReleaseLease(s, r)
  \/ Retire(s, r)

PrimitivesNext ==
  \/ \E s \in Server : Begin(s)
  \/ \E s \in Server : \E r \in request[s] : Serve(s, r)
  \/ \E s \in Server : Abandon(s)
  \/ ClockTick

PrimitivesSpec == PrimitivesInit /\ [][PrimitivesNext]_primitivesVars

(***************************************************************************)
(* Properties                                                              *)
(***************************************************************************)
\* Renew and Release with this capability can still succeed.
Usable(c) ==
  /\ c.expires > clock
  /\ \E l \in lease[c.key] : l.fence = c.fence /\ ~l.released

\* Every capability a client can still use occupies an active slot of its
\* principal's ledger until it expires: no order of concurrent requests and
\* no failure between two store calls frees the slot of a usable capability.
UsableIsAccounted ==
  \A c \in returned :
    Usable(c) => \E s \in ledger[c.owner] :
                   s.token = c.token /\ s.phase = "active" /\ s.expires = c.expires

\* A principal never has more usable capabilities than the configured
\* maximum, whatever fails on the way.
UsableIsBounded ==
  \A a \in Principal : Cardinality({c \in returned : c.owner = a /\ Usable(c)}) <= Limit

\* Usable capabilities are accounted for one by one and bounded together.
UsableIsCounted == UsableIsAccounted /\ UsableIsBounded

\* A usable capability stops being usable only when its time runs out or a
\* request made with a capability of the same fencing token changes the
\* lease: nobody else's request takes a lease from a client.
OnlyOwnRequestEndsLease ==
  [][\A c \in returned :
       Usable(c) /\ c.expires > clock' /\ ~Usable(c)' =>
         \E s \in Server : \E r \in request[s] :
           r.step \in {"renew", "release"} /\ \E o \in r.old : o.fence = c.fence]_primitivesVars
=============================================================================
