----------------------------- MODULE ClientSession -----------------------------
(***************************************************************************)
(* The clients of one profile: Bootstrapper.Bootstrap, which obtains a     *)
(* relay session for the profile's proof key and stores it, the            *)
(* RequestAuthorizer that signs with what is stored, and the removal of    *)
(* the session, each a process of its own over the shared custody of       *)
(* Custody.  A call may end at any step, by an error that left nothing     *)
(* behind or by a crash; a commit, a write to Cloud Storage or a session   *)
(* the relay issued may also lose its answer, and a write may land late.   *)
(***************************************************************************)
EXTENDS Custody

CONSTANTS
  Client,    \* processes that use the profile
  Backend,   \* a subset of {"local", "cloud"}
  Lifetime,  \* of a relay session
  MaxEpoch,  \* sessions the relay issues (bound)
  MaxTime,   \* the clock (bound)
  MaxWrite   \* Cloud Storage requests that outlive their answer (bound)

ASSUME ClientAssumption ==
  /\ Backend \subseteq {"local", "cloud"}
  /\ Lifetime \in Nat \ {0}
  /\ MaxEpoch \in Nat
  /\ MaxTime \in Nat

VARIABLES
  now,
  backend,
  store,
  late,   \* Cloud Storage requests that were sent and may still land
  relay,  \* the sessions the relay issued
  call    \* call[c]: {} or the one call c is in

vars == <<now, backend, store, late, relay, call>>

Key == Nat \ {0}

Step == {"load", "find", "insert", "open", "token", "retire", "sign", "exchange", "save",
         "verify", "settle", "reload", "reopen", "delete", "check", "again",
         "open_session", "sign_request"}

\* expected: the revision a call loaded; key: the signer's; record: the session
\* it was issued or loaded; written: the generation a write was answered with.
Call == [kind: {"bootstrap", "authorize", "remove"}, at: Step,
         expected: SUBSET (Nat \ {0}), key: SUBSET Key, created: BOOLEAN,
         record: SUBSET SessionRecord(Key), written: SUBSET (Nat \ {0})]

Write == [expected: SUBSET (Nat \ {0}), record: SUBSET SessionRecord(Key)]

Single(S) == \A x, y \in S : x = y

TypeOK ==
  /\ now \in 0..MaxTime
  /\ backend \in Backend
  /\ store \in Store(Key) /\ Single(store.session) /\ Single(store.signer)
  /\ late \subseteq Write
  /\ relay \subseteq SessionRecord(Key)
  /\ call \in [Client -> SUBSET Call] /\ \A c \in Client : Single(call[c])

Init ==
  /\ now = 0
  /\ backend \in Backend
  /\ store = IF backend = "local" THEN EmptyStore ELSE CloudStore(1)
  /\ late = {}
  /\ relay = {}
  /\ call = [c \in Client |-> {}]

Local == backend = "local"

Loaded == IF Local THEN Load(store) ELSE LoadObject(store)

End(c) == call' = [call EXCEPT ![c] = {}]

Become(c, x) == call' = [call EXCEPT ![c] = {x}]

Goto(c, x, step) == Become(c, [x EXCEPT !.at = step])

\* The step of a call that is at `step', on the state x of the call.
At(c, step) == {x \in call[c] : x.at = step}

Begin(c, kind) ==
  /\ call[c] = {}
  /\ Become(c, [kind |-> kind, at |-> "load", expected |-> {}, key |-> {}, created |-> FALSE,
                record |-> {}, written |-> {}])
  /\ UNCHANGED <<now, backend, store, late, relay>>

\* A crash, or an error that changed nothing: a custody that does not answer, a
\* KMS call that used up its attempts, a deadline.
Abort(c) ==
  /\ call[c] # {}
  /\ End(c)
  /\ UNCHANGED <<now, backend, store, late, relay>>

Expired(s) == s.record.expires <= now

\* Bootstrap goes on without a session or with one that expired.
LoadStep(c) ==
  /\ \E x \in At(c, "load") :
       /\ x.kind = "bootstrap"
       /\ IF Loaded = {} THEN Goto(c, x, "find")
          ELSE \E s \in Loaded :
                 IF Expired(s) THEN Become(c, [x EXCEPT !.at = "find", !.expected = {s.revision}])
                 ELSE End(c)
  /\ UNCHANGED <<now, backend, store, late, relay>>

\* Authorize needs one that did not.
LoadSessionStep(c) ==
  /\ \E x \in At(c, "load") :
       /\ x.kind = "authorize"
       /\ \/ \E s \in Loaded :
               /\ ~Expired(s)
               /\ Become(c, [x EXCEPT !.at = "open_session", !.key = {s.record.key},
                                      !.record = {s.record}])
          \/ (\A s \in Loaded : Expired(s)) /\ End(c)
  /\ UNCHANGED <<now, backend, store, late, relay>>

\* A removal takes the revision it is shown.
LoadRevisionStep(c) ==
  /\ \E x \in At(c, "load") :
       /\ x.kind = "remove"
       /\ \/ \E s \in Loaded : Become(c, [x EXCEPT !.at = "delete", !.expected = {s.revision}])
          \/ Loaded = {} /\ End(c)
  /\ UNCHANGED <<now, backend, store, late, relay>>

(***************************************************************************)
(* Bootstrap                                                               *)
(***************************************************************************)
\* The KMS version that was provisioned is the signer, and was not created now.
ProvisionStep(c) ==
  /\ ~Local
  /\ \E x \in At(c, "find") :
       \E g \in store.signer : Become(c, [x EXCEPT !.at = "token", !.key = {g.key}])
  /\ UNCHANGED <<now, backend, store, late, relay>>

\* The local ProvisionP256 looks for the signer of the profile.
FindStep(c) ==
  /\ Local
  /\ \E x \in At(c, "find") :
       IF store.signer = {} THEN Goto(c, x, "insert")
       ELSE Become(c, [x EXCEPT !.at = "open", !.key = {g.key : g \in store.signer}])
  /\ UNCHANGED <<now, backend, store, late, relay>>

\* ... and stores a new one, unless another process was first.  A key is named
\* after the encryption it costs.
InsertStep(c) ==
  /\ \E x \in At(c, "insert") :
       LET k == store.encryptions + 1
           r == InsertSigner(store, k)
       IN  /\ store' = r.db
           /\ \/ /\ r.res = "ok"
                 /\ Become(c, [x EXCEPT !.at = "open", !.key = {k}, !.created = TRUE])
              \/ /\ r.res = "exists"
                 /\ Become(c, [x EXCEPT !.at = "open", !.key = {g.key : g \in store.signer}])
              \/ r.res # "exists" /\ End(c)
  /\ UNCHANGED <<now, backend, late, relay>>

\* Open of the reference that was found.
OpenStep(c) ==
  /\ \E x \in At(c, "open") :
       IF \E k \in x.key : Opens(store, k) THEN Goto(c, x, "token") ELSE End(c)
  /\ UNCHANGED <<now, backend, store, late, relay>>

\* The supervisor answers with a token that is bound to the key, or the exchange
\* fails: no socket, no answer in time, another key, a malformed document.
Acquire == {"token", "none"}

\* Without an external token the call retires the key it created.
TokenStep(c) ==
  /\ \E x \in At(c, "token"), a \in Acquire :
       IF a = "token" THEN Goto(c, x, "sign")
       ELSE IF x.created THEN Goto(c, x, "retire") ELSE End(c)
  /\ UNCHANGED <<now, backend, store, late, relay>>

RetireStep(c) ==
  /\ \E x \in At(c, "retire") : \E k \in x.key : store' = Retire(store, k).db
  /\ End(c)
  /\ UNCHANGED <<now, backend, late, relay>>

\* Issue signs its proof with the key as it is stored now ...
SignStep(c) ==
  /\ \E x \in At(c, "sign") :
       IF \E k \in x.key : Signs(store, k) THEN Goto(c, x, "exchange") ELSE End(c)
  /\ UNCHANGED <<now, backend, store, late, relay>>

\* ... and the relay issues a session for it, whose answer may be lost.
ExchangeStep(c) ==
  /\ Cardinality(relay) < MaxEpoch
  /\ \E x \in At(c, "exchange") : \E k \in x.key :
       LET s == [epoch |-> Cardinality(relay) + 1, key |-> k, expires |-> now + Lifetime]
       IN  /\ relay' = relay \cup {s}
           /\ \/ Become(c, [x EXCEPT !.at = "save", !.record = {s}])
              \/ End(c)
  /\ UNCHANGED <<now, backend, store, late>>

SaveStep(c) ==
  /\ Local
  /\ \E x \in At(c, "save") : \E s \in x.record :
       LET r == Save(store, x.expected, s)
       IN  /\ store' = r.db
           /\ \/ r.res = "ok" /\ Goto(c, x, "reload")
              \/ End(c)
  /\ UNCHANGED <<now, backend, late, relay>>

\* Save to Cloud Storage: the request is handled, with or without an answer, or
\* is still on its way when the answer is given up.
PutStep(c) ==
  /\ ~Local
  /\ \E x \in At(c, "save") : \E s \in x.record :
       LET r == Put(store, x.expected, s)
       IN  /\ validRecord(store, s)
           /\ \/ /\ store' = r.db
                 /\ \E a \in classifyStorageError(r.res) :
                      CASE a = "ok" -> Become(c, [x EXCEPT !.at = "verify", !.written = {r.db.serial}])
                        [] a = "ambiguous" -> Goto(c, x, "settle")
                        [] OTHER -> End(c)
                 /\ UNCHANGED late
              \/ /\ Cardinality(late) < MaxWrite
                 /\ late' = late \cup {[expected |-> x.expected, record |-> {s}]}
                 /\ Goto(c, x, "settle")
                 /\ UNCHANGED store
  /\ UNCHANGED <<now, backend, relay>>

\* The generation that was written is read back.
VerifyStep(c) ==
  /\ \E x \in At(c, "verify") :
       IF \E v \in x.written : \E s \in LoadGeneration(store, v) : {s.record} = x.record
       THEN Goto(c, x, "reload") ELSE End(c)
  /\ UNCHANGED <<now, backend, store, late, relay>>

\* A write without an answer succeeded if the live object holds its operation.
\* A record is saved by one operation only, so it stands for it.
SettleStep(c) ==
  /\ \E x \in At(c, "settle") :
       IF \E s \in Loaded : {s.record} = x.record THEN Goto(c, x, "reload") ELSE End(c)
  /\ UNCHANGED <<now, backend, store, late, relay>>

ReloadUnchecked(c) ==
  /\ \E x \in At(c, "reload") :
       IF Loaded = {} THEN End(c)
       ELSE \E s \in Loaded : Become(c, [x EXCEPT !.at = "reopen", !.record = {s.record}])
  /\ UNCHANGED <<now, backend, store, late, relay>>

\* Bootstrap loads what it saved, and compares key, participant and epoch.
ReloadStep(c) ==
  /\ \E x \in At(c, "reload") :
       IF \E s \in Loaded : {s.record.key} = x.key /\ \A r \in x.record : s.record.epoch = r.epoch
       THEN \E s \in Loaded : Become(c, [x EXCEPT !.at = "reopen", !.record = {s.record}])
       ELSE End(c)
  /\ UNCHANGED <<now, backend, store, late, relay>>

\* The last check of a bootstrap, whichever way it answers.
ReopenStep(c) ==
  /\ At(c, "reopen") # {}
  /\ End(c)
  /\ UNCHANGED <<now, backend, store, late, relay>>

(***************************************************************************)
(* Authorize, and the removal of a session                                 *)
(***************************************************************************)
OpenSessionStep(c) ==
  /\ \E x \in At(c, "open_session") :
       IF \E k \in x.key : Opens(store, k) THEN Goto(c, x, "sign_request") ELSE End(c)
  /\ UNCHANGED <<now, backend, store, late, relay>>

\* The proof that is signed is the last step, whichever way it answers.
SignRequestStep(c) ==
  /\ At(c, "sign_request") # {}
  /\ End(c)
  /\ UNCHANGED <<now, backend, store, late, relay>>

DeleteStep(c) ==
  /\ Local
  /\ \E x \in At(c, "delete") : \E v \in x.expected : store' = Delete(store, v).db
  /\ End(c)
  /\ UNCHANGED <<now, backend, late, relay>>

\* Delete from Cloud Storage: without an answer it looks again, and asks again
\* once while the generation it means is live.
RemoveStep(c) ==
  /\ ~Local
  /\ \E x \in At(c, "delete") \cup At(c, "again") : \E v \in x.expected :
       LET r == DeleteObject(store, v)
           then == IF x.at = "delete" THEN Goto(c, x, "check") ELSE End(c)
       IN  \/ /\ store' = r.db
              /\ \E a \in classifyStorageError(r.res) : IF a = "ambiguous" THEN then ELSE End(c)
              /\ UNCHANGED late
           \/ /\ Cardinality(late) < MaxWrite
              /\ late' = late \cup {[expected |-> x.expected, record |-> {}]}
              /\ then
              /\ UNCHANGED store
  /\ UNCHANGED <<now, backend, relay>>

CheckStep(c) ==
  /\ \E x \in At(c, "check") :
       IF \E s \in Loaded : {s.revision} = x.expected THEN Goto(c, x, "again") ELSE End(c)
  /\ UNCHANGED <<now, backend, store, late, relay>>

(***************************************************************************)
(* The environment                                                         *)
(***************************************************************************)
\* A request that outlived its answer reaches Cloud Storage.
Land(w) ==
  /\ w \in late
  /\ late' = late \ {w}
  /\ \/ w.record = {} /\ \E v \in w.expected : store' = DeleteObject(store, v).db
     \/ \E s \in w.record : store' = Put(store, w.expected, s).db
  /\ UNCHANGED <<now, backend, relay, call>>

Tick ==
  /\ now < MaxTime
  /\ now' = now + 1
  /\ UNCHANGED <<backend, store, late, relay, call>>

BootstrapStep(c) ==
  \/ LoadStep(c) \/ ProvisionStep(c) \/ FindStep(c) \/ InsertStep(c) \/ OpenStep(c)
  \/ TokenStep(c) \/ RetireStep(c)
  \/ SignStep(c) \/ ExchangeStep(c) \/ SaveStep(c) \/ PutStep(c) \/ VerifyStep(c)
  \/ SettleStep(c) \/ ReloadStep(c) \/ ReopenStep(c)

Next ==
  \/ \E c \in Client :
       \/ \E kind \in {"bootstrap", "authorize", "remove"} : Begin(c, kind)
       \/ BootstrapStep(c) \/ LoadSessionStep(c) \/ OpenSessionStep(c) \/ SignRequestStep(c)
       \/ LoadRevisionStep(c) \/ DeleteStep(c) \/ RemoveStep(c) \/ CheckStep(c) \/ Abort(c)
  \/ \E w \in late : Land(w)
  \/ Tick

Spec == Init /\ [][Next]_vars

(***************************************************************************)
(* Properties                                                              *)
(***************************************************************************)
\* A stored session is always usable: its key is in custody and is no longer
\* provisional, and it stays there for whoever loaded the session before a
\* concurrent bootstrap retired, replaced or removed something (Save, Retire).
SessionHasKey ==
  /\ \A s \in Loaded : [key |-> s.record.key, provisional |-> FALSE] \in store.signer
  /\ \A c \in Client : \A x \in At(c, "open_session") \cup At(c, "sign_request") \cup At(c, "reopen") :
       \A k \in x.key : Opens(store, k) /\ Signs(store, k)
  /\ Revisions(store) = {s.revision : s \in Loaded}

\* A session is only ever replaced after it expired, and by one the relay issued
\* later: a slow bootstrap, a late write or a retry never puts an older session
\* in the place of a newer one (the revision that Save is conditional on).
ReplacementIsNewer ==
  [][\A s \in Loaded, t \in Loaded' :
       s # t => Expired(s) /\ s.record.epoch < t.record.epoch]_vars

\* A bootstrap that read its session back and is about to report it holds one
\* that the relay issued to it and that no other call reports, although another
\* bootstrap may have replaced the session or its answer may have been lost (the
\* checks after Save in Bootstrap, and what Save does without an answer).
SuccessIsOwn ==
  \A c \in Client : \A x \in At(c, "reopen") :
    /\ x.record \subseteq {r \in relay : r.key \in x.key}
    /\ \A d \in Client \ {c} : \A y \in At(d, "reopen") : x.record \cap y.record = {}

\* Whatever the interrupted calls left behind, one bootstrap without a fault
\* still succeeds once the stored session expired, as long as the root key has
\* two encryptions left: no row blocks the profile for good (ProvisionP256, Save).
NeverWedged ==
  LET d == IF store.signer = {} THEN InsertSigner(store, store.encryptions + 1).db ELSE store
  IN  Local /\ store.encryptions + 2 <= MaxEncryptions =>
        \A g \in d.signer :
          Save(d, Revisions(d), [epoch |-> MaxEpoch + 1, key |-> g.key, expires |-> now + Lifetime]).res = "ok"
=============================================================================
