-------------------------- MODULE ClientSessionProofs --------------------------
(***************************************************************************)
(* A stored relay session always has its proof key, a bootstrap reports    *)
(* the session it was issued, and a session is only replaced by a later    *)
(* one, for every set of clients, either custody and every bound of        *)
(* ClientSession.                                                          *)
(*                                                                         *)
(* The argument: a key is firm once it is no longer provisional, and       *)
(* nothing removes a firm key.  Save makes the key of what it stores firm, *)
(* in the same transaction; a Cloud Storage request is only sent for the   *)
(* key that was provisioned beforehand.  So whoever loads a session, at    *)
(* whatever moment, learns a key that stays.                               *)
(***************************************************************************)
EXTENDS ClientSession, FiniteSetTheorems, TLAPS

(***************************************************************************)
(* The inductive invariant                                                 *)
(***************************************************************************)
Firm(k) == [key |-> k, provisional |-> FALSE] \in store.signer

\* A call at one of these steps has loaded a session and relies on its key.
Using == {"open_session", "sign_request", "reopen"}

\* A row opens with the associated data its custody seals with, and its key is
\* firm.
RowInv ==
  \A row \in store.session :
    /\ row.sealed.text.key = row.reference
    /\ Local => row.sealed.aad = associatedData(row.revision, row.reference)
    /\ ~Local => row.sealed.aad = AssociatedData
    /\ Firm(row.reference)

\* The KMS version that was provisioned is the one key of a cloud custody.
CloudInv == ~Local => store.signer = {[key |-> 1, provisional |-> FALSE]}

LateInv == \A w \in late : ~Local /\ \A s \in w.record : Firm(s.key)

CallInv == \A c \in Client : \A x \in call[c] : x.at \in Using => \A k \in x.key : Firm(k)

CustodyInv ==
  /\ backend \in Backend
  /\ store \in Store(Key) /\ Single(store.session) /\ Single(store.signer)
  /\ RowInv
  /\ CloudInv

IInv ==
  /\ TypeOK
  /\ IsFiniteSet(relay)
  /\ CustodyInv
  /\ LateInv
  /\ CallInv

(***************************************************************************)
(* What a call reads                                                       *)
(***************************************************************************)

\* The rows of a custody, one by one.
LEMMA RowFields ==
  ASSUME CustodyInv, NEW row \in store.session
  PROVE  /\ row.revision \in Nat \ {0}
         /\ row.reference \in Key
         /\ row.sealed.text \in SessionRecord(Key)
         /\ row.sealed.text.key = row.reference
         /\ Firm(row.reference)
  BY Zenon DEF CustodyInv, RowInv, Store, Envelope

\* What is loaded is what the rows hold (Load of the local store, open of the cloud
\* store).
LEMMA LoadedRows ==
  ASSUME CustodyInv
  PROVE  /\ \A s \in Loaded : \E row \in store.session :
              s = [revision |-> row.revision, record |-> row.sealed.text]
         /\ \A row \in store.session : [revision |-> row.revision, record |-> row.sealed.text] \in Loaded
<1>1. ASSUME NEW s \in Loaded
      PROVE  \E row \in store.session : s = [revision |-> row.revision, record |-> row.sealed.text]
  BY Zenon DEF Loaded, Load, LoadObject, open, Decrypt, openEnvelope
<1>2. ASSUME NEW row \in store.session
      PROVE  [revision |-> row.revision, record |-> row.sealed.text] \in Loaded
  <2>1. CASE Local
    BY <1>2, <2>1 DEF CustodyInv, RowInv, Loaded, Load, openEnvelope
  <2>2. CASE ~Local
    <3>1. Opens(store, row.sealed.text.key)
      BY RowFields, Zenon DEF Opens, Firm
    <3>. QED
      BY <1>2, <2>2, <3>1
      DEF CustodyInv, RowInv, Loaded, LoadObject, open, Decrypt, openEnvelope, validRecord
  <2>. QED
    BY <2>1, <2>2, Zenon
<1>. QED
  BY <1>1, <1>2, Zenon

\* Every row can be loaded, and what is loaded is a row's record and its firm key.
LEMMA LoadedFacts ==
  ASSUME CustodyInv
  PROVE  /\ \A s \in Loaded : /\ s.revision \in Nat \ {0}
                              /\ s.record \in SessionRecord(Key)
                              /\ Firm(s.record.key)
         /\ Revisions(store) = {s.revision : s \in Loaded}
<1>1. \A s \in Loaded : \E row \in store.session :
        s = [revision |-> row.revision, record |-> row.sealed.text]
  BY LoadedRows, Zenon
<1>2. \A row \in store.session : [revision |-> row.revision, record |-> row.sealed.text] \in Loaded
  BY LoadedRows, Zenon
<1>3. \A s \in Loaded : /\ s.revision \in Nat \ {0}
                        /\ s.record \in SessionRecord(Key)
                        /\ Firm(s.record.key)
  BY <1>1, RowFields
<1>4. Revisions(store) = {s.revision : s \in Loaded}
  <2>1. ASSUME NEW v \in Revisions(store)  PROVE \E s \in Loaded : s.revision = v
    <3>1. PICK row \in store.session : v = row.revision
      BY <2>1, Zenon DEF Revisions
    <3>. QED
      BY <1>2, <3>1, Zenon
  <2>2. ASSUME NEW s \in Loaded  PROVE s.revision \in Revisions(store)
    BY <1>1 DEF Revisions
  <2>. QED
    BY <2>1, <2>2, Zenon
<1>. QED
  BY <1>3, <1>4, Zenon

(***************************************************************************)
(* What a step has to keep                                                 *)
(***************************************************************************)
\* No step removes a firm key.
KeepsFirm == \A k : Firm(k) => Firm(k)'

\* Client c ends its call, or goes on with a firm key where it relies on one.
CallerMoves(c) ==
  \/ End(c)
  \/ \E y \in Call : Become(c, y) /\ (y.at \in Using => \A k \in y.key : Firm(k)')

\* A call that moves leaves the calls of the others as they are.
LEMMA CallerKeepsCalls ==
  ASSUME IInv, KeepsFirm, NEW c \in Client, CallerMoves(c)
  PROVE  /\ call' \in [Client -> SUBSET Call] /\ \A d \in Client : Single(call'[d])
         /\ CallInv'
<1>0. call \in [Client -> SUBSET Call] /\ (\A d \in Client : Single(call[d])) /\ CallInv
  BY Zenon DEF IInv, TypeOK
<1>1. CASE End(c)
  BY <1>0, <1>1, Zenon DEF End, Single, CallInv, KeepsFirm
<1>2. ASSUME NEW y \in Call, Become(c, y), y.at \in Using => \A k \in y.key : Firm(k)'
      PROVE  /\ call' \in [Client -> SUBSET Call] /\ \A d \in Client : Single(call'[d])
             /\ CallInv'
  <2>1. call' \in [Client -> SUBSET Call] /\ \A d \in Client : call'[d] = IF d = c THEN {y} ELSE call[d]
    BY <1>0, <1>2, Zenon DEF Become
  <2>2. \A d \in Client : Single(call'[d])
    BY <1>0, <2>1, Zenon DEF Single
  <2>3. CallInv'
    BY <1>0, <1>2, <2>1, Zenon DEF CallInv, KeepsFirm
  <2>. QED
    BY <2>1, <2>2, <2>3, Zenon
<1>. QED
  BY <1>1, <1>2, Zenon DEF CallerMoves

\* A step of one client that leaves the custody alone.
LEMMA QuietStep ==
  ASSUME IInv, NEW c \in Client, CallerMoves(c), UNCHANGED <<now, backend, store, late>>,
         relay' \subseteq SessionRecord(Key), IsFiniteSet(relay')
  PROVE  IInv'
<1>1. KeepsFirm
  BY Zenon DEF KeepsFirm, Firm
<1>2. /\ call' \in [Client -> SUBSET Call] /\ \A d \in Client : Single(call'[d])
      /\ CallInv'
  BY <1>1, CallerKeepsCalls, Zenon
<1>3. CustodyInv' /\ LateInv'
  BY Zenon DEF IInv, CustodyInv, RowInv, CloudInv, LateInv, Firm, Local
<1>. QED
  BY <1>2, <1>3, Zenon DEF IInv, TypeOK

\* A step of one client that changes the custody.
LEMMA CustodyStep ==
  ASSUME IInv, NEW c \in Client, CallerMoves(c), KeepsFirm, CustodyInv', LateInv',
         late' \subseteq Write, UNCHANGED <<now, backend, relay>>
  PROVE  IInv'
<1>1. /\ call' \in [Client -> SUBSET Call] /\ \A d \in Client : Single(call'[d])
      /\ CallInv'
  BY CallerKeepsCalls, Zenon
<1>. QED
  BY <1>1, Zenon DEF IInv, TypeOK, CustodyInv

(***************************************************************************)
(* What the operations of the two custodies keep                           *)
(***************************************************************************)

\* A store is built from its four fields.
LEMMA StoreFields ==
  ASSUME NEW A, NEW a \in A, NEW B, NEW b \in B, NEW C, NEW c \in C, NEW D, NEW d \in D
  PROVE  [session |-> a, signer |-> b, encryptions |-> c, serial |-> d]
           \in [session: A, signer: B, encryptions: C, serial: D]
  BY Zenon

\* What Save makes of the signers.
MadeFirm(S) == {[key |-> g.key, provisional |-> FALSE] : g \in S}

\* A key that is firm already stays so.
LEMMA FirmStays ==
  ASSUME NEW S, NEW k, [key |-> k, provisional |-> FALSE] \in S
  PROVE  [key |-> k, provisional |-> FALSE] \in MadeFirm(S)
<1> DEFINE r == [key |-> k, provisional |-> FALSE]
<1>1. r.key = k /\ r \in S
  BY Zenon
<1> HIDE DEF r
<1>2. [key |-> r.key, provisional |-> FALSE] \in MadeFirm(S)
  BY <1>1, Zenon DEF MadeFirm
<1>. QED
  BY <1>1, <1>2, Zenon DEF r

\* Save stores a session together with its key, which it makes firm.
LEMMA SaveKeeps ==
  ASSUME CustodyInv, Local, NEW e, NEW s \in SessionRecord(Key),
         store' = Save(store, e, s).db, UNCHANGED backend
  PROVE  CustodyInv' /\ KeepsFirm
<1>1. CASE store' = store
  BY <1>1, Zenon DEF CustodyInv, RowInv, CloudInv, KeepsFirm, Firm, Local
<1>2. CASE store' = Stored(store, s) /\ Opens(store, s.key) /\ store.encryptions < MaxEncryptions
  <2>1. /\ store.serial \in Nat /\ store.encryptions \in 0..MaxEncryptions
        /\ store.signer \subseteq [key: Key, provisional: BOOLEAN]
        /\ Single(store.signer)
        /\ MaxEncryptions \in Nat
        /\ s.key \in Key
    BY CustodyAssumption, Zenon DEF CustodyInv, Store, SessionRecord
  <2> DEFINE row == [revision |-> store.serial + 1, reference |-> s.key,
                     sealed |-> sealEnvelope(associatedData(store.serial + 1, s.key), s)]
  <2>2. store' = [session |-> {row}, signer |-> MadeFirm(store.signer),
                  encryptions |-> store.encryptions + 1, serial |-> store.serial + 1]
    BY <1>2, Zenon DEF CustodyInv, Store, Stored, consumeEncryption, MadeFirm
  <2>3. row \in [revision: Nat \ {0}, reference: Key, sealed: Envelope(Key)]
    BY <2>1 DEF sealEnvelope, associatedData, Envelope
  <2>6. KeepsFirm /\ Firm(s.key)'
    <3>1. store'.signer = MadeFirm(store.signer)
      BY <2>2
    <3>2. KeepsFirm
      BY <3>1, FirmStays, Zenon DEF KeepsFirm, Firm
    <3>3. Firm(s.key)'
      BY <1>2, <3>1, Zenon DEF Firm, Opens, MadeFirm
    <3>. QED
      BY <3>2, <3>3, Zenon
  <2>7. store'.signer \subseteq [key: Key, provisional: BOOLEAN] /\ Single(store'.signer)
    <3>1. store'.signer = MadeFirm(store.signer)
      BY <2>2
    <3>2. ASSUME NEW h \in MadeFirm(store.signer)
          PROVE  \E g \in store.signer : h = [key |-> g.key, provisional |-> FALSE]
      BY Zenon DEF MadeFirm
    <3>3. MadeFirm(store.signer) \subseteq [key: Key, provisional: BOOLEAN]
      <4>1. ASSUME NEW g \in store.signer
            PROVE  [key |-> g.key, provisional |-> FALSE] \in [key: Key, provisional: BOOLEAN]
        <5>1. g \in [key: Key, provisional: BOOLEAN]
          BY <2>1, Zenon
        <5>2. g.key \in Key
          BY <5>1, Zenon
        <5>. QED
          BY <5>2, Zenon
      <4>. QED
        BY <3>2, <4>1, Zenon
    <3>4. Single(MadeFirm(store.signer))
      BY <2>1, <3>2, Zenon DEF Single
    <3>. QED
      BY <3>1, <3>3, <3>4, Zenon
  <2>8. store' \in Store(Key) /\ Single(store'.session)
    <3>1. store.encryptions + 1 \in 0..MaxEncryptions /\ store.serial + 1 \in Nat
      BY <1>2, <2>1
    <3>2. MadeFirm(store.signer) \in SUBSET [key: Key, provisional: BOOLEAN]
      BY <2>2, <2>7
    <3>3. {row} \in SUBSET [revision: Nat \ {0}, reference: Key, sealed: Envelope(Key)] /\ Single({row})
      BY <2>3, Zenon DEF Single
    <3> HIDE DEF row
    <3>. QED
      BY <2>2, <3>1, <3>2, <3>3, StoreFields DEF Store
  <2>9. RowInv'
    BY <2>2, <2>6 DEF RowInv, Local, sealEnvelope
  <2>. QED
    BY <2>6, <2>7, <2>8, <2>9, Zenon DEF CustodyInv, CloudInv, Local
<1>. QED
  BY <1>1, <1>2, CustodyAssumption DEF Save, Result, CustodyInv, Store

\* Removing the session, in either custody, touches no key.
LEMMA RemovalKeeps ==
  ASSUME CustodyInv, UNCHANGED backend,
         store' = store \/ store' = [store EXCEPT !.session = {}]
  PROVE  CustodyInv' /\ KeepsFirm
  BY Zenon DEF CustodyInv, Store, RowInv, CloudInv, KeepsFirm, Firm, Local, Single

\* A new key is only stored where there is none.
LEMMA InsertKeeps ==
  ASSUME CustodyInv, NEW k \in Key, store' = InsertSigner(store, k).db, UNCHANGED backend
  PROVE  CustodyInv' /\ KeepsFirm
<1>1. CASE store' = store
  BY <1>1, Zenon DEF CustodyInv, RowInv, CloudInv, KeepsFirm, Firm, Local
<1>2. CASE /\ store.signer = {} /\ store.encryptions < MaxEncryptions
           /\ store' = [consumeEncryption(store) EXCEPT !.signer = {[key |-> k, provisional |-> TRUE]}]
  <2>1. store.session = {} /\ Local
    BY <1>2, Zenon DEF CustodyInv, RowInv, CloudInv, Firm
  <2>2. store' = [session |-> {}, signer |-> {[key |-> k, provisional |-> TRUE]},
                  encryptions |-> store.encryptions + 1, serial |-> store.serial]
    BY <1>2, <2>1, Zenon DEF CustodyInv, Store, consumeEncryption
  <2>3. store' \in Store(Key) /\ Single(store'.session) /\ Single(store'.signer)
    <3>1. store.encryptions + 1 \in 0..MaxEncryptions /\ store.serial \in Nat
      BY <1>2, CustodyAssumption DEF CustodyInv, Store
    <3>2. {[key |-> k, provisional |-> TRUE]} \in SUBSET [key: Key, provisional: BOOLEAN]
      OBVIOUS
    <3>3. {} \in SUBSET [revision: Nat \ {0}, reference: Key, sealed: Envelope(Key)]
      BY Zenon
    <3>4. store' \in Store(Key)
      BY <2>2, <3>1, <3>2, <3>3, StoreFields DEF Store
    <3>5. \A x : Single({x})
      BY Zenon DEF Single
    <3>6. Single({})
      BY Zenon DEF Single
    <3>7. store'.session = {} /\ store'.signer = {[key |-> k, provisional |-> TRUE]}
      BY <2>2
    <3>. QED
      BY <3>4, <3>5, <3>6, <3>7, Zenon
  <2>. QED
    BY <1>2, <2>1, <2>2, <2>3 DEF CustodyInv, RowInv, CloudInv, KeepsFirm, Firm, Local
<1>. QED
  BY <1>1, <1>2, CustodyAssumption DEF InsertSigner, Result, CustodyInv, Store

\* Retire removes a provisional key only.
LEMMA RetireKeeps ==
  ASSUME CustodyInv, NEW k, store' = Retire(store, k).db, UNCHANGED backend
  PROVE  CustodyInv' /\ KeepsFirm
<1>1. CASE store' = store
  BY <1>1, Zenon DEF CustodyInv, RowInv, CloudInv, KeepsFirm, Firm, Local
<1>2. ASSUME NEW g \in store.signer, g.key = k, g.provisional,
             store' = [store EXCEPT !.signer = {h \in @ : h.key # k}]
      PROVE  CustodyInv' /\ KeepsFirm
  <2>1. store.signer = {g}
    BY <1>2, Zenon DEF CustodyInv, Single
  <2>2. \A j : ~Firm(j)
    BY <1>2, <2>1 DEF Firm
  <2>3. store.session = {} /\ Local
    BY <2>1, <2>2, Zenon DEF CustodyInv, RowInv, CloudInv, Firm
  <2>4. store' = [session |-> {}, signer |-> {}, encryptions |-> store.encryptions, serial |-> store.serial]
    BY <1>2, <2>1, <2>3, Zenon DEF CustodyInv, Store
  <2>5. store' \in Store(Key) /\ Single(store'.session) /\ Single(store'.signer)
    BY <2>4 DEF CustodyInv, Store, Single
  <2>. QED
    BY <2>2, <2>3, <2>4, <2>5 DEF CustodyInv, RowInv, CloudInv, KeepsFirm, Local
<1>. QED
  BY <1>1, <1>2, Zenon DEF Retire, Result, CustodyInv, Store

\* A write to Cloud Storage replaces the object by a record of the one key.
LEMMA PutKeeps ==
  ASSUME CustodyInv, ~Local, NEW e, NEW s \in SessionRecord(Key), Firm(s.key),
         store' = Put(store, e, s).db, UNCHANGED backend
  PROVE  CustodyInv' /\ KeepsFirm
<1>1. CASE store' = store
  BY <1>1, Zenon DEF CustodyInv, RowInv, CloudInv, KeepsFirm, Firm, Local
<1> DEFINE row == [revision |-> store.serial + 1, reference |-> s.key, sealed |-> Encrypt(s)]
<1>2. CASE store' = [store EXCEPT !.session = {row}, !.serial = @ + 1]
  <2>1. store.serial \in Nat /\ s.key \in Key
    BY Zenon DEF CustodyInv, Store, SessionRecord
  <2>2. row \in [revision: Nat \ {0}, reference: Key, sealed: Envelope(Key)]
    BY <2>1 DEF Encrypt, sealEnvelope, Envelope
  <2>3. /\ store' \in Store(Key) /\ store'.session = {row} /\ store'.signer = store.signer
    <3>1. {row} \in SUBSET [revision: Nat \ {0}, reference: Key, sealed: Envelope(Key)]
      BY <2>2, Zenon
    <3> HIDE DEF row
    <3>2. store' = [session |-> {row}, signer |-> store.signer,
                    encryptions |-> store.encryptions, serial |-> store.serial + 1]
      BY <1>2, Zenon DEF CustodyInv, Store
    <3>3. /\ store.signer \in SUBSET [key: Key, provisional: BOOLEAN]
          /\ store.encryptions \in 0..MaxEncryptions
          /\ store.serial + 1 \in Nat
      BY <2>1 DEF CustodyInv, Store
    <3>4. store' \in Store(Key)
      BY <3>1, <3>2, <3>3, StoreFields DEF Store
    <3>. QED
      BY <3>2, <3>4
  <2>4. row.reference = s.key /\ row.sealed.text.key = s.key /\ row.sealed.aad = AssociatedData
    BY Zenon DEF Encrypt, sealEnvelope
  <2>5. KeepsFirm /\ Firm(s.key)'
    BY <2>3, Zenon DEF KeepsFirm, Firm
  <2>6. RowInv'
    <3> HIDE DEF row
    <3>. QED
      BY <2>3, <2>4, <2>5, Zenon DEF RowInv, Local
  <2>. QED
    BY <2>3, <2>5, <2>6, Zenon DEF CustodyInv, CloudInv, Local, Single
<1>. QED
  BY <1>1, <1>2, Zenon DEF Put, Result

\* A late request lands on a cloud custody.
LEMMA LandKeeps ==
  ASSUME IInv, NEW w \in late, Land(w)
  PROVE  IInv'
<1>1. ~Local /\ CustodyInv /\ w \in Write /\ UNCHANGED <<now, backend, relay, call>>
  BY Zenon DEF IInv, LateInv, TypeOK, Land
<1>2. CustodyInv' /\ KeepsFirm
  <2>1. ASSUME NEW v, store' = DeleteObject(store, v).db  PROVE CustodyInv' /\ KeepsFirm
    BY <1>1, <2>1, RemovalKeeps, Zenon DEF DeleteObject, Result
  <2>2. ASSUME NEW s \in w.record, store' = Put(store, w.expected, s).db
        PROVE  CustodyInv' /\ KeepsFirm
    <3>1. s \in SessionRecord(Key) /\ Firm(s.key)
      BY <1>1, Zenon DEF Write, IInv, LateInv
    <3>. QED
      BY <1>1, <2>2, <3>1, PutKeeps, Zenon
  <2>. QED
    BY <2>1, <2>2, Zenon DEF Land
<1>3. LateInv' /\ late' \subseteq Write
  BY <1>1, <1>2, Zenon DEF IInv, TypeOK, LateInv, Land, KeepsFirm, Local
<1>4. CallInv'
  BY <1>1, <1>2, Zenon DEF IInv, CallInv, KeepsFirm
<1>. QED
  BY <1>1, <1>2, <1>3, <1>4, Zenon DEF IInv, TypeOK, CustodyInv

(***************************************************************************)
(* The steps of a call                                                     *)
(***************************************************************************)

\* The state a step starts from.
LEMMA CallAt ==
  ASSUME IInv, NEW c \in Client, NEW step, NEW x \in At(c, step)
  PROVE  /\ x \in Call /\ x.at = step /\ x \in call[c]
         /\ x.key \subseteq Key /\ x.record \subseteq SessionRecord(Key)
         /\ x.expected \subseteq Nat \ {0}
<1>1. x \in Call /\ x.at = step /\ x \in call[c]
  BY Zenon DEF IInv, TypeOK, At
<1>. QED
  BY <1>1, Zenon DEF Call

\* Going on to a step that relies on no key, or with keys that are firm.
LEMMA GotoMoves ==
  ASSUME NEW c, NEW x \in Call, NEW step \in Step, Goto(c, x, step),
         step \in Using => \A k \in x.key : Firm(k)'
  PROVE  CallerMoves(c)
<1> DEFINE y == [x EXCEPT !.at = step]
<1>1. y \in Call /\ y.at = step /\ y.key = x.key
  BY Zenon DEF Call
<1>2. Become(c, y)
  BY Zenon DEF Goto
<1> HIDE DEF y
<1>. QED
  BY <1>1, <1>2, Zenon DEF CallerMoves

\* The same when the call also takes a field over.
LEMMA BecomeMoves ==
  ASSUME NEW c, NEW y \in Call, Become(c, y), y.at \in Using => \A k \in y.key : Firm(k)'
  PROVE  CallerMoves(c)
  BY Zenon DEF CallerMoves

\* A step that only reads.
Reads == UNCHANGED <<now, backend, store, late, relay>>

\* ... keeps the invariant, whichever way the call goes on.
LEMMA ReadStep ==
  ASSUME IInv, NEW c \in Client, Reads, CallerMoves(c)
  PROVE  IInv'
<1>1. relay' \subseteq SessionRecord(Key) /\ IsFiniteSet(relay')
  BY Zenon DEF IInv, TypeOK, Reads
<1>. QED
  BY <1>1, QuietStep, Zenon DEF Reads

\* Begin, Abort and the steps that go on or end after looking at the custody.
LEMMA PlainSteps ==
  ASSUME IInv, NEW c \in Client,
         \/ \E kind \in {"bootstrap", "authorize", "remove"} : Begin(c, kind)
         \/ Abort(c) \/ OpenStep(c) \/ TokenStep(c) \/ SignStep(c) \/ VerifyStep(c)
         \/ SettleStep(c) \/ ReopenStep(c) \/ SignRequestStep(c) \/ CheckStep(c)
  PROVE  IInv'
<1>1. Reads
  BY Zenon DEF Reads, Begin, Abort, OpenStep, TokenStep, SignStep, VerifyStep, SettleStep,
         ReopenStep, SignRequestStep, CheckStep
<1>2. SUFFICES CallerMoves(c)
  BY <1>1, ReadStep, Zenon
<1>3. CASE End(c)
  BY <1>3, Zenon DEF CallerMoves
<1>4. ASSUME NEW kind \in {"bootstrap", "authorize", "remove"}, Begin(c, kind)  PROVE CallerMoves(c)
  <2> DEFINE y == [kind |-> kind, at |-> "load", expected |-> {}, key |-> {}, created |-> FALSE,
                   record |-> {}, written |-> {}]
  <2>1. y \in Call /\ y.at = "load"
    BY <1>4, Zenon DEF Call, Step
  <2>2. Become(c, y)
    BY <1>4, Zenon DEF Begin
  <2> HIDE DEF y
  <2>. QED
    BY <2>1, <2>2, BecomeMoves, Zenon DEF Using
<1>5. ASSUME NEW from, NEW to \in Step \ Using, NEW x \in At(c, from), Goto(c, x, to)
      PROVE  CallerMoves(c)
  <2>1. x \in Call
    BY CallAt, Zenon
  <2>. QED
    BY <1>5, <2>1, GotoMoves, Zenon
<1>6. {"token", "retire", "sign", "exchange", "reload", "again"} \subseteq Step \ Using
  BY Zenon DEF Step, Using
<1>. QED
  BY <1>3, <1>4, <1>5, <1>6, Zenon
  DEF Abort, OpenStep, TokenStep, SignStep, VerifyStep, SettleStep, ReopenStep,
      SignRequestStep, CheckStep

\* A call that loads a session takes its revision, or its record and its key,
\* which is firm.
LEMMA LoadSteps ==
  ASSUME IInv, NEW c \in Client,
         \/ LoadStep(c) \/ LoadSessionStep(c) \/ LoadRevisionStep(c)
         \/ ReloadStep(c) \/ OpenSessionStep(c)
  PROVE  IInv'
<1>1. Reads
  BY Zenon DEF Reads, LoadStep, LoadSessionStep, LoadRevisionStep, ReloadStep, OpenSessionStep
<1>2. SUFFICES CallerMoves(c)
  BY <1>1, ReadStep, Zenon
<1>3. CASE End(c)
  BY <1>3, Zenon DEF CallerMoves
<1>4. \A s \in Loaded : /\ s.revision \in Nat \ {0}
                        /\ s.record \in SessionRecord(Key)
                        /\ Firm(s.record.key)
  BY LoadedFacts, Zenon DEF IInv
<1>5. \A k : Firm(k) <=> Firm(k)'
  BY <1>1, Zenon DEF Reads, Firm
<1>6. {"find", "delete"} \subseteq Step \ Using /\ {"open_session", "sign_request", "reopen"} \subseteq Step
  BY Zenon DEF Step, Using
<1>7. CASE LoadStep(c)
  <2>1. ASSUME NEW x \in At(c, "load"), Goto(c, x, "find")  PROVE CallerMoves(c)
    BY <1>6, <2>1, CallAt, GotoMoves, Zenon
  <2>2. ASSUME NEW x \in At(c, "load"), NEW s \in Loaded,
               Become(c, [x EXCEPT !.at = "find", !.expected = {s.revision}])
        PROVE  CallerMoves(c)
    <3> DEFINE y == [x EXCEPT !.at = "find", !.expected = {s.revision}]
    <3>1. x \in Call /\ {s.revision} \in SUBSET (Nat \ {0})
      BY <1>4, CallAt
    <3>2. y \in Call /\ y.at = "find"
      BY <1>6, <3>1, Zenon DEF Call
    <3> HIDE DEF y
    <3>. QED
      BY <1>6, <2>2, <3>2, BecomeMoves, Zenon DEF y
  <2>. QED
    BY <1>3, <1>7, <2>1, <2>2, Zenon DEF LoadStep
<1>8. CASE LoadSessionStep(c)
  <2>1. ASSUME NEW x \in At(c, "load"), NEW s \in Loaded,
               Become(c, [x EXCEPT !.at = "open_session", !.key = {s.record.key},
                                   !.record = {s.record}])
        PROVE  CallerMoves(c)
    <3> DEFINE y == [x EXCEPT !.at = "open_session", !.key = {s.record.key}, !.record = {s.record}]
    <3>1. x \in Call /\ {s.record} \in SUBSET SessionRecord(Key) /\ {s.record.key} \in SUBSET Key
      BY <1>4, CallAt DEF SessionRecord
    <3>2. y \in Call /\ y.key = {s.record.key}
      BY <1>6, <3>1, Zenon DEF Call
    <3> HIDE DEF y
    <3>. QED
      BY <1>4, <1>5, <2>1, <3>2, BecomeMoves, Zenon DEF y
  <2>. QED
    BY <1>3, <1>8, <2>1, Zenon DEF LoadSessionStep
<1>9. CASE LoadRevisionStep(c)
  <2>1. ASSUME NEW x \in At(c, "load"), NEW s \in Loaded,
               Become(c, [x EXCEPT !.at = "delete", !.expected = {s.revision}])
        PROVE  CallerMoves(c)
    <3> DEFINE y == [x EXCEPT !.at = "delete", !.expected = {s.revision}]
    <3>1. x \in Call /\ {s.revision} \in SUBSET (Nat \ {0})
      BY <1>4, CallAt
    <3>2. y \in Call /\ y.at = "delete"
      BY <1>6, <3>1, Zenon DEF Call
    <3> HIDE DEF y
    <3>. QED
      BY <1>6, <2>1, <3>2, BecomeMoves, Zenon DEF y
  <2>. QED
    BY <1>3, <1>9, <2>1, Zenon DEF LoadRevisionStep
<1>10. CASE ReloadStep(c)
  <2>1. ASSUME NEW x \in At(c, "reload"), NEW s \in Loaded,
               NEW t \in Loaded, {t.record.key} = x.key,
               Become(c, [x EXCEPT !.at = "reopen", !.record = {s.record}])
        PROVE  CallerMoves(c)
    <3> DEFINE y == [x EXCEPT !.at = "reopen", !.record = {s.record}]
    <3>1. x \in Call /\ {s.record} \in SUBSET SessionRecord(Key)
      BY <1>4, CallAt
    <3>2. y \in Call /\ y.key = {t.record.key}
      BY <1>6, <2>1, <3>1, Zenon DEF Call
    <3> HIDE DEF y
    <3>. QED
      BY <1>4, <1>5, <2>1, <3>2, BecomeMoves, Zenon DEF y
  <2>. QED
    BY <1>3, <1>10, <2>1, Zenon DEF ReloadStep
<1>11. CASE OpenSessionStep(c)
  <2>1. ASSUME NEW x \in At(c, "open_session"), Goto(c, x, "sign_request")  PROVE CallerMoves(c)
    <3>1. x \in Call /\ x.at = "open_session" /\ x \in call[c]
      BY CallAt, Zenon
    <3>2. \A k \in x.key : Firm(k)'
      BY <1>5, <3>1, Zenon DEF IInv, CallInv, Using
    <3>. QED
      BY <1>6, <2>1, <3>1, <3>2, GotoMoves, Zenon
  <2>. QED
    BY <1>3, <1>11, <2>1, Zenon DEF OpenSessionStep
<1>. QED
  BY <1>7, <1>8, <1>9, <1>10, <1>11, Zenon

\* Finding the signer: the call learns a key it does not rely on yet.
LEMMA FindSteps ==
  ASSUME IInv, NEW c \in Client, ProvisionStep(c) \/ FindStep(c)
  PROVE  IInv'
<1>1. Reads
  BY Zenon DEF Reads, ProvisionStep, FindStep
<1>2. SUFFICES CallerMoves(c)
  BY <1>1, ReadStep, Zenon
<1>3. store.signer \subseteq [key: Key, provisional: BOOLEAN]
  BY Zenon DEF IInv, TypeOK, Store
<1>4. \A g \in store.signer : g.key \in Key
  BY <1>3, Zenon
<1>5. {"insert", "open", "token"} \subseteq Step \ Using
  BY Zenon DEF Step, Using
<1>6. ASSUME NEW x \in At(c, "find"), Goto(c, x, "insert")  PROVE CallerMoves(c)
  BY <1>5, <1>6, CallAt, GotoMoves, Zenon
<1>7. ASSUME NEW x \in At(c, "find"), NEW to \in {"open", "token"}, NEW K \in SUBSET Key,
             Become(c, [x EXCEPT !.at = to, !.key = K])
      PROVE  CallerMoves(c)
  <2> DEFINE y == [x EXCEPT !.at = to, !.key = K]
  <2>1. x \in Call
    BY CallAt, Zenon
  <2>2. y \in Call /\ y.at = to
    BY <1>5, <2>1, Zenon DEF Call
  <2> HIDE DEF y
  <2>. QED
    BY <1>5, <1>7, <2>2, BecomeMoves, Zenon DEF y
<1>8. {g.key : g \in store.signer} \in SUBSET Key /\ \A g \in store.signer : {g.key} \in SUBSET Key
  BY <1>4, Zenon
<1>. QED
  BY <1>6, <1>7, <1>8, Zenon DEF ProvisionStep, FindStep

\* The relay issues a session; the call that is answered carries it.
LEMMA ExchangeKeeps ==
  ASSUME IInv, NEW c \in Client, ExchangeStep(c)
  PROVE  IInv'
<1>0. PICK x \in At(c, "exchange") : \E k \in x.key :
        LET s == [epoch |-> Cardinality(relay) + 1, key |-> k, expires |-> now + Lifetime]
        IN  /\ relay' = relay \cup {s}
            /\ Become(c, [x EXCEPT !.at = "save", !.record = {s}]) \/ End(c)
  BY Zenon DEF ExchangeStep
<1>1. PICK k \in x.key :
        LET s == [epoch |-> Cardinality(relay) + 1, key |-> k, expires |-> now + Lifetime]
        IN  /\ relay' = relay \cup {s}
            /\ Become(c, [x EXCEPT !.at = "save", !.record = {s}]) \/ End(c)
  BY <1>0, Zenon
<1> DEFINE s == [epoch |-> Cardinality(relay) + 1, key |-> k, expires |-> now + Lifetime]
<1>2. x \in Call /\ k \in Key
  BY CallAt, Zenon
<1>3. Cardinality(relay) \in Nat /\ IsFiniteSet(relay) /\ relay \subseteq SessionRecord(Key)
  BY FS_CardinalityType, Zenon DEF IInv, TypeOK
<1>4. now + Lifetime \in Nat
  BY ClientAssumption DEF IInv, TypeOK
<1>5. s \in SessionRecord(Key)
  BY <1>2, <1>3, <1>4 DEF SessionRecord
<1> HIDE DEF s
<1>6. relay' \subseteq SessionRecord(Key) /\ IsFiniteSet(relay')
  BY <1>1, <1>3, <1>5, FS_AddElement, Zenon DEF s
<1>7. CallerMoves(c)
  <2> DEFINE y == [x EXCEPT !.at = "save", !.record = {s}]
  <2>1. {s} \in SUBSET SessionRecord(Key) /\ "save" \in Step \ Using
    BY <1>5, Zenon DEF Step, Using
  <2>2. y \in Call /\ y.at = "save"
    BY <1>2, <2>1, Zenon DEF Call
  <2>3. Become(c, y) \/ End(c)
    BY <1>1, Zenon DEF s
  <2> HIDE DEF y
  <2>. QED
    BY <2>1, <2>2, <2>3, BecomeMoves, Zenon DEF CallerMoves
<1>. QED
  BY <1>6, <1>7, QuietStep, Zenon DEF ExchangeStep

\* A step that changes the custody and leaves no request behind.
LEMMA LocalStep ==
  ASSUME IInv, NEW c \in Client, CallerMoves(c), CustodyInv', KeepsFirm,
         UNCHANGED <<now, backend, late, relay>>
  PROVE  IInv'
<1>1. LateInv' /\ late' \subseteq Write
  BY Zenon DEF IInv, TypeOK, LateInv, KeepsFirm, Local
<1>. QED
  BY <1>1, CustodyStep, Zenon

\* ProvisionP256 stores a new signer or finds that of another process.
LEMMA InsertStepKeeps ==
  ASSUME IInv, NEW c \in Client, InsertStep(c)
  PROVE  IInv'
<1> DEFINE k == store.encryptions + 1
           r == InsertSigner(store, k)
<1>1. PICK x \in At(c, "insert") :
        /\ store' = r.db
        /\ \/ Become(c, [x EXCEPT !.at = "open", !.key = {k}, !.created = TRUE])
           \/ Become(c, [x EXCEPT !.at = "open", !.key = {g.key : g \in store.signer}])
           \/ End(c)
  BY Zenon DEF InsertStep
<1>2. k \in Key /\ store.signer \subseteq [key: Key, provisional: BOOLEAN] /\ x \in Call
  BY CallAt, CustodyAssumption DEF IInv, TypeOK, Store, Key
<1>3. UNCHANGED <<now, backend, late, relay>>
  BY Zenon DEF InsertStep
<1>4. CustodyInv' /\ KeepsFirm
  BY <1>1, <1>2, <1>3, InsertKeeps, Zenon DEF IInv
<1>5. {k} \in SUBSET Key /\ {g.key : g \in store.signer} \in SUBSET Key
  <2>1. \A g \in store.signer : g.key \in Key
    BY <1>2, Zenon
  <2>. QED
    BY <1>2, <2>1, Zenon
<1> HIDE DEF k, r
<1>6. CallerMoves(c)
  <2> DEFINE y == [x EXCEPT !.at = "open", !.key = {k}, !.created = TRUE]
             z == [x EXCEPT !.at = "open", !.key = {g.key : g \in store.signer}]
  <2>1. "open" \in Step \ Using
    BY Zenon DEF Step, Using
  <2>2. y \in Call /\ y.at = "open"
    BY <1>2, <1>5, <2>1, Zenon DEF Call
  <2>3. z \in Call /\ z.at = "open"
    BY <1>2, <1>5, <2>1, Zenon DEF Call
  <2>4. Become(c, y) \/ Become(c, z) \/ End(c)
    BY <1>1, Zenon
  <2> HIDE DEF y, z
  <2>. QED
    BY <2>1, <2>2, <2>3, <2>4, BecomeMoves, Zenon DEF CallerMoves
<1>. QED
  BY <1>3, <1>4, <1>6, LocalStep, Zenon

\* The calls that end with what they do to the local store.
LEMMA LocalSteps ==
  ASSUME IInv, NEW c \in Client, RetireStep(c) \/ DeleteStep(c) \/ SaveStep(c)
  PROVE  IInv'
<1>1. UNCHANGED <<now, backend, late, relay>> /\ CustodyInv
  BY Zenon DEF RetireStep, DeleteStep, SaveStep, IInv
<1>2. CASE RetireStep(c)
  <2>1. CustodyInv' /\ KeepsFirm
    BY <1>1, <1>2, RetireKeeps, Zenon DEF RetireStep
  <2>. QED
    BY <1>1, <1>2, <2>1, LocalStep, Zenon DEF RetireStep, CallerMoves
<1>3. CASE DeleteStep(c)
  <2>1. CustodyInv' /\ KeepsFirm
    BY <1>1, <1>3, RemovalKeeps, Zenon DEF DeleteStep, Delete, Result
  <2>. QED
    BY <1>1, <1>3, <2>1, LocalStep, Zenon DEF DeleteStep, CallerMoves
<1>4. CASE SaveStep(c)
  <2>1. PICK x \in At(c, "save") : \E s \in x.record :
          /\ store' = Save(store, x.expected, s).db
          /\ Goto(c, x, "reload") \/ End(c)
    BY <1>4, Zenon DEF SaveStep
  <2>2. x \in Call /\ x.record \subseteq SessionRecord(Key)
    BY CallAt, Zenon
  <2>3. CustodyInv' /\ KeepsFirm
    BY <1>1, <1>4, <2>1, <2>2, SaveKeeps, Zenon DEF SaveStep
  <2>4. "reload" \in Step \ Using
    BY Zenon DEF Step, Using
  <2>5. CallerMoves(c)
    BY <2>1, <2>2, <2>4, GotoMoves, Zenon DEF CallerMoves
  <2>. QED
    BY <1>1, <2>3, <2>5, LocalStep, Zenon
<1>. QED
  BY <1>2, <1>3, <1>4, Zenon

\* A request to Cloud Storage that may outlive its answer writes the one key.
LEMMA LateKeeps ==
  ASSUME IInv, ~Local, NEW w \in Write, \A s \in w.record : Firm(s.key),
         late' = late \cup {w}, UNCHANGED <<backend, store>>
  PROVE  LateInv' /\ late' \subseteq Write /\ CustodyInv' /\ KeepsFirm
<1>1. LateInv' /\ late' \subseteq Write
  BY Zenon DEF IInv, TypeOK, LateInv, Firm, Local
<1>2. CustodyInv' /\ KeepsFirm
  BY Zenon DEF IInv, CustodyInv, RowInv, CloudInv, KeepsFirm, Firm, Local
<1>. QED
  BY <1>1, <1>2, Zenon

\* Save to Cloud Storage.
LEMMA PutStepKeeps ==
  ASSUME IInv, NEW c \in Client, PutStep(c)
  PROVE  IInv'
<1>1. ~Local /\ CustodyInv /\ CloudInv /\ UNCHANGED <<now, backend, relay>>
  BY Zenon DEF PutStep, IInv, CustodyInv
<1>2. PICK x \in At(c, "save") : \E s \in x.record :
        LET r == Put(store, x.expected, s)
        IN  /\ validRecord(store, s)
            /\ \/ /\ store' = r.db
                  /\ \/ /\ r.res = "ok"
                        /\ Become(c, [x EXCEPT !.at = "verify", !.written = {r.db.serial}])
                     \/ Goto(c, x, "settle")
                     \/ End(c)
                  /\ UNCHANGED late
               \/ /\ late' = late \cup {[expected |-> x.expected, record |-> {s}]}
                  /\ Goto(c, x, "settle")
                  /\ UNCHANGED store
  BY Zenon DEF PutStep, classifyStorageError
<1>3. PICK s \in x.record :
        LET r == Put(store, x.expected, s)
        IN  /\ validRecord(store, s)
            /\ \/ /\ store' = r.db
                  /\ \/ /\ r.res = "ok"
                        /\ Become(c, [x EXCEPT !.at = "verify", !.written = {r.db.serial}])
                     \/ Goto(c, x, "settle")
                     \/ End(c)
                  /\ UNCHANGED late
               \/ /\ late' = late \cup {[expected |-> x.expected, record |-> {s}]}
                  /\ Goto(c, x, "settle")
                  /\ UNCHANGED store
  BY <1>2, Zenon
<1>4. x \in Call /\ s \in SessionRecord(Key) /\ x.expected \in SUBSET (Nat \ {0})
  BY CallAt, Zenon
<1>5. Firm(s.key)
  BY <1>1, <1>3 DEF validRecord, Opens, CloudInv, Firm
<1>6. {"verify", "settle"} \subseteq Step \ Using
  BY Zenon DEF Step, Using
<1>7. Goto(c, x, "settle") \/ End(c) => CallerMoves(c)
  BY <1>4, <1>6, GotoMoves, Zenon DEF CallerMoves
<1>8. CASE /\ late' = late \cup {[expected |-> x.expected, record |-> {s}]}
           /\ Goto(c, x, "settle") /\ UNCHANGED store
  <2> DEFINE w == [expected |-> x.expected, record |-> {s}]
  <2>1. w \in Write /\ w.record = {s}
    BY <1>4, Zenon DEF Write
  <2>2. late' = late \cup {w}
    BY <1>8, Zenon
  <2> HIDE DEF w
  <2>3. LateInv' /\ late' \subseteq Write /\ CustodyInv' /\ KeepsFirm
    BY <1>1, <1>5, <1>8, <2>1, <2>2, LateKeeps, Zenon
  <2>. QED
    BY <1>1, <1>7, <1>8, <2>3, CustodyStep, Zenon
<1>9. CASE /\ store' = Put(store, x.expected, s).db
           /\ \/ /\ Put(store, x.expected, s).res = "ok"
                 /\ Become(c, [x EXCEPT !.at = "verify", !.written = {store'.serial}])
              \/ Goto(c, x, "settle")
              \/ End(c)
           /\ UNCHANGED late
  <2>1. CustodyInv' /\ KeepsFirm
    BY <1>1, <1>4, <1>5, <1>9, PutKeeps, Zenon
  <2>2. ASSUME Put(store, x.expected, s).res = "ok",
               Become(c, [x EXCEPT !.at = "verify", !.written = {store'.serial}])
        PROVE  CallerMoves(c)
    <3>0. store'.serial = store.serial + 1 /\ store.serial \in Nat
      BY <1>1, <1>9, <2>2, Zenon DEF Put, Result, CustodyInv, Store
    <3> DEFINE y == [x EXCEPT !.at = "verify", !.written = {store'.serial}]
    <3>1. {store'.serial} \in SUBSET (Nat \ {0})
      BY <3>0
    <3>2. y \in Call /\ y.at = "verify"
      BY <1>4, <1>6, <3>1, Zenon DEF Call
    <3> HIDE DEF y
    <3>. QED
      BY <1>6, <2>2, <3>2, BecomeMoves, Zenon DEF y
  <2>. QED
    BY <1>1, <1>7, <1>9, <2>1, <2>2, LocalStep, Zenon
<1>. QED
  BY <1>3, <1>8, <1>9, Zenon

\* Delete from Cloud Storage, and the repetition of it.
LEMMA RemoveStepKeeps ==
  ASSUME IInv, NEW c \in Client, RemoveStep(c)
  PROVE  IInv'
<1>1. ~Local /\ CustodyInv /\ UNCHANGED <<now, backend, relay>>
  BY Zenon DEF RemoveStep, IInv
<1>2. PICK x \in At(c, "delete") \cup At(c, "again") :
        /\ Goto(c, x, "check") \/ End(c)
        /\ \/ (\E v \in x.expected : store' = DeleteObject(store, v).db) /\ UNCHANGED late
           \/ late' = late \cup {[expected |-> x.expected, record |-> {}]} /\ UNCHANGED store
  BY Zenon DEF RemoveStep
<1>3. x \in Call /\ x.expected \in SUBSET (Nat \ {0})
  BY CallAt, Zenon
<1>4. CallerMoves(c)
  BY <1>2, <1>3, GotoMoves, Zenon DEF CallerMoves, Step, Using
<1>5. CASE (\E v \in x.expected : store' = DeleteObject(store, v).db) /\ UNCHANGED late
  <2>1. CustodyInv' /\ KeepsFirm
    BY <1>1, <1>5, RemovalKeeps, Zenon DEF DeleteObject, Result
  <2>. QED
    BY <1>1, <1>4, <1>5, <2>1, LocalStep, Zenon
<1>6. CASE late' = late \cup {[expected |-> x.expected, record |-> {}]} /\ UNCHANGED store
  <2> DEFINE w == [expected |-> x.expected, record |-> {}]
  <2>1. w \in Write /\ w.record = {}
    BY <1>3, Zenon DEF Write
  <2>2. late' = late \cup {w}
    BY <1>6, Zenon
  <2> HIDE DEF w
  <2>3. LateInv' /\ late' \subseteq Write /\ CustodyInv' /\ KeepsFirm
    BY <1>1, <1>6, <2>1, <2>2, LateKeeps, Zenon
  <2>. QED
    BY <1>1, <1>4, <2>3, CustodyStep, Zenon
<1>. QED
  BY <1>2, <1>5, <1>6, Zenon

(***************************************************************************)
(* The theorems                                                            *)
(***************************************************************************)

\* Both custodies start without a session, the cloud's with its key.
LEMMA InitHolds ==
  ASSUME Init
  PROVE  IInv
<1>1. IsFiniteSet(relay) /\ relay = {} /\ late = {} /\ now \in 0..MaxTime /\ backend \in Backend
  BY FS_EmptySet, ClientAssumption DEF Init
<1>2. call \in [Client -> SUBSET Call] /\ \A c \in Client : call[c] = {}
  BY Zenon DEF Init
<1>3. store \in Store(Key) /\ store.session = {} /\ Single(store.signer) /\ CloudInv
  <2>1. 0 \in 0..MaxEncryptions /\ 0 \in Nat /\ 1 \in Key
    BY CustodyAssumption DEF Key
  <2>2. /\ {} \in SUBSET [revision: Nat \ {0}, reference: Key, sealed: Envelope(Key)]
        /\ {} \in SUBSET [key: Key, provisional: BOOLEAN]
        /\ {[key |-> 1, provisional |-> FALSE]} \in SUBSET [key: Key, provisional: BOOLEAN]
    BY <2>1
  <2>3. CASE Local
    <3>1. store = [session |-> {}, signer |-> {}, encryptions |-> 0, serial |-> 0]
      BY <2>3, Zenon DEF Init, Local, EmptyStore
    <3>2. store \in Store(Key)
      BY <2>1, <2>2, <3>1, StoreFields, Zenon DEF Store
    <3>. QED
      BY <2>3, <3>1, <3>2, Zenon DEF CloudInv, Single
  <2>4. CASE ~Local
    <3>1. store = [session |-> {}, signer |-> {[key |-> 1, provisional |-> FALSE]},
                   encryptions |-> 0, serial |-> 0]
      BY <2>4, Zenon DEF Init, Local, EmptyStore, CloudStore
    <3>2. store \in Store(Key)
      BY <2>1, <2>2, <3>1, StoreFields, Zenon DEF Store
    <3>3. store.signer = {[key |-> 1, provisional |-> FALSE]} /\ store.session = {}
      BY <3>1, Zenon
    <3>4. \A z : Single({z})
      BY Zenon DEF Single
    <3>. QED
      BY <3>2, <3>3, <3>4, Zenon DEF CloudInv
  <2>. QED
    BY <2>3, <2>4, Zenon
<1>. QED
  BY <1>1, <1>2, <1>3, Zenon DEF IInv, TypeOK, CustodyInv, RowInv, LateInv, CallInv, Single

\* Every step keeps the invariant.
LEMMA NextKeeps ==
  ASSUME IInv, [Next]_vars
  PROVE  IInv'
<1>1. CASE UNCHANGED vars
  BY <1>1, Zenon DEF vars, IInv, TypeOK, CustodyInv, RowInv, CloudInv, LateInv, CallInv, Firm, Local
<1>2. CASE Tick
  <2>1. now' \in 0..MaxTime
    BY <1>2, ClientAssumption DEF Tick, IInv, TypeOK
  <2>. QED
    BY <1>2, <2>1, Zenon
    DEF Tick, IInv, TypeOK, CustodyInv, RowInv, CloudInv, LateInv, CallInv, Firm, Local
<1>3. ASSUME NEW w \in late, Land(w)  PROVE IInv'
  BY <1>3, LandKeeps, Zenon
<1>4. ASSUME NEW c \in Client, BootstrapStep(c)  PROVE IInv'
  BY <1>4, PlainSteps, LoadSteps, FindSteps, ExchangeKeeps, InsertStepKeeps, LocalSteps,
     PutStepKeeps, Zenon
  DEF BootstrapStep
<1>5. ASSUME NEW c \in Client,
             \/ \E kind \in {"bootstrap", "authorize", "remove"} : Begin(c, kind)
             \/ LoadSessionStep(c) \/ OpenSessionStep(c) \/ SignRequestStep(c)
             \/ LoadRevisionStep(c) \/ DeleteStep(c) \/ RemoveStep(c) \/ CheckStep(c) \/ Abort(c)
      PROVE  IInv'
  BY <1>5, PlainSteps, LoadSteps, LocalSteps, RemoveStepKeeps, Zenon
<1>. QED
  BY <1>1, <1>2, <1>3, <1>4, <1>5, Zenon DEF Next

\* Every reachable state of the clients satisfies the invariant.
LEMMA Reachable == Spec => []IInv
<1>1. Init => IInv
  BY InitHolds, Zenon
<1>2. IInv /\ [Next]_vars => IInv'
  BY NextKeeps, Zenon
<1>. QED
  BY <1>1, <1>2, PTL DEF Spec

\* A firm key can be opened and can sign.
LEMMA FirmIsUsable ==
  ASSUME NEW k, Firm(k)
  PROVE  Opens(store, k) /\ Signs(store, k)
<1> DEFINE g == [key |-> k, provisional |-> FALSE]
<1>1. g \in store.signer /\ g.key = k
  BY Zenon DEF Firm
<1> HIDE DEF g
<1>. QED
  BY <1>1, Zenon DEF Opens, Signs, loadPrivateKey

\* A stored session can always be loaded and its key is always in custody, also
\* for a call that loaded it before others saved, retired or removed something
\* (Save and Retire of localcustody, Save of gcpworkload, Bootstrap, Authorize).
THEOREM StoredSessionIsUsable == Spec => []SessionHasKey
<1>1. ASSUME IInv  PROVE SessionHasKey
  <2>1. /\ \A s \in Loaded : Firm(s.record.key)
        /\ Revisions(store) = {s.revision : s \in Loaded}
    BY <1>1, LoadedFacts, Zenon DEF IInv
  <2>2. ASSUME NEW c \in Client,
               NEW x \in At(c, "open_session") \cup At(c, "sign_request") \cup At(c, "reopen"),
               NEW k \in x.key
        PROVE  Opens(store, k) /\ Signs(store, k)
    <3>1. x \in call[c] /\ x.at \in Using
      BY Zenon DEF At, Using
    <3>2. Firm(k)
      BY <1>1, <3>1, Zenon DEF IInv, CallInv
    <3>. QED
      BY <3>2, FirmIsUsable, Zenon
  <2>. QED
    BY <2>1, <2>2, Zenon DEF SessionHasKey, Firm
<1>. QED
  BY <1>1, Reachable, PTL

\* Every state of the clients and of their custody has its type: an encryption
\* is never counted beyond the limit of the root key, and a profile has one
\* session and one signer at most.
THEOREM CustodyTypeCorrect == Spec => []TypeOK
<1>1. IInv => TypeOK
  BY Zenon DEF IInv
<1>. QED
  BY <1>1, Reachable, PTL

\* No rows that interrupted calls leave behind block the profile: a bootstrap
\* without a fault can always save (ProvisionP256 and Save of localcustody).
THEOREM ProfileIsNeverWedged == Spec => []NeverWedged
<1>1. ASSUME IInv  PROVE NeverWedged
  <2>1. SUFFICES ASSUME Local, store.encryptions + 2 <= MaxEncryptions,
                        NEW d, d = IF store.signer = {}
                                   THEN InsertSigner(store, store.encryptions + 1).db ELSE store,
                        NEW g \in d.signer, NEW s, s.key = g.key
                 PROVE  Save(d, Revisions(d), s).res = "ok"
    BY Zenon DEF NeverWedged
  <2>2. store.encryptions \in Nat /\ MaxEncryptions \in Nat /\ store \in Store(Key)
    BY <1>1, CustodyAssumption DEF IInv, TypeOK, Store
  <2>3. d.encryptions < MaxEncryptions
    BY <2>1, <2>2 DEF InsertSigner, Result, consumeEncryption, Store
  <2>4. d.encryptions \in Nat
    BY <2>1, <2>2 DEF InsertSigner, Result, consumeEncryption, Store
  <2>5. Opens(d, s.key)
    BY <2>1, Zenon DEF Opens
  <2>6. ~(d.encryptions >= MaxEncryptions)
    BY <2>2, <2>3, <2>4
  <2>. QED
    BY <2>5, <2>6, Zenon DEF Save, Result
<1>. QED
  BY <1>1, Reachable, PTL

(***************************************************************************)
(* Whose session is stored, and what it replaces                           *)
(*                                                                         *)
(* The argument: an epoch is issued once, so a record stands for the call  *)
(* it was issued to.  A bootstrap asks for a session only after it saw     *)
(* that the revision it means to replace expired; the relay answers with   *)
(* an epoch above all earlier ones, that of the stored record included.    *)
(* A revision is never used twice, so a request that lands late replaces   *)
(* what its call looked at, or nothing.                                    *)
(***************************************************************************)
\* The steps of a bootstrap from the load to the write ...
Asking == {"find", "insert", "open", "token", "retire", "sign", "exchange", "save"}

\* ... and those at which it has been issued a session.
Holding == {"save", "verify", "settle", "reload", "reopen"}

\* The revision v was issued, and its session expired if it is still stored.
Superseded(v) ==
  /\ v <= store.serial
  /\ \A row \in store.session : row.revision = v => row.sealed.text.expires <= now

\* The session r was issued after the one that is stored under the revision v.
Newer(v, r) ==
  \A row \in store.session : row.revision = v => row.sealed.text.epoch < r.epoch

\* The relay numbers its sessions.
RelayInv ==
  /\ \A r \in relay : r.epoch <= Cardinality(relay)
  /\ \A r, s \in relay : r.epoch = s.epoch => r = s

\* What is stored was issued by the relay.
IssuedInv ==
  \A row \in store.session : row.revision <= store.serial /\ row.sealed.text \in relay

LateReplaces ==
  \A w \in late : \A s \in w.record :
    s \in relay /\ \A v \in w.expected : Superseded(v) /\ Newer(v, s)

\* What a call knows of the revision it replaces and of the session it holds.
Sound(x) ==
  /\ x.at = "load" => x.expected = {}
  /\ x.at \in Asking => \A v \in x.expected : Superseded(v)
  /\ x.at = "save" => \A v \in x.expected, r \in x.record : Newer(v, r)
  /\ x.at \in Holding => x.record # {} /\ \A r \in x.record : r \in relay /\ r.key \in x.key

\* No two calls hold the same session.
Disjoint ==
  \A c, d \in Client : \A x \in call[c], y \in call[d] :
    c # d /\ x.at \in Holding /\ y.at \in Holding => x.record \cap y.record = {}

OwnInv ==
  /\ RelayInv
  /\ IssuedInv
  /\ LateReplaces
  /\ \A c \in Client : \A x \in call[c] : Sound(x)
  /\ Disjoint

\* No step of the store loses a revision it gave out or replaces the session it
\* holds, except by one that a call may put there (Save, Delete, Put).
Replaces(e, s) ==
  /\ Revisions(store) = e
  /\ store'.serial = store.serial + 1
  /\ \A row \in store'.session : row.revision = store.serial + 1 /\ row.sealed.text = s

StoreStep ==
  \/ store'.session \subseteq store.session /\ store'.serial = store.serial
  \/ \E e \in SUBSET Nat, s \in relay :
       (\A v \in e : Superseded(v) /\ Newer(v, s)) /\ Replaces(e, s)

\* The clock and the relay only advance.
Advances == now <= now' /\ relay \subseteq relay'

\* The clock is a number.
LEMMA NowIsTime ==
  ASSUME IInv
  PROVE  now \in Nat
<1>1. now \in 0..MaxTime
  BY Zenon DEF IInv, TypeOK
<1>. QED
  BY <1>1, ClientAssumption

\* A step that leaves the clock and the relay alone does not take them back.
LEMMA StandsStill ==
  ASSUME IInv, UNCHANGED <<now, relay>>
  PROVE  Advances
  BY NowIsTime DEF Advances

\* What is known of a revision stays true, since a new row has a new revision.
LEMMA RevisionStays ==
  ASSUME IInv, IInv', StoreStep, now <= now', NEW v \in Nat, Superseded(v)
  PROVE  /\ Superseded(v)'
         /\ \A r : Newer(v, r) => Newer(v, r)'
<1>1. /\ store.serial \in Nat /\ now \in Nat /\ now' \in Nat
      /\ \A row \in store.session : row.revision \in Nat /\ row.sealed.text.expires \in Nat
  <2>1. \A row \in store.session : row.revision \in Nat /\ row.sealed.text \in SessionRecord(Key)
    BY RowFields, Zenon DEF IInv
  <2>. QED
    BY <2>1, ClientAssumption DEF IInv, TypeOK, Store, SessionRecord
<1>2. /\ store'.serial \in Nat /\ store'.serial >= store.serial
      /\ \A row \in store'.session : row \in store.session \/ row.revision = store.serial + 1
  BY <1>1 DEF StoreStep, Replaces
<1>. QED
  BY <1>1, <1>2 DEF Superseded, Newer

\* ... and so is what a call that does not move knows.
LEMMA SoundStays ==
  ASSUME IInv, IInv', StoreStep, Advances, NEW x \in Call, Sound(x)
  PROVE  Sound(x)'
<1>1. \A v \in x.expected : v \in Nat
  BY Zenon DEF Call
<1>2. "save" \in Asking
  BY Zenon DEF Asking
<1>. QED
  BY <1>1, <1>2, RevisionStays, Zenon DEF Sound, Advances

\* A store step keeps what is stored among the sessions that were issued.
LEMMA IssuedStays ==
  ASSUME IInv, IssuedInv, StoreStep, Advances
  PROVE  IssuedInv'
<1>1. store.serial \in Nat
  BY Zenon DEF IInv, TypeOK, Store
<1>2. CASE store'.session \subseteq store.session /\ store'.serial = store.serial
  BY <1>2, Zenon DEF IssuedInv, Advances
<1>3. ASSUME NEW e, NEW s \in relay, Replaces(e, s)  PROVE IssuedInv'
  BY <1>1, <1>3 DEF IssuedInv, Advances, Replaces
<1>. QED
  BY <1>2, <1>3, Zenon DEF StoreStep

\* The requests that have been sent stay right, too.
LEMMA LateStays ==
  ASSUME IInv, IInv', LateReplaces, StoreStep, Advances, late' \subseteq late
  PROVE  LateReplaces'
<1>1. ASSUME NEW w \in late', NEW s \in w.record
      PROVE  s \in relay' /\ \A v \in w.expected : Superseded(v)' /\ Newer(v, s)'
  <2>1. w \in late /\ w \in Write /\ \A v \in w.expected : v \in Nat
    BY Zenon DEF IInv, TypeOK, Write
  <2>. QED
    BY <2>1, RevisionStays, Zenon DEF LateReplaces, Advances
<1>. QED
  BY <1>1, Zenon DEF LateReplaces

\* Client c ends its call, or goes on with a session that is new or that it has.
OwnMove(c) ==
  \/ End(c)
  \/ \E y \in Call :
       /\ Become(c, y)
       /\ Sound(y)'
       /\ y.at \in Holding =>
            \/ y.record \cap relay = {}
            \/ \E x \in call[c] : x.at \in Holding /\ y.record \subseteq x.record

\* A step of client c keeps the invariant if it keeps these parts of it.
LEMMA OwnStep ==
  ASSUME IInv, OwnInv, IInv', StoreStep, Advances, RelayInv', LateReplaces',
         NEW c \in Client, OwnMove(c)
  PROVE  OwnInv'
<1>1. IssuedInv'
  BY IssuedStays, Zenon DEF OwnInv
<1>2. \A d \in Client : \A x \in call[d] : x \in Call /\ Sound(x) /\ Sound(x)'
  <2>1. ASSUME NEW d \in Client, NEW x \in call[d]  PROVE x \in Call /\ Sound(x) /\ Sound(x)'
    <3>1. x \in Call /\ Sound(x)
      BY Zenon DEF IInv, TypeOK, OwnInv
    <3>. QED
      BY <3>1, SoundStays, Zenon
  <2>. QED
    BY <2>1, Zenon
<1>3. CASE End(c)
  <2>1. \A d \in Client : call'[d] \subseteq call[d]
    BY <1>3, Zenon DEF End, IInv, TypeOK
  <2>2. Disjoint'
    BY <2>1, Zenon DEF OwnInv, Disjoint
  <2>3. \A d \in Client : \A x \in call'[d] : Sound(x)'
    BY <1>2, <2>1, Zenon
  <2>. QED
    BY <1>1, <2>2, <2>3, Zenon DEF OwnInv
<1>4. ASSUME NEW y \in Call, Become(c, y), Sound(y)',
             y.at \in Holding =>
               \/ y.record \cap relay = {}
               \/ \E x \in call[c] : x.at \in Holding /\ y.record \subseteq x.record
      PROVE  OwnInv'
  <2>1. \A d \in Client : call'[d] = IF d = c THEN {y} ELSE call[d]
    BY <1>4, Zenon DEF Become, IInv, TypeOK
  <2>2. \A d \in Client : \A x \in call'[d] : Sound(x)'
    BY <1>2, <1>4, <2>1, Zenon
  <2>3. ASSUME NEW d \in Client, NEW x \in call[d], d # c, x.at \in Holding, y.at \in Holding
        PROVE  y.record \cap x.record = {}
    <3>1. x.record \subseteq relay
      BY <1>2, <2>3, Zenon DEF Sound
    <3>. QED
      BY <1>4, <2>3, <3>1, Zenon DEF OwnInv, Disjoint
  <2>4. Disjoint'
    <3>1. ASSUME NEW d \in Client, NEW f \in Client, NEW x \in call'[d], NEW z \in call'[f],
                 d # f, x.at \in Holding, z.at \in Holding
          PROVE  x.record \cap z.record = {}
      <4>1. CASE d = c
        BY <2>1, <2>3, <3>1, <4>1, Zenon
      <4>2. CASE f = c
        BY <2>1, <2>3, <3>1, <4>2, Zenon
      <4>3. CASE d # c /\ f # c
        BY <2>1, <3>1, <4>3, Zenon DEF OwnInv, Disjoint
      <4>. QED
        BY <4>1, <4>2, <4>3, Zenon
    <3>. QED
      BY <3>1, Zenon DEF Disjoint
  <2>. QED
    BY <1>1, <2>2, <2>4, Zenon DEF OwnInv
<1>. QED
  BY <1>3, <1>4, Zenon DEF OwnMove

\* A call that goes on within its phase keeps what it knows.
LEMMA TakesOver ==
  ASSUME IInv, OwnInv, IInv', StoreStep, Advances,
         NEW c \in Client, NEW x \in call[c], NEW y \in Call, Become(c, y),
         y.at \notin {"load", "save"},
         y.at \in Asking => x.at \in Asking \cup {"load"} /\ y.expected = x.expected,
         y.at \in Holding => x.at \in Holding /\ y.record = x.record /\ y.key = x.key
  PROVE  OwnMove(c)
<1>1. x \in Call /\ Sound(x)
  BY Zenon DEF IInv, TypeOK, OwnInv
<1>2. Sound(y)
  BY <1>1, Zenon DEF Sound
<1>3. Sound(y)'
  BY <1>2, SoundStays, Zenon
<1>. QED
  BY <1>3, Zenon DEF OwnMove

\* The same for a call that only changes its step.
LEMMA GoesOn ==
  ASSUME IInv, OwnInv, IInv', StoreStep, Advances,
         NEW c \in Client, NEW x \in call[c], NEW to \in Step \ {"load", "save"}, Goto(c, x, to),
         to \in Asking => x.at \in Asking \cup {"load"},
         to \in Holding => x.at \in Holding
  PROVE  OwnMove(c)
<1> DEFINE y == [x EXCEPT !.at = to]
<1>1. x \in Call
  BY Zenon DEF IInv, TypeOK
<1>2. y \in Call /\ y.at = to /\ y.expected = x.expected /\ y.record = x.record /\ y.key = x.key
  BY <1>1, Zenon DEF Call
<1>3. Become(c, y)
  BY Zenon DEF Goto
<1> HIDE DEF y
<1>. QED
  BY <1>2, <1>3, TakesOver, Zenon

\* A step that only reads is quiet for all but its call.
LEMMA ReadsAreQuiet ==
  ASSUME IInv, OwnInv, IInv', Reads
  PROVE  StoreStep /\ Advances /\ RelayInv' /\ LateReplaces'
<1>1. StoreStep /\ Advances
  <2>1. now \in Int
    BY NowIsTime
  <2>. QED
    BY <2>1 DEF Reads, StoreStep, Advances
<1>2. RelayInv'
  BY Zenon DEF Reads, OwnInv, RelayInv
<1>3. LateReplaces'
  BY <1>1, LateStays, Zenon DEF Reads, OwnInv
<1>. QED
  BY <1>1, <1>2, <1>3, Zenon

\* Begin, Abort and the steps that go on or end after looking at the custody.
LEMMA PlainOwn ==
  ASSUME IInv, OwnInv, IInv', NEW c \in Client,
         \/ \E kind \in {"bootstrap", "authorize", "remove"} : Begin(c, kind)
         \/ Abort(c) \/ OpenStep(c) \/ TokenStep(c) \/ SignStep(c) \/ VerifyStep(c)
         \/ SettleStep(c) \/ ReopenStep(c) \/ SignRequestStep(c) \/ CheckStep(c)
         \/ OpenSessionStep(c)
  PROVE  OwnInv'
<1>1. Reads
  BY Zenon DEF Reads, Begin, Abort, OpenStep, TokenStep, SignStep, VerifyStep, SettleStep,
         ReopenStep, SignRequestStep, CheckStep, OpenSessionStep
<1>2. StoreStep /\ Advances /\ RelayInv' /\ LateReplaces'
  BY <1>1, ReadsAreQuiet, Zenon
<1>3. SUFFICES OwnMove(c)
  BY <1>2, OwnStep, Zenon
<1>4. CASE End(c)
  BY <1>4, Zenon DEF OwnMove
<1>5. ASSUME NEW kind \in {"bootstrap", "authorize", "remove"}, Begin(c, kind)  PROVE OwnMove(c)
  <2> DEFINE y == [kind |-> kind, at |-> "load", expected |-> {}, key |-> {}, created |-> FALSE,
                   record |-> {}, written |-> {}]
  <2>1. y \in Call /\ y.at = "load" /\ y.expected = {}
    BY <1>5, Zenon DEF Call, Step
  <2>2. Become(c, y)
    BY <1>5, Zenon DEF Begin
  <2> HIDE DEF y
  <2>3. y.at \notin Asking \cup Holding /\ Sound(y)'
    BY <2>1, Zenon DEF Asking, Holding, Sound
  <2>. QED
    BY <2>1, <2>2, <2>3, Zenon DEF OwnMove
<1>6. ASSUME NEW from \in Asking, NEW to \in {"token", "retire", "sign", "exchange"},
             NEW x \in At(c, from), Goto(c, x, to)
      PROVE  OwnMove(c)
  <2>1. x \in call[c] /\ x.at = from
    BY Zenon DEF At
  <2>2. to \in Step \ {"load", "save"} /\ to \notin Holding
    BY Zenon DEF Step, Holding
  <2>. QED
    BY <1>2, <1>6, <2>1, <2>2, GoesOn, Zenon
<1>7. ASSUME NEW from \in Holding, NEW x \in At(c, from), Goto(c, x, "reload")  PROVE OwnMove(c)
  <2>1. x \in call[c] /\ x.at = from
    BY Zenon DEF At
  <2>2. "reload" \in Step \ {"load", "save"} /\ "reload" \notin Asking
    BY Zenon DEF Step, Asking
  <2>. QED
    BY <1>2, <1>7, <2>1, <2>2, GoesOn, Zenon
<1>8. ASSUME NEW from, NEW to \in {"again", "sign_request"}, NEW x \in At(c, from), Goto(c, x, to)
      PROVE  OwnMove(c)
  <2>1. x \in call[c]
    BY Zenon DEF At
  <2>2. to \in Step \ {"load", "save"} /\ to \notin Asking \cup Holding
    BY Zenon DEF Step, Asking, Holding
  <2>. QED
    BY <1>2, <1>8, <2>1, <2>2, GoesOn, Zenon
<1>9. {"open", "token", "sign"} \subseteq Asking /\ {"verify", "settle"} \subseteq Holding
  BY Zenon DEF Asking, Holding
<1>10. CASE Abort(c) \/ ReopenStep(c) \/ SignRequestStep(c)
  BY <1>4, <1>10, Zenon DEF Abort, ReopenStep, SignRequestStep
<1>11. CASE OpenStep(c) \/ TokenStep(c) \/ SignStep(c)
  BY <1>4, <1>6, <1>9, <1>11, Zenon DEF OpenStep, TokenStep, SignStep
<1>12. CASE VerifyStep(c) \/ SettleStep(c)
  BY <1>4, <1>7, <1>9, <1>12, Zenon DEF VerifyStep, SettleStep
<1>13. CASE CheckStep(c) \/ OpenSessionStep(c)
  BY <1>4, <1>8, <1>13, Zenon DEF CheckStep, OpenSessionStep
<1>. QED
  BY <1>5, <1>10, <1>11, <1>12, <1>13, Zenon

\* The steps that load a session or find the signer.
LEMMA LoadOwn ==
  ASSUME IInv, OwnInv, IInv', NEW c \in Client,
         \/ LoadStep(c) \/ LoadSessionStep(c) \/ LoadRevisionStep(c)
         \/ ProvisionStep(c) \/ FindStep(c)
  PROVE  OwnInv'
<1>1. Reads
  BY Zenon DEF Reads, LoadStep, LoadSessionStep, LoadRevisionStep, ProvisionStep, FindStep
<1>2. StoreStep /\ Advances /\ RelayInv' /\ LateReplaces'
  BY <1>1, ReadsAreQuiet, Zenon
<1>3. SUFFICES OwnMove(c)
  BY <1>2, OwnStep, Zenon
<1>4. CASE End(c)
  BY <1>4, Zenon DEF OwnMove
<1>5. \A s \in Loaded : s.revision \in Nat \ {0} /\ s.record \in SessionRecord(Key)
  BY LoadedFacts, Zenon DEF IInv
<1>6. \A g \in store.signer : g.key \in Key
  <2>1. store.signer \subseteq [key: Key, provisional: BOOLEAN]
    BY Zenon DEF IInv, TypeOK, Store
  <2>. QED
    BY <2>1, Zenon
<1>7. CASE LoadStep(c)
  <2>1. ASSUME NEW x \in At(c, "load"), Goto(c, x, "find")  PROVE OwnMove(c)
    <3>1. x \in call[c] /\ x.at = "load" /\ "find" \in Step \ {"load", "save"} /\ "find" \notin Holding
      BY Zenon DEF At, Step, Holding
    <3>. QED
      BY <1>2, <2>1, <3>1, GoesOn, Zenon
  <2>2. ASSUME NEW x \in At(c, "load"), NEW s \in Loaded, Expired(s),
               Become(c, [x EXCEPT !.at = "find", !.expected = {s.revision}])
        PROVE  OwnMove(c)
    <3> DEFINE y == [x EXCEPT !.at = "find", !.expected = {s.revision}]
    <3>1. x \in Call /\ {s.revision} \in SUBSET (Nat \ {0}) /\ "find" \in Step
      BY <1>5, CallAt DEF Step
    <3>2. y \in Call /\ y.at = "find" /\ y.expected = {s.revision}
      BY <3>1, Zenon DEF Call
    <3>3. Superseded(s.revision)
      <4>1. PICK row \in store.session : s = [revision |-> row.revision, record |-> row.sealed.text]
        BY LoadedRows, Zenon DEF IInv
      <4>2. \A other \in store.session : other = row
        BY <4>1, Zenon DEF IInv, TypeOK, Single
      <4>. QED
        BY <2>2, <4>1, <4>2, Zenon DEF Superseded, Expired, OwnInv, IssuedInv
    <3> HIDE DEF y
    <3>4. Sound(y)
      BY <3>2, <3>3, Zenon DEF Sound, Holding
    <3>5. Sound(y)'
      BY <1>2, <3>2, <3>4, SoundStays, Zenon
    <3>6. y.at \notin Holding
      BY <3>2, Zenon DEF Holding
    <3>7. Become(c, y)
      BY <2>2, Zenon DEF y
    <3>. QED
      BY <3>2, <3>5, <3>6, <3>7, Zenon DEF OwnMove
  <2>. QED
    BY <1>4, <1>7, <2>1, <2>2, Zenon DEF LoadStep
<1>8. CASE LoadSessionStep(c)
  <2>1. ASSUME NEW x \in At(c, "load"), NEW s \in Loaded,
               Become(c, [x EXCEPT !.at = "open_session", !.key = {s.record.key},
                                   !.record = {s.record}])
        PROVE  OwnMove(c)
    <3> DEFINE y == [x EXCEPT !.at = "open_session", !.key = {s.record.key}, !.record = {s.record}]
    <3>0. s.record \in SessionRecord(Key) /\ s.record.key \in Key
      BY <1>5, Zenon DEF SessionRecord
    <3>1. /\ x \in Call /\ x \in call[c]
          /\ {s.record} \in SUBSET SessionRecord(Key) /\ {s.record.key} \in SUBSET Key
          /\ "open_session" \in Step
      BY <3>0, CallAt, Zenon DEF Step
    <3>2. y \in Call /\ y.at = "open_session"
      BY <3>1, Zenon DEF Call
    <3>3. Become(c, y)
      BY <2>1, Zenon
    <3> HIDE DEF y
    <3>. QED
      BY <1>2, <3>1, <3>2, <3>3, TakesOver, Zenon DEF Asking, Holding
  <2>. QED
    BY <1>4, <1>8, <2>1, Zenon DEF LoadSessionStep
<1>9. CASE LoadRevisionStep(c)
  <2>1. ASSUME NEW x \in At(c, "load"), NEW s \in Loaded,
               Become(c, [x EXCEPT !.at = "delete", !.expected = {s.revision}])
        PROVE  OwnMove(c)
    <3> DEFINE y == [x EXCEPT !.at = "delete", !.expected = {s.revision}]
    <3>1. x \in Call /\ x \in call[c] /\ {s.revision} \in SUBSET (Nat \ {0}) /\ "delete" \in Step
      BY <1>5, CallAt DEF Step
    <3>2. y \in Call /\ y.at = "delete"
      BY <3>1, Zenon DEF Call
    <3>3. Become(c, y)
      BY <2>1, Zenon
    <3> HIDE DEF y
    <3>. QED
      BY <1>2, <3>1, <3>2, <3>3, TakesOver, Zenon DEF Asking, Holding
  <2>. QED
    BY <1>4, <1>9, <2>1, Zenon DEF LoadRevisionStep
<1>10. CASE ProvisionStep(c) \/ FindStep(c)
  <2>1. ASSUME NEW x \in At(c, "find"), Goto(c, x, "insert")  PROVE OwnMove(c)
    <3>1. /\ x \in call[c] /\ x.at = "find" /\ "insert" \in Step \ {"load", "save"}
          /\ "insert" \notin Holding /\ "find" \in Asking
      BY Zenon DEF At, Step, Holding, Asking
    <3>. QED
      BY <1>2, <2>1, <3>1, GoesOn, Zenon
  <2>2. ASSUME NEW x \in At(c, "find"), NEW to \in {"open", "token"}, NEW K \in SUBSET Key,
               Become(c, [x EXCEPT !.at = to, !.key = K])
        PROVE  OwnMove(c)
    <3> DEFINE y == [x EXCEPT !.at = to, !.key = K]
    <3>1. x \in Call /\ x \in call[c] /\ x.at = "find" /\ to \in Step
      BY CallAt, Zenon DEF Step
    <3>2. y \in Call /\ y.at = to /\ y.expected = x.expected
      BY <3>1, Zenon DEF Call
    <3>3. Become(c, y)
      BY <2>2, Zenon
    <3> HIDE DEF y
    <3>4. y.at \notin {"load", "save"} /\ y.at \notin Holding /\ x.at \in Asking
      BY <3>1, <3>2, Zenon DEF Asking, Holding
    <3>. QED
      BY <1>2, <3>1, <3>2, <3>3, <3>4, TakesOver, Zenon
  <2>3. {g.key : g \in store.signer} \in SUBSET Key /\ \A g \in store.signer : {g.key} \in SUBSET Key
    BY <1>6, Zenon
  <2>. QED
    BY <1>10, <2>1, <2>2, <2>3, Zenon DEF ProvisionStep, FindStep
<1>. QED
  BY <1>7, <1>8, <1>9, <1>10, Zenon

\* Bootstrap only goes on with what it reads back if that is the epoch it was
\* issued, hence the session it was issued.
LEMMA ReloadOwn ==
  ASSUME IInv, OwnInv, IInv', NEW c \in Client, ReloadStep(c)
  PROVE  OwnInv'
<1>1. Reads
  BY Zenon DEF Reads, ReloadStep
<1>2. StoreStep /\ Advances /\ RelayInv' /\ LateReplaces'
  BY <1>1, ReadsAreQuiet, Zenon
<1>3. SUFFICES OwnMove(c)
  BY <1>2, OwnStep, Zenon
<1>4. CASE End(c)
  BY <1>4, Zenon DEF OwnMove
<1>5. ASSUME NEW x \in At(c, "reload"), NEW t \in Loaded, NEW s \in Loaded,
             \A r \in x.record : t.record.epoch = r.epoch,
             Become(c, [x EXCEPT !.at = "reopen", !.record = {s.record}])
      PROVE  OwnMove(c)
  <2> DEFINE y == [x EXCEPT !.at = "reopen", !.record = {s.record}]
  <2>1. x \in Call /\ x \in call[c] /\ x.at = "reload" /\ x.at \in Holding /\ "reopen" \in Step
    BY CallAt, Zenon DEF Step, Holding
  <2>2. s.record \in SessionRecord(Key)
    BY LoadedFacts, Zenon DEF IInv
  <2>3. y \in Call /\ y.at = "reopen" /\ y.record = {s.record} /\ y.key = x.key
    BY <2>1, <2>2, Zenon DEF Call
  <2>4. Become(c, y)
    BY <1>5, Zenon
  <2> HIDE DEF y
  <2>5. s = t /\ s.record \in relay
    <3>1. PICK row \in store.session : s = [revision |-> row.revision, record |-> row.sealed.text]
      BY LoadedRows, Zenon DEF IInv
    <3>2. PICK other \in store.session : t = [revision |-> other.revision, record |-> other.sealed.text]
      BY LoadedRows, Zenon DEF IInv
    <3>3. row = other
      BY Zenon DEF IInv, TypeOK, Single
    <3>. QED
      BY <3>1, <3>2, <3>3, Zenon DEF OwnInv, IssuedInv
  <2>6. Sound(x)
    BY <2>1, Zenon DEF OwnInv
  <2>7. PICK r \in x.record : r \in relay /\ r.key \in x.key
    BY <2>1, <2>6, Zenon DEF Sound
  <2>8. s.record = r
    BY <1>5, <2>5, <2>7, Zenon DEF OwnInv, RelayInv
  <2>9. Sound(y)
    BY <2>3, <2>7, <2>8, Zenon DEF Sound, Asking
  <2>10. Sound(y)'
    BY <1>2, <2>3, <2>9, SoundStays, Zenon
  <2>11. y.record \subseteq x.record
    BY <2>3, <2>7, <2>8, Zenon
  <2>. QED
    BY <2>1, <2>3, <2>4, <2>10, <2>11, Zenon DEF OwnMove
<1>. QED
  BY <1>4, <1>5, Zenon DEF ReloadStep

\* The relay numbers what it issues above every session that is stored.
LEMMA ExchangeOwn ==
  ASSUME IInv, OwnInv, IInv', NEW c \in Client, ExchangeStep(c)
  PROVE  OwnInv'
<1>0. PICK x \in At(c, "exchange") : \E k \in x.key :
        LET s == [epoch |-> Cardinality(relay) + 1, key |-> k, expires |-> now + Lifetime]
        IN  /\ relay' = relay \cup {s}
            /\ Become(c, [x EXCEPT !.at = "save", !.record = {s}]) \/ End(c)
  BY Zenon DEF ExchangeStep
<1>1. PICK k \in x.key :
        LET s == [epoch |-> Cardinality(relay) + 1, key |-> k, expires |-> now + Lifetime]
        IN  /\ relay' = relay \cup {s}
            /\ Become(c, [x EXCEPT !.at = "save", !.record = {s}]) \/ End(c)
  BY <1>0, Zenon
<1>2. x \in Call /\ x.at = "exchange" /\ x \in call[c] /\ k \in Key
  BY CallAt, Zenon
<1>3. /\ Cardinality(relay) \in Nat /\ IsFiniteSet(relay) /\ relay \subseteq SessionRecord(Key)
      /\ \A r \in relay : r.epoch \in Nat
  BY FS_CardinalityType, Zenon DEF IInv, TypeOK, SessionRecord
<1>4. now + Lifetime \in Nat /\ now \in Nat
  BY ClientAssumption DEF IInv, TypeOK
<1>5. PICK s \in SessionRecord(Key) :
        s = [epoch |-> Cardinality(relay) + 1, key |-> k, expires |-> now + Lifetime]
  <2>1. [epoch |-> Cardinality(relay) + 1, key |-> k, expires |-> now + Lifetime] \in SessionRecord(Key)
    BY <1>2, <1>3, <1>4 DEF SessionRecord
  <2>. QED
    BY <2>1, Zenon
<1>6. s.epoch = Cardinality(relay) + 1 /\ s.key = k
  BY <1>5, Zenon
<1>7. relay' = relay \cup {s} /\ (Become(c, [x EXCEPT !.at = "save", !.record = {s}]) \/ End(c))
  BY <1>1, <1>5, Zenon
<1>8. s \notin relay /\ Cardinality(relay') = Cardinality(relay) + 1
  <2>1. s \notin relay
    BY <1>3, <1>6 DEF OwnInv, RelayInv
  <2>. QED
    BY <1>3, <1>7, <2>1, FS_AddElement, Zenon
<1>9. RelayInv'
  BY <1>3, <1>6, <1>7, <1>8 DEF OwnInv, RelayInv
<1>10. StoreStep /\ Advances /\ UNCHANGED <<now, backend, store, late>>
  BY <1>4, <1>7 DEF ExchangeStep, StoreStep, Advances
<1>11. LateReplaces'
  BY <1>10, LateStays, Zenon DEF OwnInv
<1>12. ASSUME Become(c, [x EXCEPT !.at = "save", !.record = {s}])  PROVE OwnMove(c)
  <2>1. {s} \in SUBSET SessionRecord(Key) /\ "save" \in Step
    BY Zenon DEF Step
  <2>2. PICK y \in Call : /\ y = [x EXCEPT !.at = "save", !.record = {s}]
                          /\ y.at = "save" /\ y.record = {s} /\ y.key = x.key
                          /\ y.expected = x.expected
    <3> DEFINE z == [x EXCEPT !.at = "save", !.record = {s}]
    <3>1. z \in Call /\ z.at = "save" /\ z.record = {s} /\ z.key = x.key /\ z.expected = x.expected
      BY <1>2, <2>1, Zenon DEF Call
    <3>. QED
      BY <3>1, Zenon
  <2>3. Become(c, y)
    BY <1>12, <2>2, Zenon
  <2>4. ASSUME NEW v \in x.expected  PROVE Superseded(v)' /\ Newer(v, s)'
    <3>1. Superseded(v)
      BY <1>2, Zenon DEF OwnInv, Sound, Asking
    <3>2. \A row \in store.session : row.sealed.text.epoch < s.epoch
      BY <1>3, <1>6 DEF OwnInv, IssuedInv, RelayInv
    <3>. QED
      BY <1>10, <3>1, <3>2, Zenon DEF Superseded, Newer
  <2>5. Sound(y)'
    BY <1>6, <1>7, <2>2, <2>4, Zenon DEF Sound
  <2>6. y.record \cap relay = {}
    BY <1>8, <2>2, Zenon
  <2>. QED
    BY <2>2, <2>3, <2>5, <2>6, Zenon DEF OwnMove
<1>13. OwnMove(c)
  BY <1>7, <1>12, Zenon DEF OwnMove
<1>. QED
  BY <1>9, <1>10, <1>11, <1>13, OwnStep, Zenon

\* A step of a client that changes the store only.
LEMMA StoreOwn ==
  ASSUME IInv, OwnInv, IInv', NEW c \in Client, OwnMove(c), StoreStep,
         UNCHANGED <<now, backend, late, relay>>
  PROVE  OwnInv'
<1>1. Advances
  BY StandsStill, Zenon
<1>2. RelayInv' /\ LateReplaces'
  BY <1>1, LateStays, Zenon DEF OwnInv, RelayInv
<1>. QED
  BY <1>1, <1>2, OwnStep, Zenon

\* The signer of a profile is not part of its session.
LEMMA SignerOwn ==
  ASSUME IInv, OwnInv, IInv', NEW c \in Client, InsertStep(c) \/ RetireStep(c) \/ DeleteStep(c)
  PROVE  OwnInv' /\ StoreStep
<1>1. UNCHANGED <<now, backend, late, relay>> /\ store \in Store(Key)
  BY Zenon DEF InsertStep, RetireStep, DeleteStep, IInv, TypeOK
<1>2. StoreStep
  <2>1. CASE InsertStep(c)
    BY <1>1, <2>1, Zenon DEF InsertStep, InsertSigner, consumeEncryption, Result, Store, StoreStep
  <2>2. CASE RetireStep(c)
    BY <1>1, <2>2, Zenon DEF RetireStep, Retire, Result, Store, StoreStep
  <2>3. CASE DeleteStep(c)
    BY <1>1, <2>3, Zenon DEF DeleteStep, Delete, Result, Store, StoreStep
  <2>. QED
    BY <2>1, <2>2, <2>3, Zenon
<1>3. Advances
  BY <1>1, StandsStill, Zenon
<1>4. OwnMove(c)
  <2>1. CASE End(c)
    BY <2>1, Zenon DEF OwnMove
  <2>2. ASSUME NEW x \in At(c, "insert"), NEW y \in Call, y.at = "open", y.expected = x.expected,
               Become(c, y)
        PROVE  OwnMove(c)
    <3>1. x \in call[c] /\ x.at = "insert"
      BY CallAt, Zenon
    <3>2. y.at \notin {"load", "save"} /\ y.at \notin Holding /\ x.at \in Asking
      BY <2>2, <3>1, Zenon DEF Asking, Holding
    <3>. QED
      BY <1>2, <1>3, <2>2, <3>1, <3>2, TakesOver, Zenon
  <2>3. CASE InsertStep(c)
    <3> DEFINE k == store.encryptions + 1
    <3>1. PICK x \in At(c, "insert") :
            \/ Become(c, [x EXCEPT !.at = "open", !.key = {k}, !.created = TRUE])
            \/ Become(c, [x EXCEPT !.at = "open", !.key = {g.key : g \in store.signer}])
            \/ End(c)
      BY <2>3, Zenon DEF InsertStep
    <3>2. k \in Key /\ store.signer \subseteq [key: Key, provisional: BOOLEAN] /\ x \in Call
      BY <1>1, CallAt, CustodyAssumption DEF Store, Key
    <3>3. \A g \in store.signer : g.key \in Key
      BY <3>2, Zenon
    <3>4. {k} \in SUBSET Key /\ {g.key : g \in store.signer} \in SUBSET Key
      BY <3>2, <3>3, Zenon
    <3> HIDE DEF k
    <3> DEFINE y == [x EXCEPT !.at = "open", !.key = {k}, !.created = TRUE]
               z == [x EXCEPT !.at = "open", !.key = {g.key : g \in store.signer}]
    <3>5. y \in Call /\ y.at = "open" /\ y.expected = x.expected
      BY <3>2, <3>4, Zenon DEF Call, Step
    <3>6. z \in Call /\ z.at = "open" /\ z.expected = x.expected
      BY <3>2, <3>4, Zenon DEF Call, Step
    <3>7. Become(c, y) \/ Become(c, z) \/ End(c)
      BY <3>1, Zenon
    <3> HIDE DEF y, z
    <3>. QED
      BY <2>1, <2>2, <3>5, <3>6, <3>7, Zenon
  <2>. QED
    BY <2>1, <2>3, Zenon DEF RetireStep, DeleteStep
<1>. QED
  BY <1>1, <1>2, <1>4, StoreOwn, Zenon

\* Save and a write to Cloud Storage replace the revision they expect, or nothing.
LEMMA WriteIsStoreStep ==
  ASSUME IInv, NEW e \in SUBSET Nat, NEW s \in relay,
         \A v \in e : Superseded(v) /\ Newer(v, s),
         store' = Save(store, e, s).db \/ store' = Put(store, e, s).db
  PROVE  StoreStep
<1>1. store \in Store(Key)
  BY Zenon DEF IInv, TypeOK
<1>2. CASE store' = store
  BY <1>2, Zenon DEF StoreStep
<1>3. CASE Revisions(store) = e /\ store' = Stored(store, s)
  <2> DEFINE row == [revision |-> store.serial + 1, reference |-> s.key,
                     sealed |-> sealEnvelope(associatedData(store.serial + 1, s.key), s)]
  <2>1. row.revision = store.serial + 1 /\ row.sealed.text = s
    BY Zenon DEF sealEnvelope
  <2>2. store'.session = {row} /\ store'.serial = store.serial + 1
    BY <1>1, <1>3, Zenon DEF Stored, consumeEncryption, Store
  <2> HIDE DEF row
  <2>. QED
    BY <1>3, <2>1, <2>2, Zenon DEF StoreStep, Replaces
<1>4. CASE /\ Revisions(store) = e
           /\ store' = [store EXCEPT !.session = {[revision |-> store.serial + 1, reference |-> s.key,
                                                   sealed |-> Encrypt(s)]},
                                     !.serial = @ + 1]
  <2> DEFINE row == [revision |-> store.serial + 1, reference |-> s.key, sealed |-> Encrypt(s)]
  <2>1. row.revision = store.serial + 1 /\ row.sealed.text = s
    BY Zenon DEF Encrypt, sealEnvelope
  <2>2. store'.session = {row} /\ store'.serial = store.serial + 1
    BY <1>1, <1>4, Zenon DEF Store
  <2> HIDE DEF row
  <2>. QED
    BY <1>4, <2>1, <2>2, Zenon DEF StoreStep, Replaces
<1>. QED
  BY <1>2, <1>3, <1>4, Zenon DEF Save, Put, Result

\* What a call that is about to save knows of the revision it expects.
LEMMA SavingCall ==
  ASSUME IInv, OwnInv, NEW c \in Client, NEW x \in At(c, "save"), NEW s \in x.record
  PROVE  /\ x \in Call /\ x \in call[c] /\ x.at = "save" /\ x.expected \in SUBSET Nat
         /\ s \in relay
         /\ \A v \in x.expected : Superseded(v) /\ Newer(v, s)
<1>1. x \in Call /\ x \in call[c] /\ x.at = "save" /\ x.expected \subseteq Nat \ {0}
  BY CallAt, Zenon
<1>2. Sound(x)
  BY <1>1, Zenon DEF OwnInv
<1>. QED
  BY <1>1, <1>2, Zenon DEF Sound, Asking, Holding

\* Save of the local store.
LEMMA SaveOwn ==
  ASSUME IInv, OwnInv, IInv', NEW c \in Client, SaveStep(c)
  PROVE  OwnInv' /\ StoreStep
<1>1. PICK x \in At(c, "save") : \E s \in x.record :
        /\ store' = Save(store, x.expected, s).db
        /\ Goto(c, x, "reload") \/ End(c)
  BY Zenon DEF SaveStep
<1>2. PICK s \in x.record : /\ store' = Save(store, x.expected, s).db
                            /\ Goto(c, x, "reload") \/ End(c)
  BY <1>1, Zenon
<1>3. /\ x \in Call /\ x \in call[c] /\ x.at = "save" /\ x.expected \in SUBSET Nat
      /\ s \in relay
      /\ \A v \in x.expected : Superseded(v) /\ Newer(v, s)
  BY SavingCall, Zenon
<1>4. StoreStep
  BY <1>2, <1>3, WriteIsStoreStep, Zenon
<1>5. UNCHANGED <<now, backend, late, relay>> /\ Advances
  BY StandsStill, Zenon DEF SaveStep
<1>6. "reload" \in Step \ {"load", "save"} /\ "reload" \notin Asking /\ "save" \in Holding
  BY Zenon DEF Step, Asking, Holding
<1>7. OwnMove(c)
  BY <1>2, <1>3, <1>4, <1>5, <1>6, GoesOn, Zenon DEF OwnMove
<1>. QED
  BY <1>4, <1>5, <1>7, StoreOwn, Zenon

\* A request that is sent replaces what its call may replace.
LEMMA SendOwn ==
  ASSUME IInv, OwnInv, IInv', NEW c \in Client, OwnMove(c), NEW w,
         \A s \in w.record : s \in relay /\ \A v \in w.expected : Superseded(v) /\ Newer(v, s),
         late' = late \cup {w}, UNCHANGED <<now, backend, store, relay>>
  PROVE  OwnInv' /\ StoreStep
<1>1. StoreStep /\ Advances
  BY StandsStill, Zenon DEF StoreStep
<1>2. RelayInv'
  BY Zenon DEF OwnInv, RelayInv
<1>3. LateReplaces'
  BY Zenon DEF OwnInv, LateReplaces, Superseded, Newer
<1>. QED
  BY <1>1, <1>2, <1>3, OwnStep, Zenon

\* Save to Cloud Storage, answered or not.
LEMMA PutOwn ==
  ASSUME IInv, OwnInv, IInv', NEW c \in Client, PutStep(c)
  PROVE  OwnInv' /\ StoreStep
<1>1. PICK x \in At(c, "save") : \E s \in x.record :
        \/ /\ store' = Put(store, x.expected, s).db
           /\ \/ Become(c, [x EXCEPT !.at = "verify", !.written = {Put(store, x.expected, s).db.serial}])
              \/ Goto(c, x, "settle")
              \/ End(c)
           /\ UNCHANGED late
        \/ /\ late' = late \cup {[expected |-> x.expected, record |-> {s}]}
           /\ Goto(c, x, "settle")
           /\ UNCHANGED store
  BY Zenon DEF PutStep, classifyStorageError
<1>2. PICK s \in x.record :
        \/ /\ store' = Put(store, x.expected, s).db
           /\ \/ Become(c, [x EXCEPT !.at = "verify", !.written = {Put(store, x.expected, s).db.serial}])
              \/ Goto(c, x, "settle")
              \/ End(c)
           /\ UNCHANGED late
        \/ /\ late' = late \cup {[expected |-> x.expected, record |-> {s}]}
           /\ Goto(c, x, "settle")
           /\ UNCHANGED store
  BY <1>1, Zenon
<1>3. /\ x \in Call /\ x \in call[c] /\ x.at = "save" /\ x.expected \in SUBSET Nat
      /\ s \in relay
      /\ \A v \in x.expected : Superseded(v) /\ Newer(v, s)
  BY SavingCall, Zenon
<1>4. UNCHANGED <<now, backend, relay>> /\ Advances
  BY StandsStill, Zenon DEF PutStep
<1>5. /\ "settle" \in Step \ {"load", "save"} /\ "settle" \notin Asking /\ "save" \in Holding
      /\ "verify" \in Step \ {"load", "save"} /\ "verify" \notin Asking
  BY Zenon DEF Step, Asking, Holding
<1>6. CASE /\ late' = late \cup {[expected |-> x.expected, record |-> {s}]}
           /\ Goto(c, x, "settle") /\ UNCHANGED store
  <2>1. StoreStep
    BY <1>6, Zenon DEF StoreStep
  <2>2. OwnMove(c)
    BY <1>3, <1>4, <1>5, <1>6, <2>1, GoesOn, Zenon
  <2> DEFINE w == [expected |-> x.expected, record |-> {s}]
  <2>3. w.expected = x.expected /\ w.record = {s} /\ late' = late \cup {w}
    BY <1>6, Zenon
  <2> HIDE DEF w
  <2>. QED
    BY <1>3, <1>4, <1>6, <2>2, <2>3, SendOwn
<1>7. CASE /\ store' = Put(store, x.expected, s).db
           /\ \/ Become(c, [x EXCEPT !.at = "verify", !.written = {store'.serial}])
              \/ Goto(c, x, "settle")
              \/ End(c)
           /\ UNCHANGED late
  <2>1. StoreStep
    BY <1>3, <1>7, WriteIsStoreStep, Zenon
  <2>2. ASSUME Become(c, [x EXCEPT !.at = "verify", !.written = {store'.serial}])  PROVE OwnMove(c)
    <3> DEFINE y == [x EXCEPT !.at = "verify", !.written = {store'.serial}]
    <3>1. y \in call'[c]
      BY <2>2, Zenon DEF Become, IInv, TypeOK
    <3>2. y \in Call
      BY <3>1, Zenon DEF IInv, TypeOK
    <3>3. y.at = "verify" /\ y.record = x.record /\ y.key = x.key
      BY <1>3, Zenon DEF Call
    <3>4. Become(c, y)
      BY <2>2, Zenon
    <3> HIDE DEF y
    <3>. QED
      BY <1>3, <1>4, <1>5, <2>1, <3>2, <3>3, <3>4, TakesOver, Zenon
  <2>3. OwnMove(c)
    BY <1>3, <1>4, <1>5, <1>7, <2>1, <2>2, GoesOn, Zenon DEF OwnMove
  <2>. QED
    BY <1>4, <1>7, <2>1, <2>3, StoreOwn, Zenon
<1>. QED
  BY <1>2, <1>6, <1>7, Zenon

\* Delete from Cloud Storage only removes.
LEMMA RemoveOwn ==
  ASSUME IInv, OwnInv, IInv', NEW c \in Client, RemoveStep(c)
  PROVE  OwnInv' /\ StoreStep
<1>1. PICK x \in At(c, "delete") \cup At(c, "again") :
        /\ Goto(c, x, "check") \/ End(c)
        /\ \/ (\E v \in x.expected : store' = DeleteObject(store, v).db) /\ UNCHANGED late
           \/ late' = late \cup {[expected |-> x.expected, record |-> {}]} /\ UNCHANGED store
  BY Zenon DEF RemoveStep
<1>2. x \in call[c] /\ UNCHANGED <<now, backend, relay>> /\ Advances
  BY StandsStill, Zenon DEF At, RemoveStep
<1>3. StoreStep
  BY <1>1, Zenon DEF StoreStep, DeleteObject, Result, IInv, TypeOK, Store
<1>4. "check" \in Step \ {"load", "save"} /\ "check" \notin Asking /\ "check" \notin Holding
  BY Zenon DEF Step, Asking, Holding
<1>5. OwnMove(c)
  BY <1>1, <1>2, <1>3, <1>4, GoesOn, Zenon DEF OwnMove
<1>6. CASE UNCHANGED late
  BY <1>2, <1>3, <1>5, <1>6, StoreOwn, Zenon
<1>7. CASE late' = late \cup {[expected |-> x.expected, record |-> {}]} /\ UNCHANGED store
  <2> DEFINE w == [expected |-> x.expected, record |-> {}]
  <2>1. w.record = {} /\ late' = late \cup {w}
    BY <1>7, Zenon
  <2> HIDE DEF w
  <2>. QED
    BY <1>2, <1>5, <1>7, <2>1, SendOwn, Zenon
<1>. QED
  BY <1>1, <1>6, <1>7, Zenon

\* A step of the environment: the calls stay as they are.
LEMMA EnvironmentOwn ==
  ASSUME IInv, OwnInv, IInv', StoreStep, Advances, UNCHANGED <<relay, call>>, late' \subseteq late
  PROVE  OwnInv'
<1>1. IssuedInv' /\ LateReplaces' /\ RelayInv' /\ Disjoint'
  BY IssuedStays, LateStays DEF OwnInv, RelayInv, Disjoint
<1>2. ASSUME NEW c \in Client, NEW x \in call'[c]  PROVE Sound(x)'
  <2>1. x \in Call /\ Sound(x)
    BY Zenon DEF IInv, TypeOK, OwnInv
  <2>. QED
    BY <2>1, SoundStays, Zenon
<1>. QED
  BY <1>1, <1>2, Zenon DEF OwnInv

\* A request that lands late replaces what its call looked at, or nothing.
LEMMA LandOwn ==
  ASSUME IInv, OwnInv, IInv', NEW w \in late, Land(w)
  PROVE  OwnInv' /\ StoreStep
<1>1. StoreStep
  <2>1. ASSUME NEW v, store' = DeleteObject(store, v).db  PROVE StoreStep
    BY <2>1, Zenon DEF StoreStep, DeleteObject, Result, IInv, TypeOK, Store
  <2>2. ASSUME NEW s \in w.record, store' = Put(store, w.expected, s).db  PROVE StoreStep
    <3>1. w \in Write
      BY Zenon DEF IInv, TypeOK
    <3>2. w.expected \in SUBSET Nat
      BY <3>1, Zenon DEF Write
    <3>. QED
      BY <2>2, <3>2, WriteIsStoreStep, Zenon DEF OwnInv, LateReplaces
  <2>. QED
    BY <2>1, <2>2, Zenon DEF Land
<1>2. Advances /\ late' \subseteq late
  BY StandsStill, Zenon DEF Land
<1>. QED
  BY <1>1, <1>2, EnvironmentOwn, Zenon DEF Land

\* Every step keeps the invariant, and replaces a session only by a newer one.
LEMMA NextOwn ==
  ASSUME IInv, OwnInv, [Next]_vars
  PROVE  OwnInv' /\ StoreStep
<1>0. IInv' /\ now \in Int
  BY NextKeeps, NowIsTime
<1>1. CASE UNCHANGED vars
  <2>1. Reads /\ UNCHANGED call
    BY <1>1, Zenon DEF vars, Reads
  <2>2. StoreStep /\ Advances
    BY <1>0, <2>1, ReadsAreQuiet, Zenon
  <2>. QED
    BY <1>0, <1>1, <2>1, <2>2, EnvironmentOwn, Zenon DEF Reads
<1>2. CASE Tick
  <2>1. StoreStep /\ Advances
    BY <1>0, <1>2 DEF Tick, StoreStep, Advances
  <2>. QED
    BY <1>0, <1>2, <2>1, EnvironmentOwn, Zenon DEF Tick
<1>3. ASSUME NEW w \in late, Land(w)  PROVE OwnInv' /\ StoreStep
  BY <1>0, <1>3, LandOwn, Zenon
<1>4. ASSUME NEW c \in Client,
             \/ \E kind \in {"bootstrap", "authorize", "remove"} : Begin(c, kind)
             \/ Abort(c) \/ OpenStep(c) \/ TokenStep(c) \/ SignStep(c) \/ VerifyStep(c)
             \/ SettleStep(c) \/ ReopenStep(c) \/ SignRequestStep(c) \/ CheckStep(c)
             \/ OpenSessionStep(c)
      PROVE  OwnInv' /\ StoreStep
  <2>1. Reads
    BY <1>4, Zenon DEF Reads, Begin, Abort, OpenStep, TokenStep, SignStep, VerifyStep, SettleStep,
                ReopenStep, SignRequestStep, CheckStep, OpenSessionStep
  <2>. QED
    BY <1>0, <1>4, <2>1, ReadsAreQuiet, PlainOwn, Zenon
<1>5. ASSUME NEW c \in Client,
             \/ LoadStep(c) \/ LoadSessionStep(c) \/ LoadRevisionStep(c)
             \/ ProvisionStep(c) \/ FindStep(c)
      PROVE  OwnInv' /\ StoreStep
  <2>1. Reads
    BY <1>5, Zenon DEF Reads, LoadStep, LoadSessionStep, LoadRevisionStep, ProvisionStep, FindStep
  <2>. QED
    BY <1>0, <1>5, <2>1, ReadsAreQuiet, LoadOwn, Zenon
<1>6. ASSUME NEW c \in Client, ReloadStep(c)  PROVE OwnInv' /\ StoreStep
  <2>1. Reads
    BY <1>6, Zenon DEF Reads, ReloadStep
  <2>. QED
    BY <1>0, <1>6, <2>1, ReadsAreQuiet, ReloadOwn, Zenon
<1>7. ASSUME NEW c \in Client, ExchangeStep(c)  PROVE OwnInv' /\ StoreStep
  <2>1. StoreStep
    BY <1>7, Zenon DEF ExchangeStep, StoreStep
  <2>. QED
    BY <1>0, <1>7, <2>1, ExchangeOwn, Zenon
<1>8. ASSUME NEW c \in Client,
             \/ InsertStep(c) \/ RetireStep(c) \/ DeleteStep(c) \/ SaveStep(c) \/ PutStep(c)
             \/ RemoveStep(c)
      PROVE  OwnInv' /\ StoreStep
  BY <1>0, <1>8, SignerOwn, SaveOwn, PutOwn, RemoveOwn, Zenon
<1>9. ASSUME NEW c \in Client, BootstrapStep(c)  PROVE OwnInv' /\ StoreStep
  BY <1>4, <1>5, <1>6, <1>7, <1>8, <1>9, Zenon DEF BootstrapStep
<1>. QED
  BY <1>1, <1>2, <1>3, <1>4, <1>5, <1>8, <1>9, Zenon DEF Next

\* Nothing is stored, issued or held at first.
LEMMA InitOwn ==
  ASSUME Init
  PROVE  OwnInv
<1>1. relay = {} /\ late = {} /\ store.session = {} /\ \A c \in Client : call[c] = {}
  BY Zenon DEF Init, EmptyStore, CloudStore
<1>. QED
  BY <1>1, Zenon DEF OwnInv, RelayInv, IssuedInv, LateReplaces, Disjoint

\* Every reachable state satisfies both invariants.
LEMMA ReachableOwn == Spec => [](IInv /\ OwnInv)
<1>1. Init => IInv /\ OwnInv
  BY InitHolds, InitOwn, Zenon
<1>2. IInv /\ OwnInv /\ [Next]_vars => (IInv /\ OwnInv)'
  BY NextKeeps, NextOwn, Zenon
<1>. QED
  BY <1>1, <1>2, PTL DEF Spec

\* A bootstrap that is about to report a session holds the one the relay issued
\* to it, and no other call reports the same (the checks after Save in Bootstrap).
THEOREM SuccessReportsOwnSession == Spec => []SuccessIsOwn
<1>1. ASSUME OwnInv  PROVE SuccessIsOwn
  <2>1. ASSUME NEW c \in Client, NEW x \in At(c, "reopen")
        PROVE  /\ x.record \subseteq {r \in relay : r.key \in x.key}
               /\ \A d \in Client \ {c} : \A y \in At(d, "reopen") : x.record \cap y.record = {}
    <3>1. x \in call[c] /\ x.at \in Holding /\ Sound(x)
      BY <1>1, Zenon DEF At, Holding, OwnInv
    <3>2. \A d \in Client : \A y \in At(d, "reopen") : y \in call[d] /\ y.at \in Holding
      BY Zenon DEF At, Holding
    <3>. QED
      BY <1>1, <3>1, <3>2, Zenon DEF Sound, OwnInv, Disjoint
  <2>. QED
    BY <2>1, Zenon DEF SuccessIsOwn
<1>. QED
  BY <1>1, ReachableOwn, PTL

\* No step, however late, puts a session in the place of one that did not expire
\* or that was issued later (the revision that Save is conditional on).
THEOREM SessionsAreReplacedForward == Spec => ReplacementIsNewer
<1>1. ASSUME IInv, OwnInv, [Next]_vars
      PROVE  \A s \in Loaded, t \in Loaded' :
               s # t => Expired(s) /\ s.record.epoch < t.record.epoch
  <2>1. IInv' /\ StoreStep
    BY <1>1, NextKeeps, NextOwn, Zenon
  <2>2. SUFFICES ASSUME NEW s \in Loaded, NEW t \in Loaded', s # t
                 PROVE  Expired(s) /\ s.record.epoch < t.record.epoch
    BY Zenon
  <2>3. PICK row \in store.session : s = [revision |-> row.revision, record |-> row.sealed.text]
    BY <1>1, LoadedRows, Zenon DEF IInv
  <2>4. PICK new \in store'.session : t = [revision |-> new.revision, record |-> new.sealed.text]
    BY DEF Loaded, Load, LoadObject, open, Decrypt, openEnvelope
  <2>5. CASE store'.session \subseteq store.session
    <3>1. row = new
      BY <1>1, <2>5, Zenon DEF IInv, TypeOK, Single
    <3>. QED
      BY <2>2, <2>3, <2>4, <3>1, Zenon
  <2>6. ASSUME NEW e, NEW r, \A v \in e : Superseded(v) /\ Newer(v, r), Replaces(e, r)
        PROVE  Expired(s) /\ s.record.epoch < t.record.epoch
    <3>1. row.revision \in e /\ new.sealed.text = r
      BY <2>6, Zenon DEF Replaces, Revisions
    <3>2. s.revision = row.revision /\ s.record = row.sealed.text /\ t.record = r
      BY <2>3, <2>4, <3>1, Zenon
    <3>. QED
      BY <2>6, <3>1, <3>2, Zenon DEF Superseded, Newer, Expired
  <2>. QED
    BY <2>1, <2>5, <2>6, Zenon DEF StoreStep
<1>. QED
  BY <1>1, ReachableOwn, PTL DEF Spec, ReplacementIsNewer
=============================================================================
