-------------------------------- MODULE Custody --------------------------------
(***************************************************************************)
(* Where a client keeps its relay session and its proof key: the encrypted *)
(* SQLite store of internal/clientauth/localcustody, and the Cloud Storage *)
(* object of internal/clientauth/gcpworkload, whose key is a KMS version   *)
(* provisioned beforehand.  The rows are those of one profile; every       *)
(* operation is one transaction or one conditional request, written as an  *)
(* operator to [res, db].  A key stands for its reference, its public part *)
(* and its thumbprint.                                                     *)
(***************************************************************************)
EXTENDS Integers, FiniteSets

CONSTANTS
  MaxEncryptions  \* maximumEncryptions under one root key

ASSUME CustodyAssumption == MaxEncryptions \in Nat

\* The relay session a client stores.
SessionRecord(Key) == [epoch: Nat \ {0}, key: Key, expires: Nat]

\* What an envelope is bound to: in the local store its row, in Cloud Storage the
\* profile, the object and both key versions, which never change.
associatedData(revision, reference) == <<revision, reference>>

AssociatedData == <<>>

Envelope(Key) ==
  [aad: {AssociatedData} \cup ((Nat \ {0}) \X Key), text: SessionRecord(Key)]

\* An envelope opens only with the associated data it was sealed with.
sealEnvelope(aad, record) == [aad |-> aad, text |-> record]

openEnvelope(aad, e) == IF e.aad = aad THEN {e.text} ELSE {}

\* session: the row or object with its revision or generation; signer: the row
\* of signers, {} or one; serial: the last revision.  No revision is used twice.
Store(Key) ==
  [session: SUBSET [revision: Nat \ {0}, reference: Key, sealed: Envelope(Key)],
   signer: SUBSET [key: Key, provisional: BOOLEAN],
   encryptions: 0..MaxEncryptions,
   serial: Nat]

Result(res, db) == [res |-> res, db |-> db]

Revisions(d) == {row.revision : row \in d.session}

\* Open finds the public part of a key ...
Opens(d, k) == \E g \in d.signer : g.key = k

\* ... and SignES256 reads the row again for the private one.
loadPrivateKey(d, k) == {g \in d.signer : g.key = k}

Signs(d, k) == loadPrivateKey(d, k) # {}

(***************************************************************************)
(* localcustody.Store                                                      *)
(***************************************************************************)
EmptyStore == [session |-> {}, signer |-> {}, encryptions |-> 0, serial |-> 0]

\* Load: the record the row holds, sealed under its own columns.
Load(d) ==
  UNION {{[revision |-> row.revision, record |-> r] :
            r \in {x \in openEnvelope(associatedData(row.revision, row.reference), row.sealed) :
                     x.key = row.reference}} : row \in d.session}

\* consumeEncryption, in the transaction that stores what was encrypted.
consumeEncryption(d) == [d EXCEPT !.encryptions = @ + 1]

Stored(d, record) ==
  [consumeEncryption(d) EXCEPT
     !.session = {[revision |-> d.serial + 1, reference |-> record.key,
                   sealed |-> sealEnvelope(associatedData(d.serial + 1, record.key), record)]},
     !.serial = @ + 1,
     !.signer = {[key |-> g.key, provisional |-> FALSE] : g \in @}]

SaveOverwriting(d, expected, record) ==
  IF d.encryptions >= MaxEncryptions \/ ~Opens(d, record.key) THEN Result("store", d)
  ELSE Result("ok", Stored(d, record))

SaveFresh(d, expected, record) ==
  IF d.encryptions >= MaxEncryptions THEN Result("store", d)
  ELSE IF Revisions(d) # expected THEN Result("conflict", d)
  ELSE IF ~\E g \in d.signer : g.key = record.key /\ g.provisional THEN Result("store", d)
  ELSE Result("ok", Stored(d, record))

\* Save: an insert when no revision is expected, an update of that revision
\* otherwise; the signer must be there, and is no longer provisional.
Save(d, expected, record) ==
  IF d.encryptions >= MaxEncryptions THEN Result("store", d)
  ELSE IF Revisions(d) # expected THEN Result("conflict", d)
  ELSE IF ~Opens(d, record.key) THEN Result("store", d)
  ELSE Result("ok", Stored(d, record))

Delete(d, revision) ==
  IF revision \in Revisions(d) THEN Result("ok", [d EXCEPT !.session = {}])
  ELSE Result("conflict", d)

\* The transaction of ProvisionP256 for a key that was just generated.
InsertSigner(d, k) ==
  IF d.encryptions >= MaxEncryptions THEN Result("limit", d)
  ELSE IF d.signer # {} THEN Result("exists", d)
  ELSE Result("ok", [consumeEncryption(d) EXCEPT !.signer = {[key |-> k, provisional |-> TRUE]}])

RetireAny(d, k) == Result("ok", [d EXCEPT !.signer = {g \in @ : g.key # k}])

\* Retire: only a provisional signer that no session refers to.
Retire(d, k) ==
  IF \E g \in d.signer : g.key = k /\ g.provisional /\ \A row \in d.session : row.reference # k
  THEN Result("ok", [d EXCEPT !.signer = {g \in @ : g.key # k}])
  ELSE Result("signer", d)

(***************************************************************************)
(* gcpworkload: one object, mutated under a generation precondition, and   *)
(* an envelope bound to the profile, the object and both key versions.     *)
(***************************************************************************)
CloudStore(k) == [EmptyStore EXCEPT !.signer = {[key |-> k, provisional |-> FALSE]}]

Encrypt(record) == sealEnvelope(AssociatedData, record)

Decrypt(e) == openEnvelope(AssociatedData, e)

\* A record of another signing version is refused, in Save and in open.
validRecord(d, record) == Opens(d, record.key)

open(d, e) == {r \in Decrypt(e) : validRecord(d, r)}

LoadObject(d) ==
  UNION {{[revision |-> row.revision, record |-> r] : r \in open(d, row.sealed)} :
           row \in d.session}

\* The live object, if it is still of this generation.
LoadGeneration(d, generation) == {s \in LoadObject(d) : s.revision = generation}

Put(d, expected, record) ==
  IF Revisions(d) # expected THEN Result("conflict", d)
  ELSE Result("ok", [d EXCEPT !.session = {[revision |-> d.serial + 1, reference |-> record.key,
                                            sealed |-> Encrypt(record)]},
                              !.serial = @ + 1])

DeleteObject(d, generation) ==
  IF d.session = {} THEN Result("absent", d)
  ELSE IF generation \in Revisions(d) THEN Result("ok", [d EXCEPT !.session = {}])
  ELSE Result("conflict", d)

\* What a mutation with the outcome res is answered with: a timeout, a lost
\* connection and a server error are ambiguous.
classifyStorageError(res) == {res, "ambiguous"}
=============================================================================
