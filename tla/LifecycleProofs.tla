--------------------------- MODULE LifecycleProofs ---------------------------
(***************************************************************************)
(* Proofs about Transitions and Lifecycle, which rest on no common state:  *)
(* the claims and handoffs of a transcript, and the removal of its content. *)
(*                                                                         *)
(* TransitionsInv says that the validator's claims, offers and acceptances *)
(* are the summary of the transcript that its rules need; ClaimsAreSound   *)
(* speaks of the transcript alone and is not inductive without it.         *)
(*                                                                         *)
(* LifecycleInv says which evidence an operation has in each state of its  *)
(* saga, that a preflighted call and a reader hold nothing that a later    *)
(* step has taken back, and that the tombstones and the records share out  *)
(* the accepted events.                                                    *)
(***************************************************************************)
EXTENDS Lifecycle, Transitions, FiniteSetTheorems, TLAPS

(***************************************************************************)
(* Claims and handoffs: what the validator's state says of the transcript  *)
(***************************************************************************)
\* An event names an earlier one, an acceptance always, and a claim its key.
EventInv ==
  \A n \in 1..Len(transcript) :
    /\ transcript[n].causation \in 0..(n - 1)
    /\ transcript[n].kind = "handoff_accept" => transcript[n].causation # NoEvent
    /\ transcript[n].kind = "claim" => \E k \in ClaimKey : transcript[n].key = {k}

\* The claim kept under key k sums up the events about that key.
ClaimOk(k) ==
  /\ claims[k] = {} => Of(LifecycleKind, k) = {}
  /\ \A c \in claims[k] :
       /\ Of({"claim"}, k) = {c.root} /\ transcript[c.root].work = c.work
       /\ c.last \in Of(LifecycleKind, k)
       /\ \A m \in Of(LifecycleKind, k) : m <= c.last
       /\ c.active <=> Of({"release"}, k) = {}
       /\ c.offers = CurrentOffers(k)
       /\ Cardinality(c.offers) <= MaxOffers

ClaimInv == \A k \in ClaimKey : ClaimOk(k)

OfferInv ==
  \A o \in offers : /\ o.event \in Of({"handoff_offer"}, o.key)
                    /\ transcript[o.event].to = {o.recipient}

\* An acceptance that is kept has no successor yet.
AcceptanceInv ==
  \A a \in acceptances :
    /\ a.event \in 1..Len(transcript)
    /\ transcript[a.event].kind = "handoff_accept"
    /\ transcript[a.event].participant = a.participant
    /\ transcript[transcript[a.event].causation].to = {a.participant}
    /\ \A n \in Successors : transcript[n].causation # a.event

TransitionsInv ==
  /\ TransitionsTypeOK
  /\ EventInv /\ ClaimInv /\ OfferInv /\ AcceptanceInv
  /\ ClaimsAreSound

-----------------------------------------------------------------------------
\* The step appends e to the transcript.
Appends(e) ==
  /\ Len(transcript) \in Nat /\ NextID = Len(transcript) + 1
  /\ transcript' \in Seq(TransitionEvent) /\ Len(transcript') <= MaxEvents
  /\ Len(transcript') = NextID /\ NextID \in 1..MaxEvents
  /\ \A n \in 1..Len(transcript) : transcript'[n] = transcript[n]
  /\ transcript'[NextID] = e /\ e.causation \in 0..Len(transcript)
  /\ 1..Len(transcript') = 1..Len(transcript) \cup {NextID}

\* What admitting an event does to the transcript.
LEMMA Appended ==
  ASSUME TransitionsTypeOK, NEW kind \in Kind, NEW p \in Participant, NEW w \in Work,
         NEW cause, NEW key \in SUBSET ClaimKey, NEW to \in SUBSET Participant,
         Admit(kind, p, w, cause, key, to)
  PROVE  Appends([kind |-> kind, work |-> w, participant |-> p,
                  causation |-> cause, key |-> key, to |-> to])
<1>1. PICK e : e = [kind |-> kind, work |-> w, participant |-> p,
                    causation |-> cause, key |-> key, to |-> to]
  OBVIOUS
<1>2. /\ transcript \in Seq(TransitionEvent) /\ Len(transcript) < MaxEvents
      /\ transcript' = Append(transcript, e)
      /\ cause = 0 \/ cause \in 1..Len(transcript)
  BY <1>1 DEF TransitionsTypeOK, Admit, NoEvent
<1>3. cause \in 0..Len(transcript) /\ cause \in Nat
  BY <1>2
<1>4. e \in TransitionEvent
  BY <1>1, <1>3, Zenon DEF TransitionEvent
<1>5. /\ transcript' \in Seq(TransitionEvent) /\ Len(transcript') = Len(transcript) + 1
      /\ \A n \in 1..Len(transcript) : transcript'[n] = transcript[n]
      /\ transcript'[Len(transcript) + 1] = e
  BY <1>2, <1>4
<1>. QED
  <2>1. /\ Len(transcript) \in Nat /\ Len(transcript) + 1 \in 1..MaxEvents
        /\ 1..Len(transcript') = 1..Len(transcript) \cup {Len(transcript) + 1}
        /\ Len(transcript') <= MaxEvents
    BY <1>2, <1>5, TransitionsAssumption
  <2>2. e.causation = cause
    BY <1>1, Zenon
  <2>. QED
    BY <1>1, <1>3, <1>5, <2>1, <2>2, Zenon DEF NextID, Appends

\* The events about a key grow by the event admitted.
LEMMA OfGrows ==
  ASSUME NEW e, Appends(e), NEW kinds, NEW k
  PROVE  /\ e.kind \in kinds /\ k \in e.key => Of(kinds, k)' = Of(kinds, k) \cup {NextID}
         /\ ~(e.kind \in kinds /\ k \in e.key) => Of(kinds, k)' = Of(kinds, k)
         /\ \A n \in Of(kinds, k) : n \in 1..Len(transcript) /\ n \in Of(kinds, k)'
         /\ \A n \in Of(kinds, k)' : n \in Of(kinds, k) \/ n = NextID
<1>1. /\ Len(transcript) \in Nat /\ NextID = Len(transcript) + 1 /\ Len(transcript') = NextID
      /\ \A x \in 1..Len(transcript) : transcript'[x] = transcript[x]
      /\ transcript'[NextID] = e /\ e.causation \in 0..Len(transcript)
      /\ 1..Len(transcript') = 1..Len(transcript) \cup {NextID}
  BY Zenon DEF Appends
<1>2. ASSUME NEW n  PROVE n \in Of(kinds, k)' <=>
             \/ n \in Of(kinds, k)
             \/ n = NextID /\ e.kind \in kinds /\ k \in e.key
  <2>1. n \in 1..Len(transcript) => n # NextID
    BY <1>1
  <2>. QED
    BY <1>1, <2>1, Zenon DEF Of
<1>. QED
  BY <1>2, Zenon DEF Of

\* The invariant of a key that the event is not about.
LEMMA OtherClaims ==
  ASSUME NEW e, Appends(e),
         NEW k \in ClaimKey, k \notin e.key, claims'[k] = claims[k], ClaimOk(k)
  PROVE  ClaimOk(k)'
<1>1. ASSUME NEW kinds  PROVE Of(kinds, k)' = Of(kinds, k)
  BY OfGrows, Zenon
<1>2. CurrentOffers(k)' = CurrentOffers(k)
  <2>1. /\ Of({"handoff_offer"}, k)' = Of({"handoff_offer"}, k)
        /\ Of({"handoff_accept", "release"}, k)' = Of({"handoff_accept", "release"}, k)
    BY <1>1, Zenon
  <2>. QED
    BY <2>1, Zenon DEF CurrentOffers
<1>3. \A n \in 1..Len(transcript) : transcript'[n] = transcript[n]
  BY Zenon DEF Appends
<1>4. ASSUME NEW c \in claims[k]  PROVE c.root \in 1..Len(transcript)
  <2>1. c.root \in Of({"claim"}, k)
    BY Zenon DEF ClaimOk
  <2>. QED
    BY <2>1, Zenon DEF Of
<1>. QED
  BY <1>1, <1>2, <1>3, <1>4, Zenon DEF ClaimOk

\* What an event that makes no offer, acceptance or claim leaves alone.
LEMMA EventsStay ==
  ASSUME NEW e, Appends(e), EventInv,
         e.kind = "claim" => \E k \in ClaimKey : e.key = {k},
         e.kind = "handoff_accept" => e.causation # NoEvent
  PROVE  EventInv'
<1>1. /\ Len(transcript) \in Nat /\ NextID = Len(transcript) + 1 /\ Len(transcript') = NextID
      /\ \A x \in 1..Len(transcript) : transcript'[x] = transcript[x]
      /\ transcript'[NextID] = e /\ e.causation \in 0..Len(transcript)
      /\ 1..Len(transcript') = 1..Len(transcript) \cup {NextID}
  BY Zenon DEF Appends
<1>2. e.causation \in 0..(NextID - 1)
  BY <1>1
<1>. QED
  BY <1>1, <1>2, Zenon DEF EventInv

LEMMA OffersStay ==
  ASSUME NEW e, Appends(e), OfferInv
  PROVE  \A o \in offers : /\ o.event \in Of({"handoff_offer"}, o.key)'
                           /\ transcript'[o.event].to = {o.recipient}
<1>1. \A n \in 1..Len(transcript) : transcript'[n] = transcript[n]
  BY Zenon DEF Appends
<1>2. ASSUME NEW o \in offers  PROVE o.event \in Of({"handoff_offer"}, o.key)'
  BY OfGrows, Zenon DEF OfferInv
<1>. QED
  BY <1>1, <1>2, Zenon DEF OfferInv, Of

\* The successors grow by a claim that names an event.
LEMMA SuccessorsGrow ==
  ASSUME NEW e, Appends(e)
  PROVE  /\ e.kind = "claim" /\ e.causation # NoEvent => Successors' = Successors \cup {NextID}
         /\ ~(e.kind = "claim" /\ e.causation # NoEvent) => Successors' = Successors
<1>1. /\ Len(transcript) \in Nat /\ NextID = Len(transcript) + 1 /\ Len(transcript') = NextID
      /\ \A x \in 1..Len(transcript) : transcript'[x] = transcript[x]
      /\ transcript'[NextID] = e /\ e.causation \in 0..Len(transcript)
      /\ 1..Len(transcript') = 1..Len(transcript) \cup {NextID}
  BY Zenon DEF Appends
<1>2. ASSUME NEW n  PROVE n \in Successors' <=>
             \/ n \in Successors
             \/ n = NextID /\ e.kind = "claim" /\ e.causation # NoEvent
  <2>1. n \in 1..Len(transcript) => n # NextID
    BY <1>1
  <2>. QED
    BY <1>1, <2>1, Zenon DEF Successors
<1>. QED
  BY <1>2, Zenon

\* An acceptance stays true of the transcript until a claim names it.
LEMMA AcceptanceStays ==
  ASSUME NEW e, Appends(e), EventInv, AcceptanceInv,
         NEW a \in acceptances, e.kind = "claim" => e.causation # a.event
  PROVE  /\ a.event \in 1..Len(transcript')
         /\ transcript'[a.event].kind = "handoff_accept"
         /\ transcript'[a.event].participant = a.participant
         /\ transcript'[transcript'[a.event].causation].to = {a.participant}
         /\ \A n \in Successors' : transcript'[n].causation # a.event
<1>1. /\ Len(transcript) \in Nat /\ NextID = Len(transcript) + 1 /\ Len(transcript') = NextID
      /\ \A x \in 1..Len(transcript) : transcript'[x] = transcript[x]
      /\ transcript'[NextID] = e /\ e.causation \in 0..Len(transcript)
      /\ 1..Len(transcript') = 1..Len(transcript) \cup {NextID}
  BY Zenon DEF Appends
<1>. QED
  <2>1. a.event \in 1..Len(transcript)
    BY Zenon DEF AcceptanceInv
  <2>2. transcript[a.event].causation \in 1..Len(transcript)
    <3>1. /\ transcript[a.event].causation \in 0..(a.event - 1)
          /\ transcript[a.event].causation # 0
      BY <2>1, Zenon DEF EventInv, AcceptanceInv, NoEvent
    <3>. QED
      BY <1>1, <2>1, <3>1
  <2>3. \A n \in Successors : n \in 1..Len(transcript)
    BY Zenon DEF Successors
  <2>4. \A n \in Successors' : transcript'[n].causation # a.event
    <3>1. ASSUME NEW n \in Successors  PROVE transcript'[n].causation # a.event
      BY <1>1, <2>3, <3>1, Zenon DEF AcceptanceInv
    <3>2. e.kind = "claim" => transcript'[NextID].causation # a.event
      BY <1>1, Zenon
    <3>. QED
      BY <3>1, <3>2, SuccessorsGrow, Zenon
  <2>5. a.event \in 1..Len(transcript')
    BY <1>1, <2>1
  <2>. QED
    BY <1>1, <2>1, <2>2, <2>4, <2>5, Zenon DEF AcceptanceInv

\* An event that makes no claim leaves the successors of acceptances alone.
LEMMA SuccessorsStay ==
  ASSUME NEW e, Appends(e), EventInv, OneSuccessorPerAcceptance
  PROVE  \A n \in Successors :
           /\ n \in 1..Len(transcript) /\ transcript'[n] = transcript[n]
           /\ transcript'[transcript[n].causation] = transcript[transcript[n].causation]
           /\ transcript'[transcript[transcript[n].causation].causation]
                = transcript[transcript[transcript[n].causation].causation]
<1>1. /\ Len(transcript) \in Nat
      /\ \A n \in 1..Len(transcript) : transcript'[n] = transcript[n]
  BY Zenon DEF Appends
<1>. SUFFICES ASSUME NEW n \in Successors
     PROVE  /\ n \in 1..Len(transcript)
            /\ transcript[n].causation \in 1..Len(transcript)
            /\ transcript[transcript[n].causation].causation \in 1..Len(transcript)
  BY <1>1, Zenon
<1>2. n \in 1..Len(transcript) /\ transcript[n].causation # 0
  BY Zenon DEF Successors, NoEvent
<1>3. transcript[n].causation \in 0..(n - 1)
  BY <1>2, Zenon DEF EventInv
<1>4. transcript[n].causation \in 1..Len(transcript)
  BY <1>1, <1>2, <1>3
<1>5. transcript[transcript[n].causation].kind = "handoff_accept"
  BY Zenon DEF OneSuccessorPerAcceptance
<1>6. /\ transcript[transcript[n].causation].causation \in 0..(transcript[n].causation - 1)
      /\ transcript[transcript[n].causation].causation # 0
  BY <1>4, <1>5, Zenon DEF EventInv, NoEvent
<1>. QED
  BY <1>1, <1>2, <1>4, <1>6

LEMMA OneSuccessorStays ==
  ASSUME NEW e, Appends(e), EventInv, OneSuccessorPerAcceptance,
         ~(e.kind = "claim" /\ e.causation # NoEvent)
  PROVE  OneSuccessorPerAcceptance'
<1>1. Successors' = Successors
  BY SuccessorsGrow, Zenon
<1>2. ASSUME NEW n \in Successors
      PROVE  /\ transcript'[n] = transcript[n]
             /\ transcript'[transcript[n].causation] = transcript[transcript[n].causation]
             /\ transcript'[transcript[transcript[n].causation].causation]
                  = transcript[transcript[transcript[n].causation].causation]
  BY SuccessorsStay, Zenon
<1>. QED
  BY <1>1, <1>2 DEF OneSuccessorPerAcceptance

\* An event that is no acceptance leaves the acceptances current.
LEMMA AcceptanceCurrentStays ==
  ASSUME NEW e, Appends(e), AcceptanceIsCurrent,
         NEW k \in ClaimKey, NEW n \in Of({"handoff_accept"}, k),
         NEW m \in Of({"handoff_accept", "release"}, k)', m < n
  PROVE  m < transcript'[n].causation
<1>1. /\ Len(transcript) \in Nat /\ NextID = Len(transcript) + 1 /\ Len(transcript') = NextID
      /\ \A x \in 1..Len(transcript) : transcript'[x] = transcript[x]
      /\ transcript'[NextID] = e /\ e.causation \in 0..Len(transcript)
      /\ 1..Len(transcript') = 1..Len(transcript) \cup {NextID}
  BY Zenon DEF Appends
<1>2. n \in 1..Len(transcript)
  BY OfGrows, Zenon
<1>3. m \in Of({"handoff_accept", "release"}, k) \/ m = NextID
  BY OfGrows, Zenon
<1>4. m \in Of({"handoff_accept", "release"}, k)
  BY <1>1, <1>2, <1>3
<1>. QED
  BY <1>1, <1>2, <1>4, Zenon DEF AcceptanceIsCurrent

\* The chain of a key that no release has ended, or that gets no event.
LEMMA ChainStays ==
  ASSUME NEW e, Appends(e), LifecycleIsAChain,
         NEW k \in ClaimKey, NEW n \in Of({"progress", "handoff_offer", "release"}, k),
         k \in e.key /\ e.kind \in LifecycleKind => Of({"release"}, k) = {}
  PROVE  /\ \A m \in Of(LifecycleKind, k)' : m < n => m <= transcript'[n].causation
         /\ transcript'[n].kind = "release" => \A m \in Of(LifecycleKind, k)' : m <= n
<1>1. /\ Len(transcript) \in Nat /\ NextID = Len(transcript) + 1 /\ Len(transcript') = NextID
      /\ \A x \in 1..Len(transcript) : transcript'[x] = transcript[x]
      /\ transcript'[NextID] = e /\ e.causation \in 0..Len(transcript)
      /\ 1..Len(transcript') = 1..Len(transcript) \cup {NextID}
  BY Zenon DEF Appends
<1>2. n \in 1..Len(transcript) /\ k \in transcript[n].key /\ transcript'[n] = transcript[n]
  BY <1>1, Zenon DEF Of
<1>3. ASSUME NEW m \in Of(LifecycleKind, k)', m < n
      PROVE  m <= transcript'[n].causation
  <2>1. m \in Of(LifecycleKind, k) \/ m = NextID
    BY OfGrows, Zenon
  <2>2. m \in Of(LifecycleKind, k)
    BY <1>1, <1>2, <1>3, <2>1
  <2>. QED
    BY <1>2, <1>3, <2>2, Zenon DEF LifecycleIsAChain
<1>4. ASSUME transcript'[n].kind = "release", NEW m \in Of(LifecycleKind, k)'
      PROVE  m <= n
  <2>1. n \in Of({"release"}, k)
    BY <1>2, <1>4, Zenon DEF Of
  <2>2. Of(LifecycleKind, k)' = Of(LifecycleKind, k)
    BY <2>1, OfGrows, Zenon
  <2>. QED
    BY <1>2, <1>4, <2>2, Zenon DEF LifecycleIsAChain
<1>. QED
  BY <1>3, <1>4, Zenon

\* A claim's history does not fork if the event continues its last event and
\* no release came before.
LEMMA ChainGrows ==
  ASSUME NEW e, Appends(e), LifecycleIsAChain,
         \A k \in ClaimKey : k \in e.key /\ e.kind \in LifecycleKind => Of({"release"}, k) = {},
         \A k \in ClaimKey : k \in e.key /\ e.kind \in {"progress", "handoff_offer", "release"} =>
           \A m \in Of(LifecycleKind, k) : m <= e.causation
  PROVE  LifecycleIsAChain'
<1>1. /\ Len(transcript) \in Nat /\ NextID = Len(transcript) + 1
      /\ transcript'[NextID] = e
  BY Zenon DEF Appends
<1>. SUFFICES ASSUME NEW k \in ClaimKey, NEW n \in Of({"progress", "handoff_offer", "release"}, k)'
     PROVE  /\ \A m \in Of(LifecycleKind, k)' : m < n => m <= transcript'[n].causation
            /\ transcript'[n].kind = "release" => \A m \in Of(LifecycleKind, k)' : m <= n
  BY Zenon DEF LifecycleIsAChain
<1>2. CASE n \in Of({"progress", "handoff_offer", "release"}, k)
  BY <1>2, ChainStays, Zenon
<1>3. CASE n \notin Of({"progress", "handoff_offer", "release"}, k)
  <2>1. /\ n = NextID /\ k \in e.key
        /\ e.kind \in {"progress", "handoff_offer", "release"}
    BY <1>3, OfGrows, Zenon
  <2>2. \A m \in Of(LifecycleKind, k) : m <= e.causation
    BY <2>1, Zenon
  <2>3. \A m \in Of(LifecycleKind, k)' : m = NextID \/ m \in Of(LifecycleKind, k)
    BY OfGrows, Zenon
  <2>4. \A m \in Of(LifecycleKind, k) : m \in 1..Len(transcript)
    BY OfGrows, Zenon
  <2>. QED
    BY <1>1, <2>1, <2>2, <2>3, <2>4
<1>. QED
  BY <1>2, <1>3, Zenon

\* A finite set that injects into another is no larger.
LEMMA Counted ==
  ASSUME NEW S, NEW T, IsFiniteSet(T), NEW f \in [S -> T],
         \A x, y \in S : f[x] = f[y] => x = y
  PROVE  IsFiniteSet(S) /\ Cardinality(S) <= Cardinality(T)
<1>1. f \in Injection(S, T)
  BY Zenon DEF Injection, IsInjective
<1>. QED
  BY <1>1, FS_Injection, Zenon

\* Every unreleased claim of the transcript is kept as an active one.
LEMMA UnreleasedAreActive ==
  ASSUME EventInv, ClaimInv, Len(transcript) \in Nat, NEW w \in Work
  PROVE  /\ IsFiniteSet(Unreleased(w)) /\ IsFiniteSet(ActiveClaims(w))
         /\ Cardinality(Unreleased(w)) <= Cardinality(ActiveClaims(w))
<1> DEFINE RootOf(k) == CHOOSE n \in 1..Len(transcript) : Of({"claim"}, k) = {n}
           KeyOf(n) == CHOOSE k \in ClaimKey : transcript[n].key = {k}
<1>1. ASSUME NEW k \in ClaimKey, NEW c \in claims[k]
      PROVE  /\ c.root \in 1..Len(transcript) /\ Of({"claim"}, k) = {c.root}
             /\ transcript[c.root].key = {k} /\ transcript[c.root].work = c.work
  <2>1. Of({"claim"}, k) = {c.root} /\ transcript[c.root].work = c.work
    BY <1>1, Zenon DEF ClaimInv, ClaimOk
  <2>2. c.root \in 1..Len(transcript) /\ transcript[c.root].kind = "claim" /\ k \in transcript[c.root].key
    <3>1. c.root \in Of({"claim"}, k)
      BY <2>1, Zenon
    <3>. QED
      BY <3>1, Zenon DEF Of
  <2>3. PICK j \in ClaimKey : transcript[c.root].key = {j}
    BY <2>2, Zenon DEF EventInv
  <2>. QED
    BY <2>1, <2>2, <2>3, Zenon
<1>2. ASSUME NEW k \in ActiveClaims(w)
      PROVE  RootOf(k) \in 1..Len(transcript) /\ transcript[RootOf(k)].key = {k}
  <2>1. PICK c \in claims[k] : k \in ClaimKey
    BY <1>2, Zenon DEF ActiveClaims
  <2>2. /\ c.root \in 1..Len(transcript) /\ Of({"claim"}, k) = {c.root}
        /\ transcript[c.root].key = {k}
    BY <1>1, <2>1, Zenon
  <2>3. Of({"claim"}, k) = {RootOf(k)}
    BY <2>2, Zenon
  <2>4. RootOf(k) = c.root
    BY <2>2, <2>3, Zenon
  <2>. QED
    BY <2>2, <2>4, Zenon
<1>3. IsFiniteSet(ActiveClaims(w))
  <2>1. PICK f : f = [k \in ActiveClaims(w) |-> RootOf(k)]
    OBVIOUS
  <2>2. f \in [ActiveClaims(w) -> 1..Len(transcript)]
    BY <1>2, <2>1, Zenon
  <2>3. ASSUME NEW x \in ActiveClaims(w), NEW y \in ActiveClaims(w), f[x] = f[y]  PROVE x = y
    <3>1. RootOf(x) = RootOf(y)
      BY <2>1, <2>3, Zenon
    <3>2. {x} = {y}
      BY <1>2, <3>1, Zenon
    <3>. QED
      BY <3>2, Zenon
  <2>4. IsFiniteSet(1..Len(transcript))
    BY FS_Interval
  <2>. QED
    BY <2>2, <2>3, <2>4, Counted, Zenon
<1>4. ASSUME NEW n \in Unreleased(w)
      PROVE  KeyOf(n) \in ActiveClaims(w) /\ Of({"claim"}, KeyOf(n)) = {n}
  <2>1. n \in 1..Len(transcript) /\ transcript[n].kind = "claim" /\ transcript[n].work = w
    BY <1>4, Zenon DEF Unreleased
  <2>2. KeyOf(n) \in ClaimKey /\ transcript[n].key = {KeyOf(n)}
    BY <2>1, Zenon DEF EventInv
  <2>3. PICK k \in ClaimKey : k = KeyOf(n) /\ transcript[n].key = {k}
    BY <2>2, Zenon
  <2>4. n \in Of({"claim"}, k) /\ n \in Of(LifecycleKind, k)
    BY <2>1, <2>3, Zenon DEF Of, LifecycleKind
  <2>5. PICK c \in claims[k] : TRUE
    BY <2>4, Zenon DEF ClaimInv, ClaimOk
  <2>6. n = c.root /\ c.work = w /\ Of({"claim"}, k) = {n}
    <3>1. Of({"claim"}, k) = {c.root} /\ transcript[c.root].work = c.work
      BY <1>1, <2>5, Zenon
    <3>2. n = c.root
      BY <2>4, <3>1, Zenon
    <3>. QED
      BY <2>1, <3>1, <3>2, Zenon
  <2>7. c.active
    BY <1>4, <2>3, <2>5, Zenon DEF Unreleased, ClaimInv, ClaimOk
  <2>. QED
    BY <2>3, <2>5, <2>6, <2>7, Zenon DEF ActiveClaims
<1>5. PICK g : g = [n \in Unreleased(w) |-> KeyOf(n)]
  OBVIOUS
<1>6. g \in [Unreleased(w) -> ActiveClaims(w)]
  BY <1>4, <1>5, Zenon
<1>7. ASSUME NEW x \in Unreleased(w), NEW y \in Unreleased(w), g[x] = g[y]  PROVE x = y
  <2>1. KeyOf(x) = KeyOf(y)
    BY <1>5, <1>7, Zenon
  <2>2. {x} = {y}
    BY <1>4, <2>1, Zenon
  <2>. QED
    BY <2>2, Zenon
<1>. QED
  BY <1>3, <1>6, <1>7, Counted, Zenon

\* An event that makes no claim makes none unreleased.
LEMMA UnreleasedShrinks ==
  ASSUME NEW e, Appends(e), NEW w, ~(e.kind = "claim" /\ e.work = w)
  PROVE  Unreleased(w)' \subseteq Unreleased(w)
<1>1. /\ \A x \in 1..Len(transcript) : transcript'[x] = transcript[x]
      /\ transcript'[NextID] = e
      /\ 1..Len(transcript') = 1..Len(transcript) \cup {NextID}
  BY Zenon DEF Appends
<1>. SUFFICES ASSUME NEW n \in Unreleased(w)'  PROVE n \in Unreleased(w)
  BY Zenon
<1>2. /\ n \in 1..Len(transcript') /\ transcript'[n].kind = "claim" /\ transcript'[n].work = w
      /\ \A k \in transcript'[n].key : Of({"release"}, k)' = {}
  BY Zenon DEF Unreleased
<1>3. n \in 1..Len(transcript) /\ transcript'[n] = transcript[n]
  BY <1>1, <1>2, Zenon
<1>4. ASSUME NEW k \in transcript[n].key  PROVE Of({"release"}, k) = {}
  BY <1>2, <1>3, <1>4, OfGrows, Zenon
<1>. QED
  BY <1>2, <1>3, <1>4, Zenon DEF Unreleased

\* The limits of offers are those of the claims kept.
LEMMA OffersAreLimited ==
  ASSUME ClaimInv', NEW k \in ClaimKey
  PROVE  Cardinality(CurrentOffers(k))' <= MaxOffers
<1>1. CASE claims'[k] = {}
  <2>1. Of({"handoff_offer"}, k)' = {}
    <3>1. Of(LifecycleKind, k)' = {}
      BY <1>1, Zenon DEF ClaimInv, ClaimOk
    <3>. QED
      BY <3>1, Zenon DEF Of, LifecycleKind
  <2>2. Cardinality(CurrentOffers(k))' = 0
    BY <2>1, FS_EmptySet, Zenon DEF CurrentOffers
  <2>. QED
    BY <2>2, TransitionsAssumption
<1>2. CASE claims'[k] # {}
  BY <1>2, Zenon DEF ClaimInv, ClaimOk
<1>. QED
  BY <1>1, <1>2, Zenon

\* The limits after an event that makes no claim.
LEMMA LimitsStay ==
  ASSUME NEW e, Appends(e), e.kind # "claim", ResourceLimits, EventInv, ClaimInv, ClaimInv'
  PROVE  ResourceLimits'
<1>1. ASSUME NEW w \in Work  PROVE Cardinality(Unreleased(w))' <= MaxClaims
  <2>1. Unreleased(w)' \subseteq Unreleased(w)
    BY UnreleasedShrinks, Zenon
  <2>2. IsFiniteSet(Unreleased(w)) /\ Cardinality(Unreleased(w)) <= MaxClaims
    <3>1. Len(transcript) \in Nat
      BY Zenon DEF Appends
    <3>. QED
      BY <3>1, UnreleasedAreActive, Zenon DEF ResourceLimits
  <2>3. /\ Cardinality(Unreleased(w)') <= Cardinality(Unreleased(w))
        /\ IsFiniteSet(Unreleased(w)')
    BY <2>1, <2>2, FS_Subset, Zenon
  <2>4. Cardinality(Unreleased(w)') \in Nat /\ Cardinality(Unreleased(w)) \in Nat
    BY <2>2, <2>3, FS_CardinalityType, Zenon
  <2>. QED
    BY <2>2, <2>3, <2>4, TransitionsAssumption
<1>2. ASSUME NEW k \in ClaimKey  PROVE Cardinality(CurrentOffers(k))' <= MaxOffers
  BY OffersAreLimited, Zenon
<1>. QED
  BY <1>1, <1>2, Zenon DEF ResourceLimits

\* The claim of key k after an event that continues it.
LEMMA ClaimGrows ==
  ASSUME NEW e, Appends(e), NEW k \in ClaimKey, e.key = {k},
         e.kind \in LifecycleKind \ {"claim"}, ClaimOk(k),
         NEW c \in claims[k], NEW d, claims'[k] = {d},
         d.root = c.root, d.work = c.work, d.last = NextID,
         d.active <=> Of({"release"}, k)' = {},
         d.offers = CurrentOffers(k)', Cardinality(d.offers) <= MaxOffers
  PROVE  ClaimOk(k)'
<1>1. /\ Len(transcript) \in Nat /\ NextID = Len(transcript) + 1
      /\ \A x \in 1..Len(transcript) : transcript'[x] = transcript[x]
  BY Zenon DEF Appends
<1>2. Of({"claim"}, k)' = {c.root} /\ transcript'[c.root].work = c.work
  <2>1. Of({"claim"}, k) = {c.root} /\ transcript[c.root].work = c.work
    BY Zenon DEF ClaimOk
  <2>2. c.root \in 1..Len(transcript)
    BY <2>1, OfGrows, Zenon
  <2>3. Of({"claim"}, k)' = Of({"claim"}, k)
    BY OfGrows, Zenon
  <2>. QED
    BY <1>1, <2>1, <2>2, <2>3, Zenon
<1>3. NextID \in Of(LifecycleKind, k)' /\ \A m \in Of(LifecycleKind, k)' : m <= NextID
  <2>1. Of(LifecycleKind, k)' = Of(LifecycleKind, k) \cup {NextID}
    BY OfGrows, Zenon
  <2>2. \A m \in Of(LifecycleKind, k) : m \in 1..Len(transcript)
    BY OfGrows, Zenon
  <2>. QED
    BY <1>1, <2>1, <2>2
<1>. QED
  BY <1>2, <1>3, Zenon DEF ClaimOk

\* What an active claim that an event continues says of its key.
LEMMA ActiveClaim ==
  ASSUME ClaimInv, NEW k \in ClaimKey, NEW c \in claims[k], c.active
  PROVE  /\ ClaimOk(k) /\ Of({"release"}, k) = {}
         /\ c.last \in Of(LifecycleKind, k) /\ c.offers = CurrentOffers(k)
         /\ \A m \in Of(LifecycleKind, k) : m <= c.last
  BY Zenon DEF ClaimInv, ClaimOk

\* The claims after a step that changes one key's.
LEMMA OneClaimChanges ==
  ASSUME NEW e, Appends(e), ClaimInv,
         NEW k \in ClaimKey, e.key = {k},
         \A j \in ClaimKey : j # k => claims'[j] = claims[j], ClaimOk(k)'
  PROVE  ClaimInv'
<1>1. ASSUME NEW j \in ClaimKey, j # k  PROVE ClaimOk(j)'
  BY <1>1, OtherClaims, Zenon DEF ClaimInv
<1>. QED
  BY <1>1, Zenon DEF ClaimInv

\* An event that is neither a claim nor an acceptance.
LEMMA PlainKeeps ==
  ASSUME NEW e, Appends(e), TransitionsInv, e.kind \notin {"claim", "handoff_accept"},
         acceptances' = acceptances, ClaimInv'
  PROVE  /\ EventInv' /\ AcceptanceInv'
         /\ OneSuccessorPerAcceptance' /\ AcceptanceIsCurrent' /\ ResourceLimits'
<1>1. EventInv /\ AcceptanceInv /\ ClaimInv /\ OneSuccessorPerAcceptance
      /\ AcceptanceIsCurrent /\ ResourceLimits
  BY Zenon DEF TransitionsInv, ClaimsAreSound
<1>2. e.kind # "claim" /\ e.kind # "handoff_accept"
  BY Zenon
<1>3. EventInv'
  BY <1>1, <1>2, EventsStay, Zenon
<1>4. AcceptanceInv'
  <2>1. ASSUME NEW a \in acceptances
        PROVE  /\ a.event \in 1..Len(transcript')
               /\ transcript'[a.event].kind = "handoff_accept"
               /\ transcript'[a.event].participant = a.participant
               /\ transcript'[transcript'[a.event].causation].to = {a.participant}
               /\ \A n \in Successors' : transcript'[n].causation # a.event
    BY <1>1, <1>2, <2>1, AcceptanceStays, Zenon
  <2>. QED
    BY <2>1, Zenon DEF AcceptanceInv
<1>5. OneSuccessorPerAcceptance'
  BY <1>1, <1>2, OneSuccessorStays, Zenon
<1>6. AcceptanceIsCurrent'
  <2>1. ASSUME NEW k \in ClaimKey  PROVE Of({"handoff_accept"}, k)' = Of({"handoff_accept"}, k)
    BY <1>2, OfGrows, Zenon
  <2>2. ASSUME NEW k \in ClaimKey, NEW n \in Of({"handoff_accept"}, k)',
               NEW m \in Of({"handoff_accept", "release"}, k)', m < n
        PROVE  m < transcript'[n].causation
    BY <1>1, <2>1, <2>2, AcceptanceCurrentStays, Zenon
  <2>. QED
    BY <2>2, Zenon DEF AcceptanceIsCurrent
<1>7. ResourceLimits'
  BY <1>1, <1>2, LimitsStay, Zenon
<1>. QED
  BY <1>3, <1>4, <1>5, <1>6, <1>7, Zenon

LEMMA ClaimTypes ==
  ASSUME TransitionsTypeOK, NEW k \in ClaimKey, NEW c \in claims[k]
  PROVE  c \in Claim
<1>1. claims[k] \in {{}} \cup {{x} : x \in Claim}
  BY Zenon DEF TransitionsTypeOK
<1>. QED
  BY <1>1, Zenon

LEMMA ClaimsTyped ==
  ASSUME TransitionsTypeOK, NEW k \in ClaimKey, NEW d \in Claim,
         claims' = [claims EXCEPT ![k] = {d}]
  PROVE  /\ claims' \in [ClaimKey -> {{}} \cup {{c} : c \in Claim}]
         /\ claims'[k] = {d}
         /\ \A j \in ClaimKey : j # k => claims'[j] = claims[j]
<1>1. claims \in [ClaimKey -> {{}} \cup {{c} : c \in Claim}]
  BY Zenon DEF TransitionsTypeOK
<1>2. {d} \in {{}} \cup {{c} : c \in Claim}
  BY Zenon
<1>. QED
  BY <1>1, <1>2, Zenon

\* The events of a transcript, and the current offers among them.
LEMMA CurrentAreEvents ==
  ASSUME NEW k  PROVE \A n \in CurrentOffers(k) : n \in 1..Len(transcript)
  BY Zenon DEF CurrentOffers, Of

\* An event that continues the claim of key k, which becomes d.
LEMMA ContinuingKeeps ==
  ASSUME TransitionsInv, NEW k \in ClaimKey, NEW c \in claims[k], c.active,
         NEW e, Appends(e), e.kind \in {"progress", "release", "handoff_offer"},
         e.key = {k}, e.causation = c.last,
         NEW d \in Claim, claims' = [claims EXCEPT ![k] = {d}],
         d.root = c.root, d.work = c.work, d.last = NextID,
         d.active <=> Of({"release"}, k)' = {},
         d.offers = CurrentOffers(k)', Cardinality(d.offers) <= MaxOffers,
         acceptances' = acceptances, offers' \in SUBSET Offer, OfferInv'
  PROVE  TransitionsInv'
<1>1. TransitionsTypeOK /\ ClaimInv /\ LifecycleIsAChain
  BY Zenon DEF TransitionsInv, ClaimsAreSound
<1>2. /\ e.kind \in LifecycleKind \ {"claim"}
      /\ e.kind \notin {"claim", "handoff_accept"}
  BY DEF LifecycleKind
<1>3. /\ claims' \in [ClaimKey -> {{}} \cup {{x} : x \in Claim}] /\ claims'[k] = {d}
      /\ \A j \in ClaimKey : j # k => claims'[j] = claims[j]
  BY <1>1, ClaimsTyped, Zenon
<1>4. /\ ClaimOk(k) /\ Of({"release"}, k) = {}
      /\ \A m \in Of(LifecycleKind, k) : m <= c.last
  BY <1>1, ActiveClaim, Zenon
<1>5. ClaimOk(k)'
  BY <1>2, <1>3, <1>4, ClaimGrows, Zenon
<1>6. ClaimInv'
  BY <1>1, <1>3, <1>5, OneClaimChanges, Zenon
<1>7. /\ EventInv' /\ AcceptanceInv'
      /\ OneSuccessorPerAcceptance' /\ AcceptanceIsCurrent' /\ ResourceLimits'
  BY <1>2, <1>6, PlainKeeps, Zenon
<1>8. LifecycleIsAChain'
  BY <1>1, <1>4, ChainGrows, Zenon
<1>9. TransitionsTypeOK'
  BY <1>1, <1>3, Zenon DEF TransitionsTypeOK, Appends
<1>. QED
  BY <1>6, <1>7, <1>8, <1>9, Zenon DEF TransitionsInv, ClaimsAreSound

LEMMA ProgressKeeps ==
  ASSUME TransitionsInv, NEW p \in Participant, NEW w \in Work, NEW k \in ClaimKey,
         Progress(p, w, k)
  PROVE  TransitionsInv'
<1>1. PICK c \in claims[k] :
        /\ Continues(c, w)
        /\ Admit("progress", p, w, c.last, {k}, {})
        /\ claims' = [claims EXCEPT ![k] = {[c EXCEPT !.last = NextID]}]
        /\ UNCHANGED <<offers, acceptances>>
  BY Zenon DEF Progress
<1>2. TransitionsTypeOK /\ ClaimInv /\ OfferInv
  BY Zenon DEF TransitionsInv
<1>3. PICK e : e = [kind |-> "progress", work |-> w, participant |-> p,
                    causation |-> c.last, key |-> {k}, to |-> {}]
  OBVIOUS
<1>4. e.kind = "progress" /\ e.causation = c.last /\ e.key = {k}
  BY <1>3
<1>5. Appends(e)
  <2>1. "progress" \in Kind
    BY Zenon DEF Kind
  <2>. QED
    BY <1>1, <1>2, <1>3, <2>1, Appended, Zenon
<1>6. PICK d \in Claim : /\ d = [c EXCEPT !.last = NextID]
                         /\ d.root = c.root /\ d.work = c.work /\ d.last = NextID
                         /\ d.active = c.active /\ d.offers = c.offers
  <2>1. c \in Claim /\ NextID \in 1..MaxEvents
    BY <1>2, <1>5, ClaimTypes, Zenon DEF Appends
  <2>2. [c EXCEPT !.last = NextID] \in Claim
    BY <2>1, Zenon DEF Claim
  <2>. QED
    BY <2>1, <2>2, Zenon DEF Claim
<1>7. /\ c.active /\ Of({"release"}, k) = {}
      /\ c.offers = CurrentOffers(k) /\ Cardinality(c.offers) <= MaxOffers
  BY <1>1, <1>2, ActiveClaim, Zenon DEF Continues, ClaimOk
<1>8. d.active /\ Of({"release"}, k)' = {} /\ d.offers = CurrentOffers(k)'
  <2>1. /\ e.kind \notin {"release"} /\ e.kind \notin {"handoff_offer"}
        /\ e.kind \notin {"handoff_accept", "release"}
    BY <1>4
  <2>2. /\ Of({"release"}, k)' = Of({"release"}, k)
        /\ Of({"handoff_offer"}, k)' = Of({"handoff_offer"}, k)
        /\ Of({"handoff_accept", "release"}, k)' = Of({"handoff_accept", "release"}, k)
    BY <1>5, <2>1, OfGrows, Zenon
  <2>. QED
    BY <1>6, <1>7, <2>2, Zenon DEF CurrentOffers
<1>9. OfferInv' /\ offers' \in SUBSET Offer
  BY <1>1, <1>2, <1>5, OffersStay, Zenon DEF OfferInv, TransitionsTypeOK
<1>. QED
  BY <1>1, <1>4, <1>5, <1>6, <1>7, <1>8, <1>9, ContinuingKeeps, Zenon

LEMMA ReleaseKeeps ==
  ASSUME TransitionsInv, NEW p \in Participant, NEW w \in Work, NEW k \in ClaimKey,
         Release(p, w, k)
  PROVE  TransitionsInv'
<1>1. PICK c \in claims[k] :
        /\ Continues(c, w)
        /\ Admit("release", p, w, c.last, {k}, {})
        /\ claims' = [claims EXCEPT ![k] =
             {[c EXCEPT !.last = NextID, !.active = FALSE, !.offers = {}]}]
        /\ UNCHANGED <<offers, acceptances>>
  BY Zenon DEF Release
<1>2. TransitionsTypeOK /\ ClaimInv /\ OfferInv
  BY Zenon DEF TransitionsInv
<1>3. PICK e : e = [kind |-> "release", work |-> w, participant |-> p,
                    causation |-> c.last, key |-> {k}, to |-> {}]
  OBVIOUS
<1>4. e.kind = "release" /\ e.causation = c.last /\ e.key = {k}
  BY <1>3
<1>5. Appends(e)
  <2>1. "release" \in Kind
    BY Zenon DEF Kind
  <2>. QED
    BY <1>1, <1>2, <1>3, <2>1, Appended, Zenon
<1>6. PICK d \in Claim : /\ d = [c EXCEPT !.last = NextID, !.active = FALSE, !.offers = {}]
                         /\ d.root = c.root /\ d.work = c.work /\ d.last = NextID
                         /\ ~d.active /\ d.offers = {}
  <2>1. c \in Claim /\ NextID \in 1..MaxEvents
    BY <1>2, <1>5, ClaimTypes, Zenon DEF Appends
  <2>2. [c EXCEPT !.last = NextID, !.active = FALSE, !.offers = {}] \in Claim
    BY <2>1, Zenon DEF Claim
  <2>. QED
    BY <2>1, <2>2, Zenon DEF Claim
<1>7. Of({"release"}, k)' # {} /\ CurrentOffers(k)' = {}
  <2>1. /\ NextID \in Of({"release"}, k)' /\ NextID \in Of({"handoff_accept", "release"}, k)'
        /\ Of({"handoff_offer"}, k)' = Of({"handoff_offer"}, k)
    BY <1>4, <1>5, OfGrows, Zenon
  <2>2. \A n \in Of({"handoff_offer"}, k) : ~(NextID < n)
    <3>1. \A n \in Of({"handoff_offer"}, k) : n \in 1..Len(transcript)
      BY <1>5, OfGrows, Zenon
    <3>2. Len(transcript) \in Nat /\ NextID = Len(transcript) + 1
      BY <1>5, Zenon DEF Appends
    <3>. QED
      BY <3>1, <3>2
  <2>. QED
    BY <2>1, <2>2, Zenon DEF CurrentOffers
<1>8. Cardinality(d.offers) <= MaxOffers
  BY <1>6, FS_EmptySet, TransitionsAssumption
<1>9. OfferInv' /\ offers' \in SUBSET Offer
  BY <1>1, <1>2, <1>5, OffersStay, Zenon DEF OfferInv, TransitionsTypeOK
<1>10. c.active
  BY <1>1, Zenon DEF Continues
<1>. QED
  BY <1>1, <1>4, <1>5, <1>6, <1>7, <1>8, <1>9, <1>10, ContinuingKeeps, Zenon

LEMMA HandoffOfferKeeps ==
  ASSUME TransitionsInv, NEW p \in Participant, NEW w \in Work, NEW k \in ClaimKey,
         NEW to \in Participant, HandoffOffer(p, w, k, to)
  PROVE  TransitionsInv'
<1>1. PICK c \in claims[k] :
        /\ Continues(c, w)
        /\ Cardinality(c.offers) < MaxOffers
        /\ Admit("handoff_offer", p, w, c.last, {k}, {to})
        /\ claims' = [claims EXCEPT ![k] = {[c EXCEPT !.last = NextID, !.offers = @ \cup {NextID}]}]
        /\ offers' = offers \cup
             {[event |-> NextID, key |-> k, recipient |-> to, accepted |-> FALSE]}
        /\ UNCHANGED acceptances
  BY Zenon DEF HandoffOffer
<1>2. TransitionsTypeOK /\ ClaimInv /\ OfferInv
  BY Zenon DEF TransitionsInv
<1>3. PICK e : e = [kind |-> "handoff_offer", work |-> w, participant |-> p,
                    causation |-> c.last, key |-> {k}, to |-> {to}]
  OBVIOUS
<1>4. e.kind = "handoff_offer" /\ e.causation = c.last /\ e.key = {k} /\ e.to = {to}
  BY <1>3
<1>5. Appends(e)
  <2>1. "handoff_offer" \in Kind
    BY Zenon DEF Kind
  <2>. QED
    BY <1>1, <1>2, <1>3, <2>1, Appended, Zenon
<1>6. /\ Len(transcript) \in Nat /\ NextID = Len(transcript) + 1 /\ NextID \in 1..MaxEvents
      /\ transcript'[NextID] = e
  BY <1>5, Zenon DEF Appends
<1>7. PICK d \in Claim : /\ d = [c EXCEPT !.last = NextID, !.offers = @ \cup {NextID}]
                         /\ d.root = c.root /\ d.work = c.work /\ d.last = NextID
                         /\ d.active = c.active /\ d.offers = c.offers \cup {NextID}
  <2>1. c \in Claim
    BY <1>2, ClaimTypes, Zenon
  <2>2. c.offers \cup {NextID} \in SUBSET (1..MaxEvents)
    BY <1>6, <2>1, Zenon DEF Claim
  <2>3. [c EXCEPT !.last = NextID, !.offers = c.offers \cup {NextID}] \in Claim
    BY <1>6, <2>1, <2>2, Zenon DEF Claim
  <2>. QED
    BY <2>1, <2>3, Zenon DEF Claim
<1>8. /\ c.active /\ Of({"release"}, k) = {} /\ c.offers = CurrentOffers(k)
  BY <1>1, <1>2, ActiveClaim, Zenon DEF Continues
<1>9. d.active /\ Of({"release"}, k)' = {} /\ d.offers = CurrentOffers(k)'
  <2>1. e.kind \notin {"release"} /\ e.kind \notin {"handoff_accept", "release"}
    BY <1>4
  <2>2. /\ Of({"release"}, k)' = Of({"release"}, k)
        /\ Of({"handoff_accept", "release"}, k)' = Of({"handoff_accept", "release"}, k)
        /\ \A m \in Of({"handoff_accept", "release"}, k) : m \in 1..Len(transcript)
    BY <1>5, <2>1, OfGrows, Zenon
  <2>3. Of({"handoff_offer"}, k)' = Of({"handoff_offer"}, k) \cup {NextID}
    BY <1>4, <1>5, OfGrows, Zenon
  <2>4. \A m \in Of({"handoff_accept", "release"}, k) : m < NextID
    BY <1>6, <2>2
  <2>5. CurrentOffers(k)' = CurrentOffers(k) \cup {NextID}
    BY <2>2, <2>3, <2>4, Zenon DEF CurrentOffers
  <2>. QED
    BY <1>7, <1>8, <2>2, <2>5, Zenon
<1>10. Cardinality(d.offers) <= MaxOffers
  <2>1. IsFiniteSet(1..Len(transcript))
    BY <1>6, FS_Interval
  <2>2. IsFiniteSet(c.offers)
    <3>1. c.offers \in SUBSET (1..Len(transcript))
      BY <1>8, CurrentAreEvents, Zenon
    <3>. QED
      BY <2>1, <3>1, FS_Subset, Zenon
  <2>3. /\ Cardinality(c.offers \cup {NextID}) \in {Cardinality(c.offers), Cardinality(c.offers) + 1}
        /\ Cardinality(c.offers) \in Nat
    BY <2>2, FS_AddElement, FS_CardinalityType
  <2>. QED
    BY <1>1, <1>7, <2>3, TransitionsAssumption
<1>11. OfferInv' /\ offers' \in SUBSET Offer
  <2>1. PICK o : o = [event |-> NextID, key |-> k, recipient |-> to, accepted |-> FALSE]
    OBVIOUS
  <2>2. o \in Offer /\ o.event = NextID /\ o.key = k /\ o.recipient = to
    BY <1>6, <2>1 DEF Offer
  <2>3. NextID \in Of({"handoff_offer"}, k)' /\ transcript'[NextID].to = {to}
    <3>1. Of({"handoff_offer"}, k)' = Of({"handoff_offer"}, k) \cup {NextID}
      BY <1>4, <1>5, OfGrows, Zenon
    <3>. QED
      BY <1>4, <1>6, <3>1, Zenon
  <2>4. offers' = offers \cup {o}
    BY <1>1, <2>1, Zenon
  <2>5. \A x \in offers : /\ x.event \in Of({"handoff_offer"}, x.key)'
                          /\ transcript'[x.event].to = {x.recipient}
    BY <1>2, <1>5, OffersStay, Zenon
  <2>. QED
    BY <1>2, <2>2, <2>3, <2>4, <2>5, Zenon DEF OfferInv, TransitionsTypeOK
<1>. QED
  BY <1>1, <1>4, <1>5, <1>7, <1>8, <1>9, <1>10, <1>11, ContinuingKeeps, Zenon

\* The recipient of a current offer accepts it.
LEMMA HandoffAcceptKeeps ==
  ASSUME TransitionsInv, NEW p \in Participant, NEW w \in Work, NEW o \in offers,
         HandoffAccept(p, w, o)
  PROVE  TransitionsInv'
<1>1. PICK c \in claims[o.key] :
        /\ ~o.accepted /\ c.active /\ o.event \in c.offers
        /\ p = o.recipient
        /\ Admit("handoff_accept", p, w, o.event, {o.key}, {})
        /\ claims' = [claims EXCEPT ![o.key] = {[c EXCEPT !.last = NextID, !.offers = {}]}]
        /\ offers' = {IF x.event \in c.offers THEN [x EXCEPT !.accepted = TRUE] ELSE x : x \in offers}
        /\ acceptances' = acceptances \cup {[event |-> NextID, participant |-> p]}
  BY Zenon DEF HandoffAccept
<1>2. /\ TransitionsTypeOK /\ EventInv /\ ClaimInv /\ OfferInv /\ AcceptanceInv
      /\ OneSuccessorPerAcceptance /\ AcceptanceIsCurrent /\ LifecycleIsAChain /\ ResourceLimits
  BY Zenon DEF TransitionsInv, ClaimsAreSound
<1>3. PICK k \in ClaimKey : k = o.key
  BY <1>2, Zenon DEF TransitionsTypeOK, Offer
<1>4. PICK e : e = [kind |-> "handoff_accept", work |-> w, participant |-> p,
                    causation |-> o.event, key |-> {k}, to |-> {}]
  OBVIOUS
<1>5. /\ e.kind = "handoff_accept" /\ e.causation = o.event /\ e.key = {k}
      /\ e.participant = p /\ e.kind # "claim"
      /\ e.kind \notin {"progress", "handoff_offer", "release"}
      /\ e.kind \in LifecycleKind \ {"claim"}
  BY <1>4 DEF LifecycleKind
<1>6. Appends(e)
  <2>1. "handoff_accept" \in Kind
    BY Zenon DEF Kind
  <2>. QED
    BY <1>1, <1>2, <1>3, <1>4, <2>1, Appended, Zenon
<1>7. /\ Len(transcript) \in Nat /\ NextID = Len(transcript) + 1 /\ NextID \in 1..MaxEvents
      /\ Len(transcript') = NextID
      /\ transcript'[NextID] = e /\ \A x \in 1..Len(transcript) : transcript'[x] = transcript[x]
  BY <1>6, Zenon DEF Appends
<1>8. PICK d \in Claim : /\ d = [c EXCEPT !.last = NextID, !.offers = {}]
                         /\ d.root = c.root /\ d.work = c.work /\ d.last = NextID
                         /\ d.active = c.active /\ d.offers = {}
  <2>1. c \in Claim
    BY <1>1, <1>2, <1>3, ClaimTypes, Zenon
  <2>2. [c EXCEPT !.last = NextID, !.offers = {}] \in Claim
    BY <1>7, <2>1, Zenon DEF Claim
  <2>. QED
    BY <2>1, <2>2, Zenon DEF Claim
<1>9. /\ claims' \in [ClaimKey -> {{}} \cup {{x} : x \in Claim}] /\ claims'[k] = {d}
      /\ \A j \in ClaimKey : j # k => claims'[j] = claims[j]
  BY <1>1, <1>2, <1>3, <1>8, ClaimsTyped, Zenon
<1>10. /\ ClaimOk(k) /\ Of({"release"}, k) = {} /\ c.offers = CurrentOffers(k)
  BY <1>1, <1>2, <1>3, ActiveClaim, Zenon
<1>11. ClaimInv'
  <2>1. Of({"release"}, k)' = {}
    <3>1. e.kind \notin {"release"}
      BY <1>5
    <3>. QED
      BY <1>6, <1>10, <3>1, OfGrows, Zenon
  <2>2. CurrentOffers(k)' = {}
    <3>1. e.kind \notin {"handoff_offer"} /\ e.kind \in {"handoff_accept", "release"}
      BY <1>5
    <3>2. /\ NextID \in Of({"handoff_accept", "release"}, k)'
          /\ Of({"handoff_offer"}, k)' = Of({"handoff_offer"}, k)
          /\ \A n \in Of({"handoff_offer"}, k) : n \in 1..Len(transcript)
      BY <1>5, <1>6, <3>1, OfGrows, Zenon
    <3>3. \A n \in Of({"handoff_offer"}, k) : ~(NextID < n)
      BY <1>7, <3>2
    <3>. QED
      BY <3>2, <3>3, Zenon DEF CurrentOffers
  <2>3. Cardinality(d.offers) <= MaxOffers
    BY <1>8, FS_EmptySet, TransitionsAssumption
  <2>4. ClaimOk(k)'
    <3>1. /\ c \in claims[k] /\ d.root = c.root /\ d.work = c.work /\ d.last = NextID
          /\ d.offers = CurrentOffers(k)' /\ (d.active <=> Of({"release"}, k)' = {})
      BY <1>1, <1>3, <1>8, <2>1, <2>2, Zenon
    <3>2. e.key = {k} /\ e.kind \in LifecycleKind \ {"claim"} /\ claims'[k] = {d} /\ ClaimOk(k)
      BY <1>5, <1>9, <1>10, Zenon
    <3>. QED
      BY <1>6, <2>3, <3>1, <3>2, ClaimGrows, Zenon
  <2>. QED
    BY <1>2, <1>5, <1>6, <1>9, <2>4, OneClaimChanges, Zenon
<1>12. /\ o.event \in 1..Len(transcript) /\ transcript[o.event].to = {p}
       /\ \A m \in Of({"handoff_accept", "release"}, k) : m < o.event
  <2>1. o.event \in CurrentOffers(k)
    BY <1>1, <1>10, Zenon
  <2>. QED
    BY <1>1, <1>2, <2>1, CurrentAreEvents, Zenon DEF OfferInv, CurrentOffers
<1>13. EventInv'
  <2>1. o.event # NoEvent
    BY <1>7, <1>12 DEF NoEvent
  <2>. QED
    BY <1>2, <1>5, <1>6, <2>1, EventsStay, Zenon
<1>14. AcceptanceInv' /\ acceptances' \in SUBSET Acceptance
  <2>1. ASSUME NEW a \in acceptances
        PROVE  /\ a.event \in 1..Len(transcript')
               /\ transcript'[a.event].kind = "handoff_accept"
               /\ transcript'[a.event].participant = a.participant
               /\ transcript'[transcript'[a.event].causation].to = {a.participant}
               /\ \A n \in Successors' : transcript'[n].causation # a.event
    BY <1>2, <1>5, <1>6, <2>1, AcceptanceStays, Zenon
  <2>2. PICK b : b = [event |-> NextID, participant |-> p]
    OBVIOUS
  <2>3. b.event = NextID /\ b.participant = p /\ b \in Acceptance
    BY <1>7, <2>2, Zenon DEF Acceptance
  <2>4. ASSUME NEW n \in Successors'  PROVE transcript'[n].causation # NextID
    <3>1. n \in Successors
      BY <1>5, <1>6, SuccessorsGrow, Zenon
    <3>2. n \in 1..Len(transcript)
      BY <3>1, Zenon DEF Successors
    <3>3. transcript'[n].causation \in 0..(n - 1)
      BY <1>2, <1>7, <3>2, Zenon DEF EventInv
    <3>. QED
      BY <1>7, <3>2, <3>3
  <2>5. NextID \in 1..Len(transcript')
    BY <1>7
  <2>6. acceptances' = acceptances \cup {b}
    BY <1>1, <2>2, Zenon
  <2>7. transcript'[transcript'[NextID].causation].to = {p}
    BY <1>5, <1>7, <1>12, Zenon
  <2>. QED
    <3>1. /\ transcript'[NextID].kind = "handoff_accept" /\ transcript'[NextID].participant = p
      BY <1>5, <1>7, Zenon
    <3>2. AcceptanceInv'
      BY <2>1, <2>3, <2>4, <2>5, <2>6, <2>7, <3>1, Zenon DEF AcceptanceInv
    <3>. QED
      BY <1>2, <2>3, <2>6, <3>2, Zenon DEF TransitionsTypeOK
<1>15. AcceptanceIsCurrent'
  <2>. SUFFICES ASSUME NEW j \in ClaimKey, NEW n \in Of({"handoff_accept"}, j)',
                       NEW m \in Of({"handoff_accept", "release"}, j)', m < n
       PROVE  m < transcript'[n].causation
    BY Zenon DEF AcceptanceIsCurrent
  <2>1. CASE n \in Of({"handoff_accept"}, j)
    BY <1>2, <1>6, <2>1, AcceptanceCurrentStays, Zenon
  <2>2. CASE n \notin Of({"handoff_accept"}, j)
    <3>1. n = NextID /\ j = k
      BY <1>5, <1>6, <2>2, OfGrows, Zenon
    <3>2. m \in Of({"handoff_accept", "release"}, k)
      <4>1. m \in Of({"handoff_accept", "release"}, k) \/ m = NextID
        BY <1>6, <3>1, OfGrows, Zenon
      <4>. QED
        BY <1>7, <3>1, <4>1
    <3>. QED
      BY <1>5, <1>7, <1>12, <3>1, <3>2, Zenon
  <2>. QED
    BY <2>1, <2>2, Zenon
<1>16. OneSuccessorPerAcceptance' /\ LifecycleIsAChain' /\ ResourceLimits'
  <2>1. OneSuccessorPerAcceptance'
    BY <1>2, <1>5, <1>6, OneSuccessorStays, Zenon
  <2>2. LifecycleIsAChain'
    BY <1>2, <1>5, <1>6, <1>10, ChainGrows, Zenon
  <2>3. ResourceLimits'
    BY <1>2, <1>5, <1>6, <1>11, LimitsStay, Zenon
  <2>. QED
    BY <2>1, <2>2, <2>3, Zenon
<1>17. OfferInv' /\ offers' \in SUBSET Offer
  <2>1. ASSUME NEW y \in offers'
        PROVE  /\ y \in Offer
               /\ y.event \in Of({"handoff_offer"}, y.key)'
               /\ transcript'[y.event].to = {y.recipient}
    <3>1. PICK x \in offers :
            y = IF x.event \in c.offers THEN [x EXCEPT !.accepted = TRUE] ELSE x
      BY <1>1, <2>1, Zenon
    <3>2. x \in Offer
      BY <1>2, Zenon DEF TransitionsTypeOK
    <3>3. [x EXCEPT !.accepted = TRUE] \in Offer
      BY <3>2, Zenon DEF Offer
    <3>4. y \in Offer /\ y.event = x.event /\ y.key = x.key /\ y.recipient = x.recipient
      <4>1. CASE x.event \in c.offers
        <5>1. y = [x EXCEPT !.accepted = TRUE]
          BY <3>1, <4>1, Zenon
        <5>. QED
          BY <3>2, <3>3, <5>1, Zenon DEF Offer
      <4>2. CASE x.event \notin c.offers
        BY <3>1, <3>2, <4>2, Zenon
      <4>. QED
        BY <4>1, <4>2, Zenon
    <3>. QED
      BY <1>2, <1>6, <3>4, OffersStay, Zenon
  <2>. QED
    BY <2>1, Zenon DEF OfferInv
<1>18. TransitionsTypeOK'
  BY <1>2, <1>6, <1>9, <1>14, <1>17, Zenon DEF TransitionsTypeOK, Appends
<1>. QED
  BY <1>11, <1>13, <1>14, <1>15, <1>16, <1>17, <1>18, Zenon DEF TransitionsInv, ClaimsAreSound

\* A new claim, and the acceptance it succeeds if it names one.
LEMMA MakeClaimKeeps ==
  ASSUME TransitionsInv, NEW p \in Participant, NEW w \in Work, NEW k \in ClaimKey,
         NEW predecessor, MakeClaim(p, w, k, predecessor)
  PROVE  TransitionsInv'
<1>1. /\ claims[k] = {}
      /\ predecessor # NoEvent => [event |-> predecessor, participant |-> p] \in acceptances
      /\ Cardinality(ActiveClaims(w)) < MaxClaims
      /\ Admit("claim", p, w, predecessor, {k}, {})
      /\ acceptances' = acceptances \ {[event |-> predecessor, participant |-> p]}
      /\ claims' = [claims EXCEPT ![k] = {NewClaim(w)}]
      /\ UNCHANGED offers
  BY Zenon DEF MakeClaim
<1>2. /\ TransitionsTypeOK /\ EventInv /\ ClaimInv /\ OfferInv /\ AcceptanceInv
      /\ OneSuccessorPerAcceptance /\ AcceptanceIsCurrent /\ LifecycleIsAChain /\ ResourceLimits
  BY Zenon DEF TransitionsInv, ClaimsAreSound
<1>3. PICK e : e = [kind |-> "claim", work |-> w, participant |-> p,
                    causation |-> predecessor, key |-> {k}, to |-> {}]
  OBVIOUS
<1>4. /\ e.kind = "claim" /\ e.work = w /\ e.causation = predecessor /\ e.key = {k}
      /\ e.participant = p /\ e.kind # "handoff_accept"
      /\ e.kind \notin {"progress", "handoff_offer", "release"}
      /\ e.kind \in LifecycleKind
  BY <1>3 DEF LifecycleKind
<1>5. Appends(e)
  <2>1. "claim" \in Kind
    BY Zenon DEF Kind
  <2>. QED
    BY <1>1, <1>2, <1>3, <2>1, Appended, Zenon
<1>6. /\ Len(transcript) \in Nat /\ NextID = Len(transcript) + 1 /\ NextID \in 1..MaxEvents
      /\ Len(transcript') = NextID /\ predecessor \in 0..Len(transcript)
      /\ transcript'[NextID] = e /\ \A x \in 1..Len(transcript) : transcript'[x] = transcript[x]
      /\ 1..Len(transcript') = 1..Len(transcript) \cup {NextID}
  BY <1>4, <1>5, Zenon DEF Appends
<1>7. PICK d \in Claim : /\ d = NewClaim(w)
                         /\ d.root = NextID /\ d.work = w /\ d.last = NextID
                         /\ d.active /\ d.offers = {}
  <2>1. NewClaim(w) \in Claim
    BY <1>6, Zenon DEF NewClaim, Claim
  <2>. QED
    BY <2>1, Zenon DEF NewClaim
<1>8. /\ claims' \in [ClaimKey -> {{}} \cup {{x} : x \in Claim}] /\ claims'[k] = {d}
      /\ \A j \in ClaimKey : j # k => claims'[j] = claims[j]
  BY <1>1, <1>2, <1>7, ClaimsTyped, Zenon
<1>9. \A kinds \in SUBSET LifecycleKind : Of(kinds, k) = {}
  <2>1. Of(LifecycleKind, k) = {}
    BY <1>1, <1>2, Zenon DEF ClaimInv, ClaimOk
  <2>. QED
    BY <2>1, Zenon DEF Of
<1>10. ClaimInv'
  <2>1. /\ {"claim"} \in SUBSET LifecycleKind /\ {"release"} \in SUBSET LifecycleKind
        /\ {"handoff_offer"} \in SUBSET LifecycleKind /\ LifecycleKind \in SUBSET LifecycleKind
        /\ e.kind \in {"claim"} /\ e.kind \notin {"release"} /\ e.kind \notin {"handoff_offer"}
    BY <1>4 DEF LifecycleKind
  <2>2. /\ Of({"claim"}, k)' = {NextID} /\ Of(LifecycleKind, k)' = {NextID}
    <3>1. /\ Of({"claim"}, k)' = Of({"claim"}, k) \cup {NextID}
          /\ Of(LifecycleKind, k)' = Of(LifecycleKind, k) \cup {NextID}
      BY <1>4, <1>5, <2>1, OfGrows, Zenon
    <3>. QED
      BY <1>9, <2>1, <3>1, Zenon
  <2>3. Of({"release"}, k)' = {} /\ Of({"handoff_offer"}, k)' = {}
    BY <1>4, <1>5, <1>9, <2>1, OfGrows, Zenon
  <2>4. CurrentOffers(k)' = {}
    BY <2>3, Zenon DEF CurrentOffers
  <2>5. Cardinality(d.offers) <= MaxOffers
    BY <1>7, FS_EmptySet, TransitionsAssumption
  <2>6. NextID <= NextID /\ transcript'[NextID].work = w
    BY <1>4, <1>6
  <2>7. ClaimOk(k)'
    BY <1>7, <1>8, <2>2, <2>3, <2>4, <2>5, <2>6, Zenon DEF ClaimOk
  <2>. QED
    BY <1>2, <1>4, <1>5, <1>8, <2>7, OneClaimChanges, Zenon
<1>11. EventInv'
  BY <1>2, <1>4, <1>5, EventsStay, Zenon
<1>12. AcceptanceInv'
  <2>1. ASSUME NEW a \in acceptances'
        PROVE  /\ a.event \in 1..Len(transcript')
               /\ transcript'[a.event].kind = "handoff_accept"
               /\ transcript'[a.event].participant = a.participant
               /\ transcript'[transcript'[a.event].causation].to = {a.participant}
               /\ \A n \in Successors' : transcript'[n].causation # a.event
    <3>1. a \in acceptances /\ a \in Acceptance /\ a # [event |-> predecessor, participant |-> p]
      BY <1>1, <1>2, <2>1, Zenon DEF TransitionsTypeOK
    <3>2. a.event \in 1..Len(transcript) /\ transcript[a.event].participant = a.participant
      BY <1>2, <3>1, Zenon DEF AcceptanceInv
    <3>3. predecessor # a.event
      <4>1. CASE predecessor = NoEvent
        BY <1>6, <3>2, <4>1 DEF NoEvent
      <4>2. CASE predecessor # NoEvent
        <5>1. PICK b \in acceptances : b = [event |-> predecessor, participant |-> p]
          BY <1>1, <4>2, Zenon
        <5>2. b.event = predecessor /\ b.participant = p
          BY <5>1, Zenon
        <5>3. transcript[predecessor].participant = p
          BY <1>2, <5>2, Zenon DEF AcceptanceInv
        <5>4. a = [event |-> a.event, participant |-> a.participant]
          BY <3>1, Zenon DEF Acceptance
        <5>. QED
          BY <3>1, <3>2, <5>3, <5>4, Zenon
      <4>. QED
        BY <4>1, <4>2, Zenon
    <3>. QED
      <4>1. e.kind = "claim" => e.causation # a.event
        BY <1>4, <3>3, Zenon
      <4>2. a \in acceptances /\ EventInv /\ AcceptanceInv
        BY <1>2, <3>1, Zenon
      <4>. QED
        BY <1>5, <4>1, <4>2, AcceptanceStays, Zenon
  <2>. QED
    BY <2>1, Zenon DEF AcceptanceInv
<1>13. OneSuccessorPerAcceptance'
  <2>1. CASE predecessor = NoEvent
    BY <1>2, <1>4, <1>5, <2>1, OneSuccessorStays, Zenon
  <2>2. CASE predecessor # NoEvent
    <3>1. PICK b \in acceptances : b.event = predecessor /\ b.participant = p
      <4>1. PICK b \in acceptances : b = [event |-> predecessor, participant |-> p]
        BY <1>1, <2>2, Zenon
      <4>. QED
        BY <4>1, Zenon
    <3>2. /\ predecessor \in 1..Len(transcript)
          /\ transcript[predecessor].kind = "handoff_accept"
          /\ transcript[predecessor].participant = p
          /\ transcript[transcript[predecessor].causation].to = {p}
          /\ \A n \in Successors : transcript[n].causation # predecessor
      BY <1>2, <3>1, Zenon DEF AcceptanceInv
    <3>3. transcript[predecessor].causation \in 1..Len(transcript)
      <4>1. /\ transcript[predecessor].causation \in 0..(predecessor - 1)
            /\ transcript[predecessor].causation # 0
        BY <1>2, <3>2, Zenon DEF EventInv, NoEvent
      <4>. QED
        BY <1>6, <3>2, <4>1
    <3>4. Successors' = Successors \cup {NextID}
      BY <1>4, <1>5, <2>2, SuccessorsGrow, Zenon
    <3>5. ASSUME NEW n \in Successors
          PROVE  /\ transcript'[n] = transcript[n]
                 /\ transcript'[transcript[n].causation] = transcript[transcript[n].causation]
                 /\ transcript'[transcript[transcript[n].causation].causation]
                      = transcript[transcript[transcript[n].causation].causation]
      BY <1>2, <1>5, <3>5, SuccessorsStay, Zenon
    <3>6. /\ transcript'[NextID].causation = predecessor /\ transcript'[NextID].participant = p
          /\ transcript'[predecessor] = transcript[predecessor]
          /\ transcript'[transcript[predecessor].causation] = transcript[transcript[predecessor].causation]
      BY <1>4, <1>6, <3>2, <3>3, Zenon
    <3>7. ASSUME NEW m \in Successors', NEW n \in Successors',
                 transcript'[m].causation = transcript'[n].causation
          PROVE  m = n
      <4>1. CASE m \in Successors /\ n \in Successors
        <5>1. transcript[m].causation = transcript[n].causation
          BY <3>5, <3>7, <4>1, Zenon
        <5>. QED
          BY <1>2, <4>1, <5>1, Zenon DEF OneSuccessorPerAcceptance
      <4>2. \A x \in Successors : transcript'[x].causation # predecessor
        BY <3>2, <3>5, Zenon
      <4>3. CASE m \notin Successors
        <5>1. m = NextID /\ n \notin Successors
          BY <3>4, <3>6, <3>7, <4>2, <4>3, Zenon
        <5>. QED
          BY <3>4, <3>7, <5>1, Zenon
      <4>4. CASE n \notin Successors
        <5>1. n = NextID /\ m \notin Successors
          BY <3>4, <3>6, <3>7, <4>2, <4>4, Zenon
        <5>. QED
          BY <3>4, <3>7, <5>1, Zenon
      <4>. QED
        BY <4>1, <4>3, <4>4, Zenon
    <3>8. ASSUME NEW n \in Successors'
          PROVE  /\ transcript'[transcript'[n].causation].kind = "handoff_accept"
                 /\ transcript'[transcript'[n].causation].participant = transcript'[n].participant
                 /\ transcript'[transcript'[transcript'[n].causation].causation].to
                      = {transcript'[transcript'[n].causation].participant}
      <4>1. CASE n \in Successors
        BY <1>2, <3>5, <4>1 DEF OneSuccessorPerAcceptance
      <4>2. CASE n = NextID
        BY <3>2, <3>6, <4>2, Zenon
      <4>. QED
        BY <3>4, <3>8, <4>1, <4>2, Zenon
    <3>. QED
      BY <3>7, <3>8, Zenon DEF OneSuccessorPerAcceptance
  <2>. QED
    BY <2>1, <2>2, Zenon
<1>14. AcceptanceIsCurrent'
  <2>1. ASSUME NEW j \in ClaimKey  PROVE Of({"handoff_accept"}, j)' = Of({"handoff_accept"}, j)
    BY <1>4, <1>5, OfGrows, Zenon
  <2>2. ASSUME NEW j \in ClaimKey, NEW n \in Of({"handoff_accept"}, j)',
               NEW m \in Of({"handoff_accept", "release"}, j)', m < n
        PROVE  m < transcript'[n].causation
    BY <1>2, <1>5, <2>1, <2>2, AcceptanceCurrentStays, Zenon
  <2>. QED
    BY <2>2, Zenon DEF AcceptanceIsCurrent
<1>15. LifecycleIsAChain'
  <2>1. Of({"release"}, k) = {}
    <3>1. {"release"} \in SUBSET LifecycleKind
      BY DEF LifecycleKind
    <3>. QED
      BY <1>9, <3>1, Zenon
  <2>. QED
    BY <1>2, <1>4, <1>5, <2>1, ChainGrows, Zenon
<1>16. ResourceLimits'
  <2>1. ASSUME NEW x \in Work, x # w  PROVE Cardinality(Unreleased(x))' <= MaxClaims
    <3>1. Unreleased(x)' \subseteq Unreleased(x)
      BY <1>4, <1>5, <2>1, UnreleasedShrinks, Zenon
    <3>2. IsFiniteSet(Unreleased(x)) /\ Cardinality(Unreleased(x)) <= MaxClaims
      BY <1>2, <1>6, UnreleasedAreActive, Zenon DEF ResourceLimits
    <3>3. /\ Cardinality(Unreleased(x)') <= Cardinality(Unreleased(x))
          /\ IsFiniteSet(Unreleased(x)')
      BY <3>1, <3>2, FS_Subset, Zenon
    <3>4. Cardinality(Unreleased(x)') \in Nat /\ Cardinality(Unreleased(x)) \in Nat
      BY <3>2, <3>3, FS_CardinalityType, Zenon
    <3>. QED
      BY <3>2, <3>3, <3>4, TransitionsAssumption
  <2>2. Cardinality(Unreleased(w))' <= MaxClaims
    <3>1. ASSUME NEW n \in Unreleased(w)'  PROVE n \in Unreleased(w) \cup {NextID}
      <4>1. /\ n \in 1..Len(transcript') /\ transcript'[n].kind = "claim" /\ transcript'[n].work = w
            /\ \A j \in transcript'[n].key : Of({"release"}, j)' = {}
        BY <3>1, Zenon DEF Unreleased
      <4>2. CASE n \in 1..Len(transcript)
        <5>1. transcript'[n] = transcript[n]
          BY <1>6, <4>2, Zenon
        <5>2. ASSUME NEW j \in transcript[n].key  PROVE Of({"release"}, j) = {}
          BY <1>5, <4>1, <5>1, <5>2, OfGrows, Zenon
        <5>. QED
          BY <4>1, <4>2, <5>1, <5>2, Zenon DEF Unreleased
      <4>. QED
        BY <1>6, <4>1, <4>2, Zenon
    <3>2. /\ IsFiniteSet(Unreleased(w)) /\ IsFiniteSet(ActiveClaims(w))
          /\ Cardinality(Unreleased(w)) <= Cardinality(ActiveClaims(w))
      BY <1>2, <1>6, UnreleasedAreActive, Zenon
    <3>3. Cardinality(Unreleased(w)) \in Nat /\ Cardinality(ActiveClaims(w)) \in Nat
      BY <3>2, FS_CardinalityType, Zenon
    <3>4. /\ IsFiniteSet(Unreleased(w) \cup {NextID})
          /\ Cardinality(Unreleased(w) \cup {NextID})
               \in {Cardinality(Unreleased(w)), Cardinality(Unreleased(w)) + 1}
      BY <3>2, FS_AddElement
    <3>5. Unreleased(w)' \in SUBSET (Unreleased(w) \cup {NextID})
      BY <3>1, Zenon
    <3>6. /\ Cardinality(Unreleased(w)') <= Cardinality(Unreleased(w) \cup {NextID})
          /\ IsFiniteSet(Unreleased(w)')
      BY <3>4, <3>5, FS_Subset, Zenon
    <3>7. Cardinality(Unreleased(w)') \in Nat
      BY <3>6, FS_CardinalityType, Zenon
    <3>. QED
      BY <1>1, <3>2, <3>3, <3>4, <3>6, <3>7, TransitionsAssumption
  <2>3. ASSUME NEW j \in ClaimKey  PROVE Cardinality(CurrentOffers(j))' <= MaxOffers
    BY <1>10, OffersAreLimited, Zenon
  <2>. QED
    BY <2>1, <2>2, <2>3, Zenon DEF ResourceLimits
<1>17. OfferInv'
  BY <1>1, <1>2, <1>5, OffersStay, Zenon DEF OfferInv
<1>18. TransitionsTypeOK'
  BY <1>1, <1>2, <1>5, <1>8, Zenon DEF TransitionsTypeOK, Appends
<1>. QED
  BY <1>10, <1>11, <1>12, <1>13, <1>14, <1>15, <1>16, <1>17, <1>18, Zenon
     DEF TransitionsInv, ClaimsAreSound

\* An event outside the claim family.
LEMMA OtherEventKeeps ==
  ASSUME TransitionsInv, NEW p \in Participant, NEW w \in Work, NEW cause,
         NEW kind \in Kind \ LifecycleKind, Admit(kind, p, w, cause, {}, {}),
         UNCHANGED <<claims, offers, acceptances>>
  PROVE  TransitionsInv'
<1>1. TransitionsTypeOK /\ EventInv /\ ClaimInv /\ OfferInv /\ LifecycleIsAChain
  BY Zenon DEF TransitionsInv, ClaimsAreSound
<1>2. PICK e : e = [kind |-> kind, work |-> w, participant |-> p,
                    causation |-> cause, key |-> {}, to |-> {}]
  OBVIOUS
<1>3. e.key = {} /\ e.kind \notin {"claim", "handoff_accept"}
  BY <1>2 DEF LifecycleKind
<1>4. Appends(e)
  BY <1>1, <1>2, Appended, Zenon
<1>5. ClaimInv'
  <2>1. ASSUME NEW k \in ClaimKey  PROVE ClaimOk(k)'
    BY <1>1, <1>3, <1>4, <2>1, OtherClaims, Zenon DEF ClaimInv
  <2>. QED
    BY <2>1, Zenon DEF ClaimInv
<1>6. /\ EventInv' /\ AcceptanceInv'
      /\ OneSuccessorPerAcceptance' /\ AcceptanceIsCurrent' /\ ResourceLimits'
  BY <1>3, <1>4, <1>5, PlainKeeps, Zenon
<1>7. LifecycleIsAChain'
  BY <1>1, <1>3, <1>4, ChainGrows, Zenon
<1>8. OfferInv'
  BY <1>1, <1>4, OffersStay, Zenon DEF OfferInv
<1>9. TransitionsTypeOK'
  BY <1>1, <1>4, Zenon DEF TransitionsTypeOK, Appends
<1>. QED
  BY <1>5, <1>6, <1>7, <1>8, <1>9, Zenon DEF TransitionsInv, ClaimsAreSound

LEMMA TransitionsInitially == TransitionsInit => TransitionsInv
<1>. SUFFICES ASSUME TransitionsInit  PROVE TransitionsInv
  OBVIOUS
<1>1. /\ Len(transcript) = 0 /\ 1..Len(transcript) = {} /\ transcript \in Seq(TransitionEvent)
      /\ Len(transcript) <= MaxEvents
  BY TransitionsAssumption DEF TransitionsInit
<1>2. /\ \A kinds, k : Of(kinds, k) = {} /\ \A w : Unreleased(w) = {} /\ Successors = {}
  BY <1>1, Zenon DEF Of, Unreleased, Successors
<1>3. TransitionsTypeOK
  BY <1>1, Zenon DEF TransitionsInit, TransitionsTypeOK
<1>4. EventInv /\ ClaimInv /\ OfferInv /\ AcceptanceInv
  BY <1>1, <1>2, Zenon DEF TransitionsInit, EventInv, ClaimInv, ClaimOk, OfferInv, AcceptanceInv
<1>5. ResourceLimits
  <2>1. \A k : CurrentOffers(k) = {}
    BY <1>2, Zenon DEF CurrentOffers
  <2>. QED
    BY <1>2, <2>1, FS_EmptySet, TransitionsAssumption DEF ResourceLimits
<1>6. OneSuccessorPerAcceptance /\ AcceptanceIsCurrent /\ LifecycleIsAChain
  BY <1>2, Zenon DEF OneSuccessorPerAcceptance, AcceptanceIsCurrent, LifecycleIsAChain
<1>. QED
  BY <1>3, <1>4, <1>5, <1>6, Zenon DEF TransitionsInv, ClaimsAreSound

LEMMA TransitionsStep == TransitionsInv /\ [TransitionsNext]_transitionsVars => TransitionsInv'
<1>. SUFFICES ASSUME TransitionsInv, [TransitionsNext]_transitionsVars
     PROVE  TransitionsInv'
  OBVIOUS
<1>1. CASE UNCHANGED transitionsVars
  <2>1. /\ transcript' = transcript /\ claims' = claims
        /\ offers' = offers /\ acceptances' = acceptances
    BY <1>1, Zenon DEF transitionsVars
  <2>2. /\ \A kinds, k : Of(kinds, k)' = Of(kinds, k) /\ Successors' = Successors
    BY <2>1, Zenon DEF Of, Successors
  <2>3. /\ \A k : CurrentOffers(k)' = CurrentOffers(k) /\ \A w : Unreleased(w)' = Unreleased(w)
    BY <2>1, <2>2 DEF CurrentOffers, Unreleased
  <2>4. TransitionsTypeOK' /\ EventInv' /\ OfferInv' /\ AcceptanceInv'
    BY <2>1, <2>2, Zenon DEF TransitionsInv, TransitionsTypeOK, EventInv, OfferInv, AcceptanceInv
  <2>5. ClaimInv'
    BY <2>1, <2>2, <2>3, Zenon DEF TransitionsInv, ClaimInv, ClaimOk
  <2>6. ClaimsAreSound'
    BY <2>1, <2>2, <2>3 DEF TransitionsInv, ClaimsAreSound, OneSuccessorPerAcceptance,
       AcceptanceIsCurrent, LifecycleIsAChain, ResourceLimits
  <2>. QED
    BY <2>4, <2>5, <2>6, Zenon DEF TransitionsInv
<1>2. CASE TransitionsNext
  <2>1. PICK p \in Participant, w \in Work :
          \/ \E k \in ClaimKey, n \in {NoEvent} \cup 1..Len(transcript) : MakeClaim(p, w, k, n)
          \/ \E k \in ClaimKey :
               \/ Progress(p, w, k)
               \/ Release(p, w, k)
               \/ \E to \in Participant : HandoffOffer(p, w, k, to)
          \/ \E o \in offers : HandoffAccept(p, w, o)
          \/ \E kind \in Root : Publish(p, w, kind)
          \/ \E n \in 1..Len(transcript), kind \in {"answer", "verdict", "evidence_verification"} :
               Root # {} /\ Reply(p, w, kind, n)
    BY <1>2, Zenon DEF TransitionsNext
  <2>2. ASSUME NEW k \in ClaimKey, NEW n, MakeClaim(p, w, k, n)  PROVE TransitionsInv'
    BY <2>2, MakeClaimKeeps, Zenon
  <2>3. ASSUME NEW k \in ClaimKey, Progress(p, w, k)  PROVE TransitionsInv'
    BY <2>3, ProgressKeeps, Zenon
  <2>4. ASSUME NEW k \in ClaimKey, Release(p, w, k)  PROVE TransitionsInv'
    BY <2>4, ReleaseKeeps, Zenon
  <2>5. ASSUME NEW k \in ClaimKey, NEW to \in Participant, HandoffOffer(p, w, k, to)
        PROVE  TransitionsInv'
    BY <2>5, HandoffOfferKeeps, Zenon
  <2>6. ASSUME NEW o \in offers, HandoffAccept(p, w, o)  PROVE TransitionsInv'
    BY <2>6, HandoffAcceptKeeps, Zenon
  <2>7. ASSUME NEW kind \in Root, Publish(p, w, kind)  PROVE TransitionsInv'
    <3>1. kind \in Kind \ LifecycleKind
      BY <2>7, TransitionsAssumption DEF Kind, LifecycleKind
    <3>. QED
      BY <2>7, <3>1, OtherEventKeeps, Zenon DEF Publish
  <2>8. ASSUME NEW n, NEW kind \in {"answer", "verdict", "evidence_verification"},
               Reply(p, w, kind, n)
        PROVE  TransitionsInv'
    <3>1. kind \in Kind \ LifecycleKind
      BY <2>8 DEF Kind, LifecycleKind
    <3>. QED
      BY <2>8, <3>1, OtherEventKeeps, Zenon DEF Reply
  <2>. QED
    BY <2>1, <2>2, <2>3, <2>4, <2>5, <2>6, <2>7, <2>8, Zenon
<1>. QED
  BY <1>1, <1>2, Zenon

\* The validator's state sums up the transcript it was folded from, whatever
\* events the participants send and in whatever order the relay takes them.
THEOREM TransitionsInvariant == TransitionsSpec => []TransitionsInv
  BY TransitionsInitially, TransitionsStep, PTL DEF TransitionsSpec

\* A handoff is accepted while it is current and succeeded at most once, no
\* claim forks, and the limits of transcriptState.apply hold, for any number
\* of participants, works and keys.
THEOREM ClaimsStaySound == TransitionsSpec => []ClaimsAreSound
<1>1. TransitionsInv => ClaimsAreSound
  BY Zenon DEF TransitionsInv
<1>. QED
  BY <1>1, TransitionsInvariant, PTL

(***************************************************************************)
(* Removal: the inductive invariant                                        *)
(***************************************************************************)
\* The marker of the operation is not persisted yet.
Early(row) == row.state \in {"reserved", "export_satisfied"}

\* The payload is gone.
Removed(row) == row.state \in {"payload_removed", "backups_pending", "completed"}

\* The evidence an operation has in its state, and the fence it has raised.
RowInv(o, row) ==
  /\ row.state # "reserved" /\ row.intent.epoch \in ExportRequired => row.export # {}
  /\ Early(row) =>
       /\ row.preimage = {} /\ row.signature = {}
       /\ transcripts[row.intent.epoch].lifecycle = "active"
  /\ ~Early(row) => row.preimage # {} /\ transcripts[row.intent.epoch].lifecycle # "active"
  /\ row.state = "marker_persisted" => row.signature = {}
  /\ row.state = "receipt_signed" \/ Removed(row) => row.signature = row.preimage
  /\ row.state = "completed" =>
       Classify(receipts[o]) = "completable" /\ \A r \in receipts[o], at \in completions[o] : r.time <= at

\* The tombstones of operation o are what its intent names.
Cleared(o, row) ==
  /\ \A t \in tombstones : t.op = o => t.epoch = row.intent.epoch
  /\ row.intent.action = "redact" =>
       {t.seq : t \in {t \in tombstones : t.op = o}} = row.intent.target
  /\ row.intent.action # "redact" =>
       \A a \in accepted : a.epoch = row.intent.epoch =>
         \E t \in tombstones : t.op = o /\ PlaceOf(t) = a

\* An operation has one row and an epoch one operation.
SagaInv ==
  \A o \in Operation : \A row \in operations[o] :
    /\ \A x \in operations[o] : x = row
    /\ \A p \in Operation : \A x \in operations[p] :
         x.intent.epoch = row.intent.epoch => p = o
    /\ RowInv(o, row)
    /\ Removed(row) => Cleared(o, row)

\* A place is stored or removed, the sequence of an epoch has no gaps.
StoreInv ==
  /\ {PlaceOf(r) : r \in records} \cup {PlaceOf(t) : t \in tombstones} = accepted
  /\ \A t \in tombstones : /\ \A r \in records : PlaceOf(r) # PlaceOf(t)
                           /\ \A u \in tombstones : PlaceOf(u) = PlaceOf(t) => u = t
  /\ \A a \in accepted : a.seq < transcripts[a.epoch].next
  /\ \A e \in Epoch : \A n \in 1 .. (transcripts[e].next - 1) :
       \E a \in accepted : a.epoch = e /\ a.seq = n
  /\ IdentifierNeverReused

TombstoneInv ==
  \A t \in tombstones : \E row \in operations[t.op] :
    Removed(row) /\ row.intent.epoch = t.epoch

CallInv ==
  \A c \in Caller : \A call \in calls[c] :
    /\ call.kind = "record" => call.seen.state = "backups_pending"
    /\ call.kind = "complete" =>
         Classify(call.custody) = "completable" /\ \A r \in call.custody : r.time <= call.at

\* A replay of a fenced transcript knows where the removed records begin.
ReadInv ==
  \A r \in Reader : \A q \in reads[r] :
    /\ q.pc = "select" /\ q.lifecycle # "active" =>
         /\ q.cutoff # {}
         /\ \E t \in tombstones : t.epoch = q.epoch
         /\ \A t \in tombstones : t.epoch = q.epoch => t.seq \in q.cutoff
    /\ q.pc # "done" => q.rows = {}

LifecycleTypeOK ==
  /\ transcripts \in [Epoch -> [lifecycle: {"active", "redacted", "deleted"}, next: Nat]]
  /\ records \in SUBSET Record
  /\ accepted \in SUBSET Place
  /\ operations \in [Operation -> SUBSET Row]
  /\ tombstones \in SUBSET [epoch: Epoch, seq: Nat, event: Event, op: Operation]
  /\ receipts \in [Operation -> SUBSET Custody]
  /\ completions \in [Operation -> SUBSET CompletedAt]
  /\ calls \in [Caller -> SUBSET Call]
  /\ reads \in [Reader -> SUBSET Reading]

LifecycleInv ==
  /\ LifecycleTypeOK /\ SagaInv /\ StoreInv /\ TombstoneInv /\ CallInv /\ ReadInv
  /\ FencedReplayIsPrefix

(***************************************************************************)
(* Facts about the operators                                               *)
(***************************************************************************)
LEMMA Ranks ==
  /\ Rank("reserved") = 1 /\ Rank("export_satisfied") = 2 /\ Rank("marker_persisted") = 3
  /\ Rank("receipt_signed") = 4 /\ Rank("payload_removed") = 5
  /\ Rank("backups_pending") = 6 /\ Rank("completed") = 7
<1>1. DOMAIN State = 1 .. 7
  BY DEF State
<1>2. /\ State[1] = "reserved" /\ State[2] = "export_satisfied" /\ State[3] = "marker_persisted"
      /\ State[4] = "receipt_signed" /\ State[5] = "payload_removed"
      /\ State[6] = "backups_pending" /\ State[7] = "completed"
  BY Zenon DEF State
<1>3. \A n \in 1 .. 7 : n \in {1, 2, 3, 4, 5, 6, 7}
  OBVIOUS
<1>4. \A m, n \in 1 .. 7 : State[m] = State[n] => m = n
  BY <1>2, <1>3, Zenon
<1>5. \A n \in 1 .. 7 : Rank(State[n]) = n
  BY <1>1, <1>4, Zenon DEF Rank
<1>. QED
  BY <1>2, <1>5

LEMMA StatesAre ==
  States = {"reserved", "export_satisfied", "marker_persisted", "receipt_signed",
            "payload_removed", "backups_pending", "completed"}
<1>1. DOMAIN State = 1 .. 7
  BY DEF State
<1>. QED
  BY <1>1 DEF States, State

LEMMA RemovedByRank ==
  ASSUME NEW row \in Row
  PROVE  Rank(row.state) >= Rank("payload_removed") <=> Removed(row)
<1>1. row.state \in States
  BY Zenon DEF Row
<1>. QED
  BY <1>1, StatesAre, Ranks DEF Removed

LEMMA Completables ==
  ASSUME NEW S
  PROVE  Classify(S) = "completable" <=> ~Incident(S) /\ {r.domain : r \in S} = Domain
  BY Zenon DEF Classify

(***************************************************************************)
(* What the steps leave alone                                              *)
(***************************************************************************)
\* The transcript of epoch e stays as it is.
LEMMA RowStays ==
  ASSUME NEW o, NEW row, RowInv(o, row),
         transcripts'[row.intent.epoch].lifecycle = transcripts[row.intent.epoch].lifecycle,
         receipts'[o] = receipts[o], completions'[o] = completions[o]
  PROVE  RowInv(o, row)'
  BY Zenon DEF RowInv

LEMMA ClearedStays ==
  ASSUME NEW o, NEW row, Cleared(o, row), tombstones' = tombstones, accepted' = accepted
  PROVE  Cleared(o, row)'
  BY Zenon DEF Cleared

\* Operation o gets the row new, and the others keep theirs.
Puts(o, row, new) ==
  /\ operations' = [operations EXCEPT ![o] = {new}]
  /\ new \in Row /\ new.intent = row.intent
  /\ Removed(row) => Removed(new)

\* The rows of the other operations keep what holds of them.
OthersKeep(o) ==
  \A p \in Operation : \A x \in operations[p] :
    p # o => RowInv(p, x)' /\ (Removed(x) => Cleared(p, x)')

LEMMA PutKeeps ==
  ASSUME LifecycleTypeOK, SagaInv, NEW o \in Operation, NEW row \in operations[o], NEW new,
         Puts(o, row, new), OthersKeep(o), RowInv(o, new)', Removed(new) => Cleared(o, new)'
  PROVE  operations' \in [Operation -> SUBSET Row] /\ SagaInv'
<1>1. /\ operations \in [Operation -> SUBSET Row] /\ new \in Row /\ new.intent = row.intent
      /\ operations' = [operations EXCEPT ![o] = {new}]
  BY Zenon DEF LifecycleTypeOK, Puts
<1>2. operations' \in [Operation -> SUBSET Row]
  BY <1>1, Zenon
<1>3. \A p \in Operation : operations'[p] = IF p = o THEN {new} ELSE operations[p]
  BY <1>1, Zenon
<1>4. ASSUME NEW p \in Operation, NEW x \in operations'[p]
      PROVE  /\ \A y \in operations'[p] : y = x
             /\ \A r \in Operation : \A y \in operations'[r] :
                  y.intent.epoch = x.intent.epoch => r = p
  <2>1. PICK w \in operations[p] : w.intent = x.intent
    BY <1>1, <1>3, <1>4, Zenon
  <2>2. \A r \in Operation : \A y \in operations'[r] :
          \E z \in operations[r] : z.intent = y.intent
    BY <1>1, <1>3, Zenon
  <2>3. \A r \in Operation : \A y \in operations'[r] : y.intent.epoch = x.intent.epoch => r = p
    BY <2>1, <2>2 DEF SagaInv
  <2>4. \A y \in operations'[p] : y = x
    BY <1>3, <1>4 DEF SagaInv
  <2>. QED
    BY <2>3, <2>4, Zenon
<1>5. ASSUME NEW p \in Operation, NEW x \in operations'[p]
      PROVE  RowInv(p, x)' /\ (Removed(x) => Cleared(p, x)')
  <2>1. CASE p = o
    BY <1>3, <1>5, <2>1, Zenon
  <2>2. CASE p # o
    BY <1>3, <1>5, <2>2, Zenon DEF OthersKeep
  <2>. QED
    BY <2>1, <2>2, Zenon
<1>. QED
  BY <1>2, <1>4, <1>5, Zenon DEF SagaInv

\* Others keep what holds of them when only their own rows' state is at stake.
LEMMA OthersStay ==
  ASSUME LifecycleTypeOK, SagaInv, NEW o \in Operation, NEW row \in operations[o],
         \A e \in Epoch : e # row.intent.epoch =>
           transcripts'[e].lifecycle = transcripts[e].lifecycle,
         \A p \in Operation : p # o => receipts'[p] = receipts[p] /\ completions'[p] = completions[p],
         tombstones' = tombstones, accepted' = accepted
  PROVE  OthersKeep(o)
<1>. SUFFICES ASSUME NEW p \in Operation, NEW x \in operations[p], p # o
              PROVE  RowInv(p, x)' /\ (Removed(x) => Cleared(p, x)')
  BY Zenon DEF OthersKeep
<1>1. RowInv(p, x) /\ (Removed(x) => Cleared(p, x)) /\ x.intent.epoch # row.intent.epoch
  BY Zenon DEF SagaInv
<1>2. x.intent.epoch \in Epoch
  BY LifecycleAssumption DEF LifecycleTypeOK, Row
<1>. QED
  BY <1>1, <1>2, RowStays, ClearedStays, Zenon

\* The rows stay, and with them what holds of them.
LEMMA SagaStays ==
  ASSUME LifecycleTypeOK, SagaInv, operations' = operations,
         \A o \in Operation : \A row \in operations[o] :
           RowInv(o, row)' /\ (Removed(row) => Cleared(o, row)')
  PROVE  SagaInv'
  BY DEF SagaInv

\* The store is as it was.
LEMMA StoreStays ==
  ASSUME LifecycleTypeOK, StoreInv, UNCHANGED <<records, accepted, tombstones>>,
         \A e \in Epoch : transcripts'[e].next = transcripts[e].next
  PROVE  StoreInv'
<1>1. \A a \in accepted : a.epoch \in Epoch
  BY Zenon DEF LifecycleTypeOK, Place
<1>. QED
  BY <1>1 DEF StoreInv, IdentifierNeverReused

LEMMA TombstonesStay ==
  ASSUME LifecycleTypeOK, TombstoneInv, tombstones' = tombstones, NEW o \in Operation,
         NEW row \in operations[o], SagaInv, NEW new, Puts(o, row, new)
  PROVE  TombstoneInv'
<1>. SUFFICES ASSUME NEW t \in tombstones
              PROVE  \E x \in operations'[t.op] : Removed(x) /\ x.intent.epoch = t.epoch
  BY Zenon DEF TombstoneInv
<1>1. PICK x \in operations[t.op] : Removed(x) /\ x.intent.epoch = t.epoch
  BY Zenon DEF TombstoneInv
<1>2. t.op \in Operation
  BY Zenon DEF LifecycleTypeOK
<1>3. CASE t.op = o
  <2>1. x = row
    BY <1>1, <1>3, Zenon DEF SagaInv
  <2>. QED
    BY <1>1, <1>2, <1>3, <2>1, Zenon DEF Puts, LifecycleTypeOK
<1>4. CASE t.op # o
  BY <1>1, <1>2, <1>4, Zenon DEF Puts, LifecycleTypeOK
<1>. QED
  BY <1>3, <1>4, Zenon

LEMMA ReadsStay ==
  ASSUME ReadInv, FencedReplayIsPrefix, UNCHANGED <<reads, tombstones>>
  PROVE  ReadInv' /\ FencedReplayIsPrefix'
  BY Zenon DEF ReadInv, FencedReplayIsPrefix

LEMMA CallsStay ==
  ASSUME CallInv, UNCHANGED calls
  PROVE  CallInv'
  BY Zenon DEF CallInv

(***************************************************************************)
(* Steps that move one operation and leave the records alone               *)
(***************************************************************************)
\* All that a step of operation o, with the epoch e, may touch besides its row.
OwnOnly(o, e) ==
  /\ transcripts' \in [Epoch -> [lifecycle: {"active", "redacted", "deleted"}, next: Nat]]
  /\ \A d \in Epoch : /\ transcripts'[d].next = transcripts[d].next
                      /\ d # e => transcripts'[d].lifecycle = transcripts[d].lifecycle
  /\ receipts' \in [Operation -> SUBSET Custody]
  /\ completions' \in [Operation -> SUBSET CompletedAt]
  /\ \A p \in Operation : p # o => receipts'[p] = receipts[p] /\ completions'[p] = completions[p]
  /\ UNCHANGED <<records, accepted, tombstones, reads>>
  /\ calls' \in [Caller -> SUBSET Call] /\ CallInv'

LEMMA OperationMoves ==
  ASSUME LifecycleInv, NEW o \in Operation, NEW row \in operations[o], NEW new,
         Puts(o, row, new), OwnOnly(o, row.intent.epoch),
         RowInv(o, new)', Removed(new) => Removed(row)
  PROVE  LifecycleInv'
<1>. /\ LifecycleTypeOK /\ SagaInv /\ StoreInv /\ TombstoneInv /\ ReadInv
     /\ FencedReplayIsPrefix
  BY Zenon DEF LifecycleInv
<1>1. OthersKeep(o)
  BY OthersStay, Zenon DEF OwnOnly
<1>2. Removed(new) => Cleared(o, new)'
  <2>1. Removed(new) => Cleared(o, row)'
    BY ClearedStays, Zenon DEF SagaInv, OwnOnly
  <2>. QED
    BY <2>1, Zenon DEF Cleared, Puts
<1>3. operations' \in [Operation -> SUBSET Row] /\ SagaInv'
  BY <1>1, <1>2, PutKeeps, Zenon
<1>4. LifecycleTypeOK' /\ CallInv'
  BY <1>3, Zenon DEF LifecycleTypeOK, OwnOnly
<1>5. StoreInv' /\ TombstoneInv' /\ ReadInv' /\ FencedReplayIsPrefix'
  BY StoreStays, TombstonesStay, ReadsStay, Zenon DEF OwnOnly
<1>. QED
  BY <1>3, <1>4, <1>5, Zenon DEF LifecycleInv

\* A call that ends without an effect, or only begins.
LEMMA CallsMove ==
  ASSUME LifecycleInv, UNCHANGED <<store, operations, tombstones, receipts, completions, reads>>,
         calls' \in [Caller -> SUBSET Call], CallInv'
  PROVE  LifecycleInv'
<1>. /\ LifecycleTypeOK /\ SagaInv /\ StoreInv /\ TombstoneInv /\ ReadInv
     /\ FencedReplayIsPrefix
     /\ UNCHANGED <<transcripts, records, accepted>>
  BY Zenon DEF LifecycleInv, store
<1>1. LifecycleTypeOK'
  BY Zenon DEF LifecycleTypeOK
<1>2. SagaInv'
  BY SagaStays, RowStays, ClearedStays, Zenon DEF SagaInv
<1>3. StoreInv' /\ ReadInv' /\ FencedReplayIsPrefix'
  BY StoreStays, ReadsStay, Zenon
<1>4. TombstoneInv'
  BY Zenon DEF TombstoneInv
<1>. QED
  BY <1>1, <1>2, <1>3, <1>4, Zenon DEF LifecycleInv

LEMMA ReturnKeeps ==
  ASSUME LifecycleInv, NEW c \in Caller, Return(c)
  PROVE  calls' \in [Caller -> SUBSET Call] /\ CallInv' /\ reads' = reads
<1>1. calls' = [calls EXCEPT ![c] = {}] /\ calls \in [Caller -> SUBSET Call]
  BY Zenon DEF Return, LifecycleInv, LifecycleTypeOK
<1>2. \A d \in Caller : calls'[d] = IF d = c THEN {} ELSE calls[d]
  BY <1>1, Zenon
<1>. QED
  BY <1>1, <1>2, Zenon DEF LifecycleInv, CallInv, Return

LEMMA StartKeeps ==
  ASSUME LifecycleInv, NEW c \in Caller, NEW call \in Call, Start(c, call),
         call.kind = "record" => call.seen.state = "backups_pending",
         call.kind = "complete" =>
           Classify(call.custody) = "completable" /\ \A r \in call.custody : r.time <= call.at
  PROVE  LifecycleInv'
<1>1. calls' = [calls EXCEPT ![c] = {call}] /\ calls \in [Caller -> SUBSET Call]
  BY Zenon DEF Start, LifecycleInv, LifecycleTypeOK
<1>2. \A d \in Caller : calls'[d] = IF d = c THEN {call} ELSE calls[d]
  BY <1>1, Zenon
<1>3. CallInv' /\ calls' \in [Caller -> SUBSET Call]
  BY <1>1, <1>2, Zenon DEF LifecycleInv, CallInv
<1>. QED
  BY <1>3, CallsMove, Zenon DEF Start, store, saga

LEMMA PreflightKeeps ==
  ASSUME LifecycleInv, NEW c \in Caller, NEW o \in Operation, NEW row \in operations[o],
         Preflight(c, o, row)
  PROVE  LifecycleInv'
<1>1. row \in Row /\ receipts[o] \in SUBSET Custody
  BY Zenon DEF LifecycleInv, LifecycleTypeOK
<1>2. ASSUME NEW p \in Preimage, PreflightAttach(c, o, row, p)  PROVE LifecycleInv'
  <2>1. PICK call : call = [kind |-> "attach", op |-> o, seen |-> row, preimage |-> p]
    BY Zenon
  <2>2. call \in Call /\ call.kind = "attach"
    BY <1>1, <2>1, Zenon DEF Call
  <2>. QED
    BY <1>2, <2>1, <2>2, StartKeeps, Zenon DEF PreflightAttach
<1>3. ASSUME PreflightRemove(c, o, row)  PROVE LifecycleInv'
  <2>1. PICK call : call = [kind |-> "remove", op |-> o, seen |-> row]
    BY Zenon
  <2>2. call \in Call /\ call.kind = "remove"
    BY <1>1, <2>1, Zenon DEF Call
  <2>. QED
    BY <1>3, <2>1, <2>2, StartKeeps, Zenon DEF PreflightRemove
<1>4. ASSUME NEW set \in ObligationSet, PreflightBind(c, o, row, set)  PROVE LifecycleInv'
  <2>1. PICK call : call = [kind |-> "bind", op |-> o, seen |-> row, set |-> set]
    BY Zenon
  <2>2. call \in Call /\ call.kind = "bind"
    BY <1>1, <2>1, Zenon DEF Call
  <2>. QED
    BY <1>4, <2>1, <2>2, StartKeeps, Zenon DEF PreflightBind
<1>5. ASSUME NEW receipt \in Custody, PreflightRecord(c, o, row, receipt)  PROVE LifecycleInv'
  <2>1. PICK call : call = [kind |-> "record", op |-> o, seen |-> row, receipt |-> receipt]
    BY Zenon
  <2>2. call \in Call /\ call.kind = "record" /\ call.seen = row
    BY <1>1, <2>1, Zenon DEF Call
  <2>. QED
    BY <1>5, <2>1, <2>2, StartKeeps, Zenon DEF PreflightRecord
<1>6. ASSUME NEW at \in CompletedAt, PreflightComplete(c, o, row, at)  PROVE LifecycleInv'
  <2>1. PICK call : call = [kind |-> "complete", op |-> o, seen |-> row,
                            custody |-> receipts[o], at |-> at]
    BY Zenon
  <2>2. call \in Call /\ call.kind = "complete" /\ call.custody = receipts[o] /\ call.at = at
    BY <1>1, <2>1, Zenon DEF Call
  <2>. QED
    BY <1>6, <2>1, <2>2, StartKeeps, Zenon DEF PreflightComplete
<1>. QED
  BY <1>2, <1>3, <1>4, <1>5, <1>6, Zenon DEF Preflight

\* What is known of the row of an operation.
LEMMA RowFacts ==
  ASSUME LifecycleInv, NEW o \in Operation, NEW row \in operations[o]
  PROVE  /\ row \in Row /\ row.intent \in Intent /\ row.intent.epoch \in Epoch
         /\ RowInv(o, row) /\ (Removed(row) => Cleared(o, row))
  BY LifecycleAssumption DEF LifecycleInv, LifecycleTypeOK, SagaInv, Row

LEMMA BindExportKeeps ==
  ASSUME LifecycleInv, NEW o \in Operation, NEW row \in operations[o], NEW x \in Export,
         BindExport(o, row, x)
  PROVE  LifecycleInv'
<1>1. /\ row \in Row /\ RowInv(o, row) /\ row.state = "reserved"
      /\ UNCHANGED <<transcripts, records, accepted, tombstones, receipts, completions, calls, reads>>
  BY RowFacts, Zenon DEF BindExport, store
<1>2. PICK new : new = [row EXCEPT !.export = {x}, !.state = "export_satisfied"]
  BY Zenon
<1>3. new = [intent |-> row.intent, state |-> "export_satisfied", export |-> {x},
             preimage |-> row.preimage, signature |-> row.signature]
  BY <1>1, <1>2, Zenon DEF Row
<1>4. /\ new \in Row /\ new.intent = row.intent /\ new.state = "export_satisfied"
      /\ new.export # {} /\ new.preimage = row.preimage /\ new.signature = row.signature
  BY <1>1, <1>3, StatesAre, Zenon DEF Row
<1>5. Puts(o, row, new) /\ ~Removed(new)
  BY <1>1, <1>2, <1>4, Zenon DEF Puts, Put, BindExport, Removed
<1>6. OwnOnly(o, row.intent.epoch)
  BY <1>1, CallsStay, Zenon DEF OwnOnly, LifecycleInv, LifecycleTypeOK
<1>7. RowInv(o, new)'
  BY <1>1, <1>4, Zenon DEF RowInv, Early, Removed
<1>. QED
  BY <1>5, <1>6, <1>7, OperationMoves, Zenon

LEMMA PersistMarkerKeeps ==
  ASSUME LifecycleInv, NEW o \in Operation, NEW row \in operations[o], NEW p \in Preimage,
         NEW previous, PersistMarker(o, row, p, previous)
  PROVE  LifecycleInv'
<1>1. /\ row \in Row /\ RowInv(o, row) /\ row.state = "export_satisfied"
      /\ row.intent.epoch \in Epoch
      /\ UNCHANGED <<records, accepted, tombstones, receipts, completions, calls, reads>>
  BY RowFacts, Zenon DEF PersistMarker
<1>2. PICK new : new = [row EXCEPT !.preimage = {p}, !.state = "marker_persisted"]
  BY Zenon
<1>3. new = [intent |-> row.intent, state |-> "marker_persisted", export |-> row.export,
             preimage |-> {p}, signature |-> row.signature]
  BY <1>1, <1>2, Zenon DEF Row
<1>4. /\ new \in Row /\ new.intent = row.intent /\ new.state = "marker_persisted"
      /\ new.export = row.export /\ new.preimage = {p} /\ new.signature = row.signature
  BY <1>1, <1>3, StatesAre, Zenon DEF Row
<1>5. Puts(o, row, new) /\ ~Removed(new)
  BY <1>1, <1>2, <1>4, Zenon DEF Puts, Put, PersistMarker, Removed
<1>6. PICK life : life = Resulting(row.intent.action)
  BY Zenon
<1>7. life \in {"redacted", "deleted"}
  BY <1>6, Zenon DEF Resulting
<1>8. /\ transcripts \in [Epoch -> [lifecycle: {"active", "redacted", "deleted"}, next: Nat]]
      /\ transcripts' = [transcripts EXCEPT ![row.intent.epoch].lifecycle = life]
  BY <1>6, Zenon DEF PersistMarker, LifecycleInv, LifecycleTypeOK
<1>9. /\ transcripts' \in [Epoch -> [lifecycle: {"active", "redacted", "deleted"}, next: Nat]]
      /\ transcripts'[row.intent.epoch].lifecycle = life
      /\ \A d \in Epoch : /\ transcripts'[d].next = transcripts[d].next
                          /\ d # row.intent.epoch =>
                               transcripts'[d].lifecycle = transcripts[d].lifecycle
  BY <1>1, <1>7, <1>8, Zenon
<1>10. OwnOnly(o, row.intent.epoch)
  BY <1>1, <1>9, CallsStay, Zenon DEF OwnOnly, LifecycleInv, LifecycleTypeOK
<1>11. RowInv(o, new)'
  BY <1>1, <1>4, <1>7, <1>9, Zenon DEF RowInv, Early, Removed
<1>. QED
  BY <1>5, <1>10, <1>11, OperationMoves, Zenon

LEMMA AttachSignatureKeeps ==
  ASSUME LifecycleInv, NEW c \in Caller, NEW call, call.op \in Operation,
         NEW row \in operations[call.op], AttachSignature(c, call, row)
  PROVE  LifecycleInv'
<1>1. /\ UNCHANGED <<transcripts, records, accepted, tombstones, receipts, completions, reads>>
      /\ calls' \in [Caller -> SUBSET Call] /\ CallInv'
  BY ReturnKeeps, Zenon DEF AttachSignature, store
<1>2. CASE ~Attachable(call, row)
  BY <1>1, <1>2, CallsMove, Zenon DEF AttachSignature, store
<1>3. ASSUME Attachable(call, row)  PROVE LifecycleInv'
  <2>1. /\ row \in Row /\ RowInv(call.op, row) /\ row.state = "marker_persisted"
        /\ row.preimage = {call.preimage}
    BY <1>3, RowFacts, Zenon DEF Attachable
  <2>2. PICK new : new = [row EXCEPT !.signature = {call.preimage}, !.state = "receipt_signed"]
    BY Zenon
  <2>3. new = [intent |-> row.intent, state |-> "receipt_signed", export |-> row.export,
               preimage |-> row.preimage, signature |-> {call.preimage}]
    BY <2>1, <2>2, Zenon DEF Row
  <2>4. /\ new \in Row /\ new.intent = row.intent /\ new.state = "receipt_signed"
        /\ new.export = row.export /\ new.preimage = row.preimage /\ new.signature = row.preimage
    BY <2>1, <2>3, StatesAre, Zenon DEF Row
  <2>5. Puts(call.op, row, new) /\ ~Removed(new)
    BY <1>3, <2>1, <2>2, <2>4, Zenon DEF Puts, Put, AttachSignature, Removed
  <2>6. OwnOnly(call.op, row.intent.epoch)
    BY <1>1, Zenon DEF OwnOnly, LifecycleInv, LifecycleTypeOK
  <2>7. RowInv(call.op, new)'
    BY <1>1, <2>1, <2>4, Zenon DEF RowInv, Early, Removed
  <2>. QED
    BY <2>5, <2>6, <2>7, OperationMoves, Zenon
<1>. QED
  BY <1>2, <1>3, Zenon

LEMMA BindBackupKeeps ==
  ASSUME LifecycleInv, NEW c \in Caller, NEW call, call.op \in Operation,
         NEW row \in operations[call.op], BindBackupObligations(c, call, row)
  PROVE  LifecycleInv'
<1>1. /\ UNCHANGED <<transcripts, records, accepted, tombstones, receipts, completions, reads>>
      /\ calls' \in [Caller -> SUBSET Call] /\ CallInv'
  BY ReturnKeeps, Zenon DEF BindBackupObligations, store
<1>2. CASE operations' = operations
  BY <1>1, <1>2, CallsMove, Zenon DEF store
<1>3. ASSUME row.state = "payload_removed", Put(call.op, [row EXCEPT !.state = "backups_pending"])
      PROVE  LifecycleInv'
  <2>1. row \in Row /\ RowInv(call.op, row)
    BY RowFacts, Zenon
  <2>2. PICK new : new = [row EXCEPT !.state = "backups_pending"]
    BY Zenon
  <2>3. new = [intent |-> row.intent, state |-> "backups_pending", export |-> row.export,
               preimage |-> row.preimage, signature |-> row.signature]
    BY <2>1, <2>2, Zenon DEF Row
  <2>4. /\ new \in Row /\ new.intent = row.intent /\ new.state = "backups_pending"
        /\ new.export = row.export /\ new.preimage = row.preimage /\ new.signature = row.signature
    BY <2>1, <2>3, StatesAre, Zenon DEF Row
  <2>5. Puts(call.op, row, new) /\ Removed(row)
    BY <1>3, <2>1, <2>2, <2>4, Zenon DEF Puts, Put, Removed
  <2>6. OwnOnly(call.op, row.intent.epoch)
    BY <1>1, Zenon DEF OwnOnly, LifecycleInv, LifecycleTypeOK
  <2>7. RowInv(call.op, new)'
    BY <1>1, <1>3, <2>1, <2>4, Zenon DEF RowInv, Early, Removed
  <2>. QED
    BY <2>5, <2>6, <2>7, OperationMoves, Zenon
<1>. QED
  BY <1>2, <1>3, Zenon DEF BindBackupObligations

LEMMA CompleteKeeps ==
  ASSUME LifecycleInv, NEW c \in Caller, NEW call \in calls[c], call.op \in Operation,
         NEW row \in operations[call.op], Complete(c, call, row)
  PROVE  LifecycleInv'
<1>1. /\ UNCHANGED <<transcripts, records, accepted, tombstones, receipts, reads>>
      /\ calls' \in [Caller -> SUBSET Call] /\ CallInv'
  BY ReturnKeeps, Zenon DEF Complete, store
<1>2. CASE UNCHANGED <<completions, operations>>
  BY <1>1, <1>2, CallsMove, Zenon DEF store
<1>3. ASSUME Completable(call, row), completions' = [completions EXCEPT ![call.op] = {call.at}],
             Put(call.op, [row EXCEPT !.state = "completed"])
      PROVE  LifecycleInv'
  <2>1. row \in Row /\ RowInv(call.op, row) /\ row.state = "backups_pending"
    BY <1>3, RowFacts, Zenon DEF Completable
  <2>2. PICK new : new = [row EXCEPT !.state = "completed"]
    BY Zenon
  <2>3. new = [intent |-> row.intent, state |-> "completed", export |-> row.export,
               preimage |-> row.preimage, signature |-> row.signature]
    BY <2>1, <2>2, Zenon DEF Row
  <2>4. /\ new \in Row /\ new.intent = row.intent /\ new.state = "completed"
        /\ new.export = row.export /\ new.preimage = row.preimage /\ new.signature = row.signature
    BY <2>1, <2>3, StatesAre, Zenon DEF Row
  <2>5. Puts(call.op, row, new) /\ Removed(row)
    BY <1>3, <2>1, <2>2, <2>4, Zenon DEF Puts, Put, Removed
  <2>6. /\ call \in Call /\ call.kind = "complete"
        /\ Classify(call.custody) = "completable" /\ \A r \in call.custody : r.time <= call.at
    BY Zenon DEF Complete, LifecycleInv, LifecycleTypeOK, CallInv
  <2>7. call.at \in CompletedAt
    BY <2>6, Zenon DEF Call
  <2>8. /\ completions' \in [Operation -> SUBSET CompletedAt] /\ completions'[call.op] = {call.at}
        /\ \A p \in Operation : p # call.op => completions'[p] = completions[p]
    BY <1>3, <2>7, Zenon DEF LifecycleInv, LifecycleTypeOK
  <2>9. OwnOnly(call.op, row.intent.epoch)
    BY <1>1, <2>8, Zenon DEF OwnOnly, LifecycleInv, LifecycleTypeOK
  <2>10. /\ Classify(receipts'[call.op]) = "completable"
         /\ \A r \in receipts'[call.op], at \in completions'[call.op] : r.time <= at
    BY <1>1, <1>3, <2>6, <2>8 DEF Completable
  <2>11. RowInv(call.op, new)'
    BY <1>1, <2>1, <2>4, <2>10, Zenon DEF RowInv, Early, Removed
  <2>. QED
    BY <2>5, <2>9, <2>11, OperationMoves, Zenon
<1>. QED
  BY <1>2, <1>3, Zenon DEF Complete

\* A receipt arrives only while the operation waits for its custodians.
LEMMA RecordReceiptKeeps ==
  ASSUME LifecycleInv, NEW c \in Caller, NEW call \in calls[c], call.op \in Operation,
         NEW row \in operations[call.op], RecordBackupReceipt(c, call, row)
  PROVE  LifecycleInv'
<1>1. /\ UNCHANGED <<transcripts, records, accepted, tombstones, operations, completions, reads>>
      /\ calls' \in [Caller -> SUBSET Call] /\ CallInv'
  BY ReturnKeeps, Zenon DEF RecordBackupReceipt, store
<1>2. CASE receipts' = receipts
  BY <1>1, <1>2, CallsMove, Zenon DEF store
<1>3. ASSUME Recordable(call, row),
             receipts' = [receipts EXCEPT ![call.op] = @ \cup {call.receipt}]
      PROVE  LifecycleInv'
  <2>. /\ LifecycleTypeOK /\ SagaInv /\ StoreInv /\ TombstoneInv /\ ReadInv
       /\ FencedReplayIsPrefix
    BY Zenon DEF LifecycleInv
  <2>1. call \in Call /\ call.kind = "record" /\ call.seen.state = "backups_pending"
    BY Zenon DEF RecordBackupReceipt, LifecycleInv, LifecycleTypeOK, CallInv
  <2>2. call.receipt \in Custody /\ row.state = "backups_pending"
    BY <1>3, <2>1, Zenon DEF Call, Recordable, SameSnapshot
  <2>3. /\ receipts' \in [Operation -> SUBSET Custody]
        /\ \A p \in Operation : p # call.op => receipts'[p] = receipts[p]
    BY <1>3, <2>2, Zenon DEF LifecycleTypeOK
  <2>4. ASSUME NEW o \in Operation, NEW x \in operations[o]
        PROVE  RowInv(o, x)' /\ (Removed(x) => Cleared(o, x)')
    <3>1. RowInv(o, x) /\ (Removed(x) => Cleared(o, x))
      BY RowFacts, Zenon
    <3>2. Removed(x) => Cleared(o, x)'
      BY <1>1, <3>1, ClearedStays, Zenon
    <3>3. CASE o # call.op
      BY <1>1, <2>3, <3>1, <3>2, <3>3, RowStays, Zenon
    <3>4. CASE o = call.op
      <4>1. x.state = "backups_pending"
        BY <2>2, <3>4, Zenon DEF SagaInv
      <4>. QED
        BY <1>1, <3>1, <3>2, <4>1, Zenon DEF RowInv
    <3>. QED
      BY <3>3, <3>4, Zenon
  <2>5. SagaInv'
    BY <1>1, <2>4, SagaStays, Zenon
  <2>6. LifecycleTypeOK'
    BY <1>1, <2>3, Zenon DEF LifecycleTypeOK
  <2>7. StoreInv' /\ ReadInv' /\ FencedReplayIsPrefix' /\ TombstoneInv'
    BY <1>1, StoreStays, ReadsStay, Zenon DEF TombstoneInv
  <2>. QED
    BY <1>1, <2>5, <2>6, <2>7, Zenon DEF LifecycleInv
<1>. QED
  BY <1>2, <1>3, Zenon DEF RecordBackupReceipt

(***************************************************************************)
(* Removal                                                                 *)
(***************************************************************************)
LEMMA PlaceFields ==
  ASSUME NEW r
  PROVE  PlaceOf(r).epoch = r.epoch /\ PlaceOf(r).seq = r.seq /\ PlaceOf(r).event = r.event
  BY Zenon DEF PlaceOf

LEMMA SamePlace ==
  ASSUME NEW r, NEW s
  PROVE  PlaceOf(r) = PlaceOf(s) <=> r.epoch = s.epoch /\ r.seq = s.seq /\ r.event = s.event
<1>1. r.epoch = s.epoch /\ r.seq = s.seq /\ r.event = s.event => PlaceOf(r) = PlaceOf(s)
  BY Zenon DEF PlaceOf
<1>. QED
  BY <1>1, PlaceFields, Zenon

LEMMA TombstoneFields ==
  ASSUME NEW o \in Operation, NEW r \in Record
  PROVE  /\ Tombstone(o, r) \in [epoch: Epoch, seq: Nat, event: Event, op: Operation]
         /\ Tombstone(o, r).epoch = r.epoch /\ Tombstone(o, r).seq = r.seq
         /\ Tombstone(o, r).event = r.event /\ Tombstone(o, r).op = o
         /\ PlaceOf(Tombstone(o, r)) = PlaceOf(r)
<1>1. /\ Tombstone(o, r) \in [epoch: Epoch, seq: Nat, event: Event, op: Operation]
      /\ Tombstone(o, r).epoch = r.epoch /\ Tombstone(o, r).seq = r.seq
      /\ Tombstone(o, r).event = r.event /\ Tombstone(o, r).op = o
  BY Zenon DEF Tombstone, Record
<1>. QED
  BY <1>1, SamePlace, Zenon

\* The records S of epoch e become the tombstones N of operation o.
Moves(o, e, S, N) ==
  /\ S \in SUBSET records /\ records' = records \ S
  /\ tombstones' = tombstones \cup N
  /\ \A r \in records \ S, s \in S : r.epoch # s.epoch \/ r.seq # s.seq
  /\ \A s \in S : \E t \in N : PlaceOf(t) = PlaceOf(s) /\ t.seq = s.seq
  /\ \A t \in N : /\ t.op = o /\ t.epoch = e
                  /\ t \in [epoch: Epoch, seq: Nat, event: Event, op: Operation]
                  /\ \E s \in S : PlaceOf(t) = PlaceOf(s) /\ t.seq = s.seq
  /\ \A t, u \in N : PlaceOf(t) = PlaceOf(u) => t = u
  /\ \A t \in tombstones : t.op # o /\ t.epoch # e

LEMMA MovesKeepStore ==
  ASSUME LifecycleTypeOK, StoreInv, NEW o, NEW e, NEW S, NEW N, Moves(o, e, S, N),
         UNCHANGED <<transcripts, accepted>>
  PROVE  StoreInv'
<1>1. {PlaceOf(r) : r \in records'} \cup {PlaceOf(t) : t \in tombstones'} = accepted
  <2>1. ASSUME NEW a \in accepted
        PROVE  a \in {PlaceOf(r) : r \in records'} \cup {PlaceOf(t) : t \in tombstones'}
    <3>1. (\E r \in records : a = PlaceOf(r)) \/ (\E t \in tombstones : a = PlaceOf(t))
      BY Zenon DEF StoreInv
    <3>2. ASSUME NEW t \in tombstones, a = PlaceOf(t)  PROVE \E u \in tombstones' : a = PlaceOf(u)
      BY <3>2, Zenon DEF Moves
    <3>3. ASSUME NEW r \in S, a = PlaceOf(r)  PROVE \E u \in tombstones' : a = PlaceOf(u)
      BY <3>3, Zenon DEF Moves
    <3>4. ASSUME NEW r \in records, r \notin S, a = PlaceOf(r)
          PROVE  \E u \in records' : a = PlaceOf(u)
      BY <3>4, Zenon DEF Moves
    <3>5. (\E u \in records' : a = PlaceOf(u)) \/ (\E u \in tombstones' : a = PlaceOf(u))
      BY <3>1, <3>2, <3>3, <3>4, Zenon
    <3>. QED
      BY <3>5, Zenon
  <2>2. ASSUME NEW r \in records'  PROVE PlaceOf(r) \in accepted
    BY DEF Moves, StoreInv
  <2>3. ASSUME NEW t \in tombstones'  PROVE PlaceOf(t) \in accepted
    BY DEF Moves, StoreInv
  <2>. QED
    BY <2>1, <2>2, <2>3, Zenon
<1>2. ASSUME NEW t \in tombstones', NEW r \in records'  PROVE PlaceOf(r) # PlaceOf(t)
  <2>1. CASE t \in tombstones
    BY <2>1, Zenon DEF Moves, StoreInv
  <2>2. CASE t \in N
    <3>1. PICK s \in S : PlaceOf(t) = PlaceOf(s)
      BY <2>2, Zenon DEF Moves
    <3>2. r.epoch # s.epoch \/ r.seq # s.seq
      BY <1>2 DEF Moves
    <3>. QED
      BY <3>1, <3>2, SamePlace, Zenon
  <2>. QED
    BY <1>2, <2>1, <2>2, Zenon DEF Moves
<1>3. ASSUME NEW t \in tombstones', NEW u \in tombstones', PlaceOf(u) = PlaceOf(t)  PROVE u = t
  <2>1. ASSUME NEW v \in N, NEW w \in tombstones, PlaceOf(v) = PlaceOf(w)  PROVE FALSE
    <3>1. PICK s \in S : PlaceOf(v) = PlaceOf(s)
      BY <2>1, Zenon DEF Moves
    <3>2. s \in records
      BY Zenon DEF Moves
    <3>3. PlaceOf(s) # PlaceOf(w)
      BY <3>2, Zenon DEF StoreInv
    <3>. QED
      BY <2>1, <3>1, <3>3, Zenon
  <2>2. CASE t \in tombstones /\ u \in tombstones
    BY <1>3, <2>2, Zenon DEF StoreInv
  <2>3. CASE t \in N /\ u \in N
    BY <1>3, <2>3, Zenon DEF Moves
  <2>. QED
    BY <1>3, <2>1, <2>2, <2>3, Zenon DEF Moves
<1>4. IdentifierNeverReused'
  BY Zenon DEF StoreInv, IdentifierNeverReused
<1>. QED
  BY <1>1, <1>2, <1>3, <1>4 DEF StoreInv

LEMMA MovesKeepOthers ==
  ASSUME LifecycleInv, NEW o \in Operation, NEW e, NEW S, NEW N, Moves(o, e, S, N),
         UNCHANGED <<transcripts, accepted, receipts, completions>>
  PROVE  OthersKeep(o)
<1>. SUFFICES ASSUME NEW p \in Operation, NEW x \in operations[p], p # o
              PROVE  RowInv(p, x)' /\ (Removed(x) => Cleared(p, x)')
  BY Zenon DEF OthersKeep
<1>1. RowInv(p, x) /\ (Removed(x) => Cleared(p, x))
  BY RowFacts, Zenon
<1>2. \A t \in tombstones' : t.op = p => t \in tombstones
  BY Zenon DEF Moves
<1>3. \A t \in tombstones : t \in tombstones'
  BY Zenon DEF Moves
<1>4. {t \in tombstones' : t.op = p} = {t \in tombstones : t.op = p}
  BY <1>2, <1>3, Zenon
<1>5. Cleared(p, x) => Cleared(p, x)'
  <2>. SUFFICES ASSUME Cleared(p, x)  PROVE Cleared(p, x)'
    BY Zenon
  <2>1. \A t \in tombstones' : t.op = p => t.epoch = x.intent.epoch
    BY <1>2, Zenon DEF Cleared
  <2>2. x.intent.action = "redact" =>
          {t.seq : t \in {t \in tombstones' : t.op = p}} = x.intent.target
    BY <1>4, Zenon DEF Cleared
  <2>3. x.intent.action # "redact" =>
          \A a \in accepted : a.epoch = x.intent.epoch =>
            \E t \in tombstones' : t.op = p /\ PlaceOf(t) = a
    BY <1>3, Zenon DEF Cleared
  <2>. QED
    BY <2>1, <2>2, <2>3, Zenon DEF Cleared
<1>. QED
  BY <1>1, <1>5, RowStays, Zenon

LEMMA MovesKeepReads ==
  ASSUME ReadInv, FencedReplayIsPrefix, NEW o, NEW e, NEW S, NEW N, Moves(o, e, S, N),
         reads' = reads
  PROVE  ReadInv' /\ FencedReplayIsPrefix'
<1>1. FencedReplayIsPrefix'
  BY Zenon DEF FencedReplayIsPrefix
<1>2. ASSUME NEW r \in Reader, NEW q \in reads[r], q.pc = "select", q.lifecycle # "active"
      PROVE  /\ \E t \in tombstones' : t.epoch = q.epoch
             /\ \A t \in tombstones' : t.epoch = q.epoch => t.seq \in q.cutoff
  <2>1. PICK t \in tombstones : t.epoch = q.epoch
    BY <1>2, Zenon DEF ReadInv
  <2>2. q.epoch # e /\ t \in tombstones'
    BY <2>1, Zenon DEF Moves
  <2>3. \A u \in tombstones' : u.epoch = q.epoch => u \in tombstones
    BY <2>2, Zenon DEF Moves
  <2>. QED
    BY <1>2, <2>1, <2>2, <2>3, Zenon DEF ReadInv
<1>3. ReadInv'
  BY <1>2, Zenon DEF ReadInv
<1>. QED
  BY <1>1, <1>3, Zenon

LEMMA RemovePayloadKeeps ==
  ASSUME LifecycleInv, NEW c \in Caller, NEW call, call.op \in Operation,
         NEW row \in operations[call.op], RemovePayload(c, call, row)
  PROVE  LifecycleInv'
<1>1. /\ UNCHANGED <<transcripts, accepted, receipts, completions, reads>>
      /\ calls' \in [Caller -> SUBSET Call] /\ CallInv'
  BY ReturnKeeps, Zenon DEF RemovePayload
<1>2. CASE ~Removable(call, row)
  BY <1>1, <1>2, CallsMove, Zenon DEF RemovePayload, store
<1>3. ASSUME Removable(call, row)  PROVE LifecycleInv'
  <2>. /\ LifecycleTypeOK /\ SagaInv /\ StoreInv /\ TombstoneInv /\ ReadInv
       /\ FencedReplayIsPrefix
    BY Zenon DEF LifecycleInv
  <2>1. PICK o \in Operation : o = call.op
    BY Zenon
  <2>2. PICK i : i = row.intent
    BY Zenon
  <2>3. PICK S : S = Selected(i)
    BY Zenon
  <2>4. PICK N : N = {Tombstone(o, r) : r \in S}
    BY Zenon
  <2>5. /\ row \in Row /\ RowInv(o, row) /\ row.state = "receipt_signed" /\ i.epoch \in Epoch
        /\ i.target \subseteq {r.seq : r \in S}
    BY <1>3, <2>1, <2>2, <2>3, RowFacts, Zenon DEF Removable
  <2>6. /\ S \in SUBSET records /\ \A r \in S : r.epoch = i.epoch /\ r \in Record
        /\ \A r \in S : i.action = "redact" => r.seq \in i.target
        /\ \A r \in records : r.epoch = i.epoch /\ (i.action = "redact" => r.seq \in i.target) => r \in S
    BY <2>3, Zenon DEF Selected, LifecycleTypeOK
  <2>7. /\ records' = records \ S /\ tombstones' = tombstones \cup N
        /\ Put(o, [row EXCEPT !.state = "payload_removed"])
    BY <1>3, <2>1, <2>2, <2>3, <2>4, Zenon DEF RemovePayload
  <2>8. \A t \in tombstones : t.op # o /\ t.epoch # i.epoch
    <3>. TAKE t \in tombstones
    <3>1. PICK x \in operations[t.op] : Removed(x) /\ x.intent.epoch = t.epoch
      BY Zenon DEF TombstoneInv
    <3>2. t.op \in Operation
      BY Zenon DEF LifecycleTypeOK
    <3>3. ~Removed(row)
      BY <2>5, Zenon DEF Removed
    <3>. QED
      BY <2>1, <2>2, <3>1, <3>2, <3>3 DEF SagaInv
  <2>9. ASSUME NEW r \in S
        PROVE  /\ Tombstone(o, r) \in [epoch: Epoch, seq: Nat, event: Event, op: Operation]
               /\ Tombstone(o, r).epoch = i.epoch /\ Tombstone(o, r).op = o
               /\ Tombstone(o, r).seq = r.seq /\ PlaceOf(Tombstone(o, r)) = PlaceOf(r)
    BY <2>6, TombstoneFields
  <2>10. \A t \in N : \E r \in S : t = Tombstone(o, r)
    BY <2>4, Zenon
  <2>11. \A r \in S : Tombstone(o, r) \in N
    BY <2>4, Zenon
  <2>12. \A r, s \in S : PlaceOf(r) = PlaceOf(s) => Tombstone(o, r) = Tombstone(o, s)
    BY SamePlace, Zenon DEF Tombstone
  <2>13. Moves(o, i.epoch, S, N)
    <3>1. \A r \in records \ S, s \in S : r.epoch # s.epoch \/ r.seq # s.seq
      BY <2>6, Zenon
    <3>2. \A s \in S : \E t \in N : PlaceOf(t) = PlaceOf(s) /\ t.seq = s.seq
      BY <2>9, <2>11, Zenon
    <3>3. \A t \in N : /\ t.op = o /\ t.epoch = i.epoch
                       /\ t \in [epoch: Epoch, seq: Nat, event: Event, op: Operation]
                       /\ \E s \in S : PlaceOf(t) = PlaceOf(s) /\ t.seq = s.seq
      BY <2>9, <2>10, Zenon
    <3>4. \A t, u \in N : PlaceOf(t) = PlaceOf(u) => t = u
      BY <2>9, <2>10, <2>12
    <3>. QED
      BY <2>6, <2>7, <2>8, <3>1, <3>2, <3>3, <3>4, Zenon DEF Moves
  <2>14. PICK new : new = [row EXCEPT !.state = "payload_removed"]
    BY Zenon
  <2>15. new = [intent |-> row.intent, state |-> "payload_removed", export |-> row.export,
                preimage |-> row.preimage, signature |-> row.signature]
    BY <2>5, <2>14, Zenon DEF Row
  <2>16. /\ new \in Row /\ new.intent = row.intent /\ new.state = "payload_removed"
         /\ new.export = row.export /\ new.preimage = row.preimage /\ new.signature = row.signature
    BY <2>5, <2>15, StatesAre, Zenon DEF Row
  <2>17. Puts(o, row, new) /\ Removed(new) /\ new.intent = i
    BY <2>2, <2>5, <2>7, <2>14, <2>16, Zenon DEF Puts, Put, Removed
  <2>18. RowInv(o, new)'
    BY <1>1, <2>5, <2>16, Zenon DEF RowInv, Early, Removed
  <2>19. Cleared(o, new)'
    <3>1. \A t \in tombstones' : t.op = o <=> t \in N
      BY <2>8, <2>13, Zenon DEF Moves
    <3>2. \A t \in tombstones' : t.op = o => t.epoch = i.epoch
      BY <3>1, <2>13, Zenon DEF Moves
    <3>3. {t \in tombstones' : t.op = o} = N
      BY <2>7, <3>1, Zenon
    <3>4. i.action = "redact" => {t.seq : t \in N} = i.target
      <4>. SUFFICES ASSUME i.action = "redact"  PROVE {t.seq : t \in N} = i.target
        BY Zenon
      <4>1. ASSUME NEW t \in N  PROVE t.seq \in i.target
        BY <2>6, <2>9, <2>10, Zenon
      <4>2. ASSUME NEW n \in i.target  PROVE \E t \in N : t.seq = n
        <5>1. PICK r \in S : r.seq = n
          BY <2>5, Zenon
        <5>. QED
          BY <2>9, <2>11, <5>1, Zenon
      <4>. QED
        BY <4>1, <4>2, Zenon
    <3>5. ASSUME i.action # "redact", NEW a \in accepted, a.epoch = i.epoch
          PROVE  \E t \in tombstones' : t.op = o /\ PlaceOf(t) = a
      <4>1. \A t \in tombstones : PlaceOf(t) # a
        BY <2>8, <3>5, PlaceFields, Zenon
      <4>2. PICK r \in records : PlaceOf(r) = a
        BY <4>1, Zenon DEF StoreInv
      <4>3. r \in S
        BY <2>6, <3>5, <4>2, PlaceFields, Zenon
      <4>. QED
        BY <2>7, <2>9, <2>11, <4>2, <4>3, Zenon
    <3>6. i.action = "redact" => {t.seq : t \in {t \in tombstones' : t.op = o}} = i.target
      BY <3>3, <3>4, Zenon
    <3>. QED
      BY <1>1, <2>17, <3>2, <3>5, <3>6, Zenon DEF Cleared
  <2>20. OthersKeep(o)
    BY <1>1, <2>13, MovesKeepOthers, Zenon
  <2>21. operations' \in [Operation -> SUBSET Row] /\ SagaInv'
    BY <2>1, <2>17, <2>18, <2>19, <2>20, PutKeeps, Zenon
  <2>22. StoreInv' /\ ReadInv' /\ FencedReplayIsPrefix'
    BY <1>1, <2>13, MovesKeepStore, MovesKeepReads, Zenon
  <2>23. LifecycleTypeOK'
    BY <1>1, <2>13, <2>21, Zenon DEF LifecycleTypeOK, Moves
  <2>24. TombstoneInv'
    <3>. SUFFICES ASSUME NEW t \in tombstones'
                  PROVE  \E x \in operations'[t.op] : Removed(x) /\ x.intent.epoch = t.epoch
      BY Zenon DEF TombstoneInv
    <3>1. operations' = [operations EXCEPT ![o] = {new}] /\ operations \in [Operation -> SUBSET Row]
      BY <2>17, Zenon DEF Puts, LifecycleTypeOK
    <3>2. CASE t \in N
      BY <2>13, <2>17, <3>1, <3>2, Zenon DEF Moves
    <3>3. CASE t \in tombstones
      <4>1. PICK x \in operations[t.op] : Removed(x) /\ x.intent.epoch = t.epoch
        BY <3>3, Zenon DEF TombstoneInv
      <4>2. t.op # o /\ t.op \in Operation
        BY <2>8, <3>3, Zenon DEF LifecycleTypeOK
      <4>. QED
        BY <3>1, <4>1, <4>2, Zenon
    <3>. QED
      BY <2>7, <3>2, <3>3, Zenon
  <2>. QED
    BY <1>1, <2>21, <2>22, <2>23, <2>24, Zenon DEF LifecycleInv
<1>. QED
  BY <1>2, <1>3, Zenon

(***************************************************************************)
(* Appending, signing and reserving                                        *)
(***************************************************************************)
LEMMA AppendKeeps ==
  ASSUME LifecycleInv, NEW e \in Epoch, NEW event \in Event, AppendChecked(e, event)
  PROVE  LifecycleInv'
<1>. /\ LifecycleTypeOK /\ SagaInv /\ StoreInv /\ TombstoneInv /\ ReadInv /\ CallInv
     /\ FencedReplayIsPrefix
  BY Zenon DEF LifecycleInv
<1>. UNCHANGED <<operations, tombstones, receipts, completions, calls, reads>>
  BY Zenon DEF AppendChecked, saga
<1>1. PICK n : n = transcripts[e].next
  BY Zenon
<1>2. PICK r : r = [epoch |-> e, seq |-> n, event |-> event, signed |-> FALSE]
  BY Zenon
<1>3. /\ transcripts \in [Epoch -> [lifecycle: {"active", "redacted", "deleted"}, next: Nat]]
      /\ n \in Nat /\ transcripts[e].lifecycle = "active"
      /\ transcripts' = [transcripts EXCEPT ![e].next = @ + 1]
  BY <1>1, Zenon DEF LifecycleTypeOK, AppendChecked
<1>4. /\ r \in Record /\ r.epoch = e /\ r.seq = n /\ r.event = event
  BY <1>2, <1>3, Zenon DEF Record
<1>5. PICK a0 : a0 = PlaceOf(r)
  BY Zenon
<1>6. a0 \in Place /\ a0.epoch = e /\ a0.seq = n /\ a0.event = event
  BY <1>4, <1>5, PlaceFields, Zenon DEF PlaceOf, Place, Record
<1>7. records' = records \cup {r} /\ accepted' = accepted \cup {a0}
  BY <1>1, <1>2, <1>5, Zenon DEF AppendChecked
<1>8. /\ transcripts' \in [Epoch -> [lifecycle: {"active", "redacted", "deleted"}, next: Nat]]
      /\ \A d \in Epoch : transcripts'[d].lifecycle = transcripts[d].lifecycle
      /\ \A d \in Epoch : transcripts'[d].next = IF d = e THEN n + 1 ELSE transcripts[d].next
  BY <1>1, <1>3
<1>9. \A a \in accepted : a.event # event
  <2>1. /\ \A t \in tombstones : t.event # event
        /\ \A x \in records : x.event # event
    BY Zenon DEF AppendChecked, Tombstoned
  <2>2. \A a \in accepted : (\E x \in records : a = PlaceOf(x)) \/ (\E t \in tombstones : a = PlaceOf(t))
    BY Zenon DEF StoreInv
  <2>. QED
    BY <2>1, <2>2, PlaceFields
<1>10. LifecycleTypeOK' /\ CallInv' /\ TombstoneInv' /\ ReadInv' /\ FencedReplayIsPrefix'
  <2>1. LifecycleTypeOK'
    BY <1>4, <1>6, <1>7, <1>8, Zenon DEF LifecycleTypeOK
  <2>. QED
    BY <2>1, CallsStay, ReadsStay, Zenon DEF TombstoneInv
<1>11. SagaInv'
  <2>1. ASSUME NEW o \in Operation, NEW row \in operations[o]
        PROVE  RowInv(o, row)' /\ (Removed(row) => Cleared(o, row)')
    <3>1. /\ RowInv(o, row) /\ (Removed(row) => Cleared(o, row)) /\ row.intent.epoch \in Epoch
      BY RowFacts, Zenon
    <3>2. RowInv(o, row)'
      BY <1>8, <3>1, RowStays, Zenon
    <3>3. Removed(row) => row.intent.epoch # e
      BY <1>3, <3>1, Zenon DEF RowInv, Removed, Early
    <3>4. Removed(row) => Cleared(o, row)'
      BY <1>6, <1>7, <3>1, <3>3, Zenon DEF Cleared
    <3>. QED
      BY <3>2, <3>4, Zenon
  <2>. QED
    BY <2>1, SagaStays, Zenon
<1>12. StoreInv'
  <2>1. {PlaceOf(x) : x \in records'} \cup {PlaceOf(t) : t \in tombstones} = accepted'
    BY <1>5, <1>7 DEF StoreInv
  <2>2. ASSUME NEW t \in tombstones, NEW x \in records'  PROVE PlaceOf(x) # PlaceOf(t)
    <3>1. t.event # event
      BY Zenon DEF AppendChecked, Tombstoned
    <3>2. CASE x = r
      BY <1>4, <3>1, <3>2, SamePlace, Zenon
    <3>3. CASE x \in records
      BY <3>3, Zenon DEF StoreInv
    <3>. QED
      BY <1>7, <2>2, <3>2, <3>3, Zenon
  <2>3. ASSUME NEW a \in accepted'  PROVE a.seq < transcripts'[a.epoch].next
    <3>1. CASE a = a0
      BY <1>3, <1>6, <1>8, <3>1
    <3>2. CASE a \in accepted
      <4>1. a.epoch \in Epoch /\ a.seq \in Nat /\ a.seq < transcripts[a.epoch].next
        BY <3>2, Zenon DEF StoreInv, LifecycleTypeOK, Place
      <4>. QED
        BY <1>1, <1>3, <1>8, <4>1
    <3>. QED
      BY <1>7, <2>3, <3>1, <3>2, Zenon
  <2>4. ASSUME NEW d \in Epoch, NEW m \in 1 .. (transcripts'[d].next - 1)
        PROVE  \E a \in accepted' : a.epoch = d /\ a.seq = m
    <3>1. CASE d = e /\ m = n
      BY <1>6, <1>7, <3>1, Zenon
    <3>2. CASE m \in 1 .. (transcripts[d].next - 1)
      BY <1>7, <3>2 DEF StoreInv
    <3>3. (d = e /\ m = n) \/ m \in 1 .. (transcripts[d].next - 1)
      BY <1>1, <1>3, <1>8, <2>4
    <3>. QED
      BY <3>1, <3>2, <3>3, Zenon
  <2>5. IdentifierNeverReused'
    BY <1>6, <1>7, <1>9, Zenon DEF StoreInv, IdentifierNeverReused
  <2>6. \A t, u \in tombstones : PlaceOf(u) = PlaceOf(t) => u = t
    BY Zenon DEF StoreInv
  <2>. QED
    BY <2>1, <2>2, <2>3, <2>4, <2>5, <2>6, Zenon DEF StoreInv
<1>. QED
  BY <1>10, <1>11, <1>12, Zenon DEF LifecycleInv

LEMMA SignRecordKeeps ==
  ASSUME LifecycleInv, NEW r \in records, SignRecord(r)
  PROVE  LifecycleInv'
<1>. /\ LifecycleTypeOK /\ SagaInv /\ StoreInv /\ TombstoneInv /\ ReadInv /\ CallInv
     /\ FencedReplayIsPrefix
  BY Zenon DEF LifecycleInv
<1>. UNCHANGED <<transcripts, accepted, operations, tombstones, receipts, completions, calls, reads>>
  BY Zenon DEF SignRecord, saga
<1>1. PICK s : s = [r EXCEPT !.signed = TRUE]
  BY Zenon
<1>2. r \in Record
  BY Zenon DEF LifecycleTypeOK
<1>3. s = [epoch |-> r.epoch, seq |-> r.seq, event |-> r.event, signed |-> TRUE]
  BY <1>1, <1>2, Zenon DEF Record
<1>4. s \in Record /\ PlaceOf(s) = PlaceOf(r)
  BY <1>2, <1>3, Zenon DEF Record, PlaceOf
<1>5. records' = (records \ {r}) \cup {s}
  BY <1>1, Zenon DEF SignRecord
<1>6. LifecycleTypeOK' /\ CallInv' /\ TombstoneInv' /\ ReadInv' /\ FencedReplayIsPrefix'
  <2>1. LifecycleTypeOK'
    BY <1>4, <1>5, Zenon DEF LifecycleTypeOK
  <2>. QED
    BY <2>1, CallsStay, ReadsStay, Zenon DEF TombstoneInv
<1>7. SagaInv'
  BY SagaStays, RowStays, ClearedStays, Zenon DEF SagaInv
<1>8. StoreInv'
  <2>1. {PlaceOf(x) : x \in records'} = {PlaceOf(x) : x \in records}
    BY <1>4, <1>5, Zenon
  <2>2. ASSUME NEW t \in tombstones, NEW x \in records'  PROVE PlaceOf(x) # PlaceOf(t)
    BY <1>4, <1>5, <2>2, Zenon DEF StoreInv
  <2>3. IdentifierNeverReused'
    BY Zenon DEF StoreInv, IdentifierNeverReused
  <2>. QED
    BY <2>1, <2>2, <2>3 DEF StoreInv
<1>. QED
  BY <1>6, <1>7, <1>8, Zenon DEF LifecycleInv

\* An epoch gets one operation: the first fences it for good.
LEMMA ReserveKeeps ==
  ASSUME LifecycleInv, NEW o \in Operation, NEW i \in Intent, Reserve(o, i)
  PROVE  LifecycleInv'
<1>. /\ LifecycleTypeOK /\ SagaInv /\ StoreInv /\ TombstoneInv /\ ReadInv /\ CallInv
     /\ FencedReplayIsPrefix
  BY Zenon DEF LifecycleInv
<1>. UNCHANGED <<transcripts, records, accepted, tombstones, receipts, completions, calls, reads>>
  BY Zenon DEF Reserve, store
<1>1. /\ operations[o] = {} /\ transcripts[i.epoch].lifecycle = "active"
      /\ OneActiveOperation(i.epoch) /\ operations \in [Operation -> SUBSET Row]
  BY Zenon DEF Reserve, LifecycleTypeOK
<1>2. PICK new : new = [intent |-> i, state |-> InitialState(i.epoch), export |-> {},
                        preimage |-> {}, signature |-> {}]
  BY Zenon
<1>3. /\ InitialState(i.epoch) \in {"reserved", "export_satisfied"}
      /\ InitialState(i.epoch) # "reserved" => i.epoch \notin ExportRequired
  BY Zenon DEF InitialState
<1>4. /\ new \in Row /\ new.intent = i /\ Early(new) /\ new.preimage = {} /\ new.signature = {}
      /\ new.state # "reserved" => i.epoch \notin ExportRequired
  BY <1>2, <1>3, StatesAre, Zenon DEF Row, Early
<1>5. operations' = [operations EXCEPT ![o] = {new}]
  BY <1>2, Zenon DEF Reserve
<1>6. /\ operations' \in [Operation -> SUBSET Row]
      /\ \A p \in Operation : operations'[p] = IF p = o THEN {new} ELSE operations[p]
  BY <1>1, <1>4, <1>5, Zenon
<1>7. LifecycleTypeOK'
  BY <1>6, Zenon DEF LifecycleTypeOK
<1>8. ASSUME NEW p \in Operation, NEW x \in operations[p]  PROVE x.intent.epoch # i.epoch
  <2>1. RowInv(p, x)
    BY <1>8, RowFacts, Zenon
  <2>2. x.intent.epoch = i.epoch => x.state = "completed"
    BY <1>1, Zenon DEF OneActiveOperation
  <2>. QED
    BY <1>1, <2>1, <2>2, Zenon DEF RowInv, Early
<1>9. RowInv(o, new)' /\ ~Removed(new)
  BY <1>1, <1>4, Zenon DEF RowInv, Early, Removed
<1>10. ASSUME NEW p \in Operation, NEW x \in operations[p]
       PROVE  RowInv(p, x)' /\ (Removed(x) => Cleared(p, x)')
  BY <1>10, RowFacts, RowStays, ClearedStays, Zenon
<1>11. SagaInv'
  <2>. SUFFICES ASSUME NEW p \in Operation, NEW x \in operations'[p]
                PROVE  /\ \A y \in operations'[p] : y = x
                       /\ \A r \in Operation : \A y \in operations'[r] :
                            y.intent.epoch = x.intent.epoch => r = p
                       /\ RowInv(p, x)' /\ (Removed(x) => Cleared(p, x)')
    BY Zenon DEF SagaInv
  <2>1. CASE p = o
    <3>1. x = new
      BY <1>6, <2>1, Zenon
    <3>2. \A r \in Operation : \A y \in operations'[r] : y.intent.epoch = i.epoch => r = o
      BY <1>6, <1>8, Zenon
    <3>. QED
      BY <1>4, <1>6, <1>9, <2>1, <3>1, <3>2, Zenon
  <2>2. CASE p # o
    <3>1. x \in operations[p] /\ operations'[p] = operations[p] /\ x.intent.epoch # i.epoch
      BY <1>6, <1>8, <2>2, Zenon
    <3>2. \A r \in Operation : \A y \in operations'[r] : y.intent.epoch = x.intent.epoch => r = p
      BY <1>4, <1>6, <3>1 DEF SagaInv
    <3>3. \A y \in operations'[p] : y = x
      BY <3>1, Zenon DEF SagaInv
    <3>. QED
      BY <1>10, <3>1, <3>2, <3>3, Zenon
  <2>. QED
    BY <2>1, <2>2, Zenon
<1>12. TombstoneInv'
  <2>. SUFFICES ASSUME NEW t \in tombstones
                PROVE  \E x \in operations'[t.op] : Removed(x) /\ x.intent.epoch = t.epoch
    BY Zenon DEF TombstoneInv
  <2>1. PICK x \in operations[t.op] : Removed(x) /\ x.intent.epoch = t.epoch
    BY Zenon DEF TombstoneInv
  <2>2. t.op \in Operation
    BY Zenon DEF LifecycleTypeOK
  <2>. QED
    BY <1>1, <1>6, <2>1, <2>2, Zenon
<1>13. StoreInv' /\ ReadInv' /\ FencedReplayIsPrefix' /\ CallInv'
  BY StoreStays, ReadsStay, CallsStay, Zenon
<1>. QED
  BY <1>7, <1>11, <1>12, <1>13, Zenon DEF LifecycleInv

(***************************************************************************)
(* Reading                                                                 *)
(***************************************************************************)
\* What holds of one read.
ReadOk(q) ==
  /\ q.pc = "select" /\ q.lifecycle # "active" =>
       /\ q.cutoff # {}
       /\ \E t \in tombstones : t.epoch = q.epoch
       /\ \A t \in tombstones : t.epoch = q.epoch => t.seq \in q.cutoff
  /\ q.pc # "done" => q.rows = {}
  /\ q.pc = "done" /\ q.lifecycle # "active" =>
       \A x \in q.rows : \A n \in 1 .. x.seq : \E y \in q.rows : y.seq = n

LEMMA ReadsMove ==
  ASSUME LifecycleInv, NEW r \in Reader, NEW q \in Reading, ReadOk(q),
         reads' = [reads EXCEPT ![r] = {q}], UNCHANGED <<store, saga, calls>>
  PROVE  LifecycleInv'
<1>. /\ LifecycleTypeOK /\ SagaInv /\ StoreInv /\ TombstoneInv /\ CallInv
     /\ UNCHANGED <<transcripts, records, accepted, operations, tombstones, receipts, completions>>
  BY Zenon DEF LifecycleInv, store, saga
<1>1. /\ reads' \in [Reader -> SUBSET Reading]
      /\ \A s \in Reader : reads'[s] = IF s = r THEN {q} ELSE reads[s]
  BY Zenon DEF LifecycleTypeOK
<1>2. LifecycleTypeOK'
  BY <1>1, Zenon DEF LifecycleTypeOK
<1>3. \A s \in Reader : \A x \in reads'[s] : ReadOk(x)
  BY <1>1 DEF LifecycleInv, ReadInv, FencedReplayIsPrefix, ReadOk
<1>4. ReadInv' /\ FencedReplayIsPrefix'
  BY <1>3, Zenon DEF ReadInv, FencedReplayIsPrefix, ReadOk
<1>5. SagaInv'
  BY SagaStays, RowStays, ClearedStays, Zenon DEF SagaInv
<1>6. StoreInv' /\ TombstoneInv' /\ CallInv'
  BY StoreStays, CallsStay, Zenon DEF TombstoneInv
<1>. QED
  BY <1>2, <1>4, <1>5, <1>6, Zenon DEF LifecycleInv

LEMMA ReadLifecycleKeeps ==
  ASSUME LifecycleInv, NEW r \in Reader, NEW e \in Epoch, ReadLifecycle(r, e)
  PROVE  LifecycleInv'
<1>1. PICK life : life = transcripts[e].lifecycle
  BY Zenon
<1>2. life \in {"active", "redacted", "deleted"}
  BY <1>1, Zenon DEF LifecycleInv, LifecycleTypeOK
<1>3. PICK pc : pc = CASE life = "deleted" -> "done"
                       [] life = "redacted" -> "boundary"
                       [] OTHER -> "select"
  BY Zenon
<1>4. pc \in {"boundary", "select", "done"} /\ (pc = "select" => life = "active")
  BY <1>2, <1>3, Zenon
<1>5. PICK q : q = [pc |-> pc, epoch |-> e, lifecycle |-> life, cutoff |-> {}, rows |-> {}]
  BY Zenon
<1>6. q \in Reading /\ ReadOk(q)
  BY <1>2, <1>4, <1>5, Zenon DEF Reading, ReadOk
<1>7. reads' = [reads EXCEPT ![r] = {q}] /\ UNCHANGED <<store, saga, calls>>
  BY <1>1, <1>3, <1>5, Zenon DEF ReadLifecycle
<1>. QED
  BY <1>6, <1>7, ReadsMove, Zenon

LEMMA ReadBoundaryKeeps ==
  ASSUME LifecycleInv, NEW r \in Reader, NEW q \in reads[r], ReadBoundary(r, q)
  PROVE  LifecycleInv'
<1>1. q \in Reading /\ q.pc = "boundary" /\ q.rows = {} /\ UNCHANGED <<store, saga, calls>>
  BY Zenon DEF ReadBoundary, LifecycleInv, LifecycleTypeOK, ReadInv
<1>2. PICK S : S = RemovedFrom(q.epoch)
  BY Zenon
<1>3. /\ S \in SUBSET Nat /\ \A t \in tombstones : t.epoch = q.epoch => t.seq \in S
      /\ S # {} => \E t \in tombstones : t.epoch = q.epoch
  BY <1>2 DEF RemovedFrom, LifecycleInv, LifecycleTypeOK
<1>4. CASE S = {}
  <2>1. PICK s : s = [q EXCEPT !.pc = "done"]
    BY Zenon
  <2>2. s = [pc |-> "done", epoch |-> q.epoch, lifecycle |-> q.lifecycle, cutoff |-> q.cutoff,
             rows |-> q.rows]
    BY <1>1, <2>1, Zenon DEF Reading
  <2>3. s \in Reading /\ ReadOk(s)
    BY <1>1, <2>2, Zenon DEF Reading, ReadOk
  <2>4. reads' = [reads EXCEPT ![r] = {s}]
    BY <1>2, <1>4, <2>1, Zenon DEF ReadBoundary
  <2>. QED
    BY <1>1, <2>3, <2>4, ReadsMove, Zenon
<1>5. CASE S # {}
  <2>1. PICK s : s = [q EXCEPT !.pc = "select", !.cutoff = S]
    BY Zenon
  <2>2. s = [pc |-> "select", epoch |-> q.epoch, lifecycle |-> q.lifecycle, cutoff |-> S,
             rows |-> q.rows]
    BY <1>1, <2>1, Zenon DEF Reading
  <2>3. s \in Reading /\ ReadOk(s)
    BY <1>1, <1>3, <1>5, <2>2, Zenon DEF Reading, ReadOk
  <2>4. reads' = [reads EXCEPT ![r] = {s}]
    BY <1>2, <1>5, <2>1, Zenon DEF ReadBoundary
  <2>. QED
    BY <1>1, <2>3, <2>4, ReadsMove, Zenon
<1>. QED
  BY <1>4, <1>5, Zenon

\* Before the first removed record every place is still stored.
LEMMA PrefixIsStored ==
  ASSUME LifecycleTypeOK, StoreInv, NEW e \in Epoch,
         NEW x \in records, x.epoch = e, \A t \in tombstones : t.epoch = e => x.seq < t.seq,
         NEW n \in 1 .. x.seq
  PROVE  \E y \in records : y.epoch = e /\ y.seq = n
<1>1. x \in Record /\ x.seq \in Nat /\ PlaceOf(x) \in accepted
  BY Zenon DEF LifecycleTypeOK, Record, StoreInv
<1>2. x.seq < transcripts[e].next /\ transcripts[e].next \in Nat
  <2>1. PICK p \in accepted : p = PlaceOf(x)
    BY <1>1, Zenon
  <2>2. p.seq < transcripts[p.epoch].next
    BY Zenon DEF StoreInv
  <2>. QED
    BY <2>1, <2>2, PlaceFields, Zenon DEF LifecycleTypeOK
<1>3. n \in Nat /\ n <= x.seq /\ n \in 1 .. (transcripts[e].next - 1)
  BY <1>1, <1>2
<1>4. PICK a \in accepted : a.epoch = e /\ a.seq = n
  BY <1>3, Zenon DEF StoreInv
<1>5. (\E y \in records : a = PlaceOf(y)) \/ (\E t \in tombstones : a = PlaceOf(t))
  BY Zenon DEF StoreInv
<1>6. ASSUME NEW t \in tombstones, a = PlaceOf(t)  PROVE FALSE
  <2>1. t.epoch = e /\ t.seq = n
    BY <1>4, <1>6, PlaceFields, Zenon
  <2>2. x.seq < n
    BY <2>1, Zenon
  <2>. QED
    BY <1>1, <1>3, <2>2
<1>7. PICK y \in records : a = PlaceOf(y)
  BY <1>5, <1>6, Zenon
<1>. QED
  BY <1>3, <1>4, <1>7, PlaceFields, Zenon

LEMMA ReadRecordsKeeps ==
  ASSUME LifecycleInv, NEW r \in Reader, NEW q \in reads[r], ReadRecords(r, q)
  PROVE  LifecycleInv'
<1>0. q \in Reading
  BY Zenon DEF LifecycleInv, LifecycleTypeOK
<1>1. /\ q \in Reading /\ q.pc = "select" /\ UNCHANGED <<store, saga, calls>>
      /\ q.epoch \in Epoch /\ q.cutoff \in SUBSET Nat
  BY <1>0, Zenon DEF ReadRecords, Reading
<1>2. PICK rows : rows = {x \in records : x.epoch = q.epoch /\ \A n \in q.cutoff : x.seq < n}
  BY Zenon
<1>3. PICK s : s = [q EXCEPT !.pc = "done", !.rows = rows]
  BY Zenon
<1>4. s = [pc |-> "done", epoch |-> q.epoch, lifecycle |-> q.lifecycle, cutoff |-> q.cutoff,
           rows |-> rows]
  BY <1>1, <1>3, Zenon DEF Reading
<1>5. rows \in SUBSET Record
  BY <1>2, Zenon DEF LifecycleInv, LifecycleTypeOK
<1>6. s \in Reading /\ s.pc = "done" /\ s.lifecycle = q.lifecycle /\ s.rows = rows
  BY <1>1, <1>4, <1>5, Zenon DEF Reading
<1>7. ASSUME q.lifecycle # "active", NEW x \in rows, NEW n \in 1 .. x.seq
      PROVE  \E y \in rows : y.seq = n
  <2>1. PICK y \in records : y.epoch = q.epoch /\ y.seq = n
    <3>1. \A t \in tombstones : t.epoch = q.epoch => t.seq \in q.cutoff
      BY <1>1, <1>7, Zenon DEF LifecycleInv, ReadInv
    <3>2. x \in records /\ x.epoch = q.epoch /\ \A m \in q.cutoff : x.seq < m
      BY <1>2, <1>7, Zenon
    <3>. QED
      BY <1>1, <3>1, <3>2, PrefixIsStored DEF LifecycleInv
  <2>2. x.seq \in Nat /\ \A m \in q.cutoff : x.seq < m
    BY <1>2, <1>5, Zenon DEF Record
  <2>3. \A m \in q.cutoff : n < m
    BY <1>1, <2>2
  <2>. QED
    BY <1>2, <2>1, <2>3, Zenon
<1>8. ReadOk(s)
  BY <1>6, <1>7, Zenon DEF ReadOk
<1>9. reads' = [reads EXCEPT ![r] = {s}]
  BY <1>2, <1>3, Zenon DEF ReadRecords
<1>. QED
  BY <1>1, <1>6, <1>8, <1>9, ReadsMove, Zenon

LEMMA RestartKeeps ==
  ASSUME LifecycleInv, Restart
  PROVE  LifecycleInv'
<1>. /\ LifecycleTypeOK /\ SagaInv /\ StoreInv /\ TombstoneInv
     /\ UNCHANGED <<transcripts, records, accepted, operations, tombstones, receipts, completions>>
     /\ calls' = [c \in Caller |-> {}] /\ reads' = [r \in Reader |-> {}]
  BY Zenon DEF LifecycleInv, Restart, store, saga
<1>1. LifecycleTypeOK'
  BY Zenon DEF LifecycleTypeOK
<1>2. CallInv' /\ ReadInv' /\ FencedReplayIsPrefix'
  BY Zenon DEF CallInv, ReadInv, FencedReplayIsPrefix
<1>3. SagaInv'
  BY SagaStays, RowStays, ClearedStays, Zenon DEF SagaInv
<1>4. StoreInv' /\ TombstoneInv'
  BY StoreStays, Zenon DEF TombstoneInv
<1>. QED
  BY <1>1, <1>2, <1>3, <1>4, Zenon DEF LifecycleInv

(***************************************************************************)
(* Theorems                                                                *)
(***************************************************************************)
LEMMA LifecycleInitially == Init => LifecycleInv
<1>. SUFFICES ASSUME Init  PROVE LifecycleInv
  BY Zenon
<1>. /\ transcripts = [e \in Epoch |-> [lifecycle |-> "active", next |-> 1]]
     /\ records = {} /\ accepted = {} /\ tombstones = {}
     /\ operations = [o \in Operation |-> {}] /\ receipts = [o \in Operation |-> {}]
     /\ completions = [o \in Operation |-> {}]
     /\ calls = [c \in Caller |-> {}] /\ reads = [r \in Reader |-> {}]
  BY Zenon DEF Init
<1>1. LifecycleTypeOK
  BY Zenon DEF LifecycleTypeOK
<1>2. SagaInv /\ TombstoneInv /\ CallInv /\ ReadInv /\ FencedReplayIsPrefix
  BY Zenon DEF SagaInv, TombstoneInv, CallInv, ReadInv, FencedReplayIsPrefix
<1>3. StoreInv
  BY DEF StoreInv, IdentifierNeverReused
<1>. QED
  BY <1>1, <1>2, <1>3, Zenon DEF LifecycleInv

LEMMA CallFacts ==
  ASSUME LifecycleInv, NEW c \in Caller, NEW call \in calls[c]
  PROVE  call.op \in Operation
<1>1. call \in Call
  BY Zenon DEF LifecycleInv, LifecycleTypeOK
<1>. QED
  BY <1>1, Zenon DEF Call

LEMMA LifecycleStep ==
  ASSUME LifecycleInv, [Next]_vars
  PROVE  LifecycleInv'
<1>1. ASSUME NEW c \in Caller, NEW call \in calls[c], NEW row \in operations[call.op],
             Transact(c, call, row)
      PROVE  LifecycleInv'
  BY <1>1, CallFacts, AttachSignatureKeeps, RemovePayloadKeeps, BindBackupKeeps,
     RecordReceiptKeeps, CompleteKeeps, Zenon DEF Transact
<1>2. ASSUME NEW o \in Operation, NEW row \in operations[o],
             \/ \E x \in Export : BindExport(o, row, x)
             \/ \E p \in Preimage, previous \in {"active", "redacted"} :
                  PersistMarker(o, row, p, previous)
             \/ \E c \in Caller : Preflight(c, o, row)
      PROVE  LifecycleInv'
  BY <1>2, BindExportKeeps, PersistMarkerKeeps, PreflightKeeps, Zenon
<1>3. CASE UNCHANGED vars
  <2>1. UNCHANGED <<store, operations, tombstones, receipts, completions, reads, calls>>
    BY <1>3, Zenon DEF vars, saga
  <2>2. calls' \in [Caller -> SUBSET Call] /\ CallInv'
    BY <2>1, CallsStay, Zenon DEF LifecycleInv, LifecycleTypeOK
  <2>. QED
    BY <2>1, <2>2, CallsMove, Zenon
<1>. QED
  BY <1>1, <1>2, <1>3, AppendKeeps, SignRecordKeeps, ReserveKeeps, ReadLifecycleKeeps,
     ReadBoundaryKeeps, ReadRecordsKeeps, RestartKeeps, Zenon DEF Next

\* The inductive invariant of the saga, the store and the readers.
THEOREM LifecycleInvariant == Spec => []LifecycleInv
<1>1. Init => LifecycleInv
  BY LifecycleInitially, Zenon
<1>2. LifecycleInv /\ [Next]_vars => LifecycleInv'
  BY LifecycleStep, Zenon
<1>. QED
  BY <1>1, <1>2, PTL DEF Spec

\* Every record that was ever accepted is stored or was removed by the one
\* operation whose authorised intent names it, and an operation is completed
\* with the timely success of every custodian only.
THEOREM RemovalStaysSound == Spec => []RemovalIsSound
<1>1. LifecycleInv => RemovalIsSound
  <2>. SUFFICES ASSUME LifecycleInv  PROVE RemovalIsSound
    BY Zenon
  <2>1. RemovalIsAccounted
    <3>1. \A o \in Operation : \A row \in operations[o] :
            Rank(row.state) >= Rank("payload_removed") => Cleared(o, row)
      BY RowFacts, RemovedByRank, Zenon
    <3>2. ASSUME NEW o \in Operation, NEW row \in operations[o],
                 Rank(row.state) >= Rank("payload_removed")
          PROVE  LET gone == {t \in tombstones : t.op = o}
                 IN  /\ \A t \in gone : t.epoch = row.intent.epoch
                     /\ IF row.intent.action = "redact"
                          THEN {t.seq : t \in gone} = row.intent.target
                          ELSE \A a \in accepted : a.epoch = row.intent.epoch =>
                                 \E t \in gone : PlaceOf(t) = a
      <4>1. PICK gone : gone = {t \in tombstones : t.op = o}
        BY Zenon
      <4>2. Cleared(o, row)
        BY <3>1, <3>2, Zenon
      <4>3. /\ \A t \in gone : t.epoch = row.intent.epoch
            /\ row.intent.action = "redact" => {t.seq : t \in gone} = row.intent.target
            /\ row.intent.action # "redact" =>
                 \A a \in accepted : a.epoch = row.intent.epoch => \E t \in gone : PlaceOf(t) = a
        BY <4>1, <4>2, Zenon DEF Cleared
      <4>. QED
        BY <4>1, <4>3, Zenon
    <3>3. /\ {PlaceOf(r) : r \in records} \cup {PlaceOf(t) : t \in tombstones} = accepted
          /\ \A t \in tombstones : /\ \A r \in records : PlaceOf(r) # PlaceOf(t)
                                   /\ \A u \in tombstones : PlaceOf(u) = PlaceOf(t) => u = t
      BY Zenon DEF LifecycleInv, StoreInv
    <3>. QED
      BY <3>2, <3>3, Zenon DEF RemovalIsAccounted
  <2>2. RemovalIsAuthorised
    <3>. SUFFICES ASSUME NEW t \in tombstones
                  PROVE  /\ transcripts[t.epoch].lifecycle # "active"
                         /\ \A row \in operations[t.op] :
                              /\ row.signature # {} /\ row.signature = row.preimage
                              /\ t.epoch \in ExportRequired => row.export # {}
      BY Zenon DEF RemovalIsAuthorised
    <3>1. PICK x \in operations[t.op] : Removed(x) /\ x.intent.epoch = t.epoch
      BY Zenon DEF LifecycleInv, TombstoneInv
    <3>2. t.op \in Operation
      BY Zenon DEF LifecycleInv, LifecycleTypeOK
    <3>3. RowInv(t.op, x) /\ \A row \in operations[t.op] : row = x
      BY <3>1, <3>2, Zenon DEF LifecycleInv, SagaInv
    <3>. QED
      BY <3>1, <3>3, Zenon DEF RowInv, Early, Removed
  <2>3. CompletionIsClean
    BY Zenon DEF LifecycleInv, SagaInv, RowInv, CompletionIsClean
  <2>. QED
    BY <2>1, <2>2, <2>3, Zenon DEF RemovalIsSound
<1>. QED
  BY <1>1, LifecycleInvariant, PTL

\* An event ID is accepted once, also after its record was removed, and a
\* replay of a fenced transcript is the prefix before the first removal.
THEOREM RemovalsAreVisible == Spec => []RemovalStaysVisible
<1>1. LifecycleInv => RemovalStaysVisible
  BY Zenon DEF LifecycleInv, StoreInv, RemovalStaysVisible
<1>. QED
  BY <1>1, LifecycleInvariant, PTL

(***************************************************************************)
(* What a step does to the row of an operation                             *)
(***************************************************************************)
Advanced(row, new) ==
  /\ new.intent = row.intent
  /\ Rank(new.state) \in {Rank(row.state), Rank(row.state) + 1}
  /\ row.export # {} => new.export = row.export
  /\ row.preimage # {} => new.preimage = row.preimage
  /\ row.signature # {} => new.signature = row.signature

LEMMA PutAdvances ==
  ASSUME LifecycleInv, NEW o \in Operation, NEW row \in operations[o], NEW new,
         Put(o, new), Advanced(row, new)
  PROVE  SagaOnlyAdvances
<1>1. /\ operations \in [Operation -> SUBSET Row]
      /\ \A p \in Operation : operations'[p] = IF p = o THEN {new} ELSE operations[p]
  BY Zenon DEF LifecycleInv, LifecycleTypeOK, Put
<1>2. \A x \in operations[o] : x = row
  BY Zenon DEF LifecycleInv, SagaInv
<1>3. \A p \in Operation : \A x \in operations[p] : \E y \in operations'[p] :
        y = x \/ Advanced(x, y)
  BY <1>1, <1>2, Zenon
<1>. QED
  BY <1>3, Zenon DEF SagaOnlyAdvances, Advanced

LEMMA KeptRowsAdvance ==
  ASSUME \A o \in Operation : operations[o] \subseteq operations'[o]
  PROVE  SagaOnlyAdvances
  BY Zenon DEF SagaOnlyAdvances

\* A receipt is never dropped, so an incident stays one, and the completed
\* operations of the invariant have none.
LEMMA IncidentStays ==
  ASSUME LifecycleInv', \A o \in Operation : receipts[o] \subseteq receipts'[o]
  PROVE  IncidentIsForever
<1>. SUFFICES ASSUME NEW o \in Operation, Incident(receipts[o])
              PROVE  /\ Incident(receipts[o]')
                     /\ \A new \in operations'[o] : new.state # "completed"
  BY Zenon DEF IncidentIsForever
<1>1. Incident(receipts'[o])
  BY Zenon DEF Incident
<1>2. ASSUME NEW new \in operations'[o], new.state = "completed"
      PROVE  Classify(receipts'[o]) = "completable"
  BY <1>2, Zenon DEF LifecycleInv, SagaInv, RowInv
<1>3. Classify(receipts'[o]) # "completable"
  BY <1>1, Completables, Zenon
<1>. QED
  BY <1>1, <1>2, <1>3, Zenon

LEMMA BindExportAdvances ==
  ASSUME LifecycleInv, NEW o \in Operation, NEW row \in operations[o], NEW x \in Export,
         BindExport(o, row, x)
  PROVE  SagaOnlyAdvances /\ receipts' = receipts
<1>1. PICK new : new = [row EXCEPT !.export = {x}, !.state = "export_satisfied"]
  BY Zenon
<1>2. row \in Row
  BY RowFacts, Zenon
<1>3. Put(o, new) /\ row.state = "reserved" /\ row.export = {} /\ receipts' = receipts
  BY <1>1, Zenon DEF BindExport
<1>4. /\ new.intent = row.intent /\ new.state = "export_satisfied"
      /\ new.preimage = row.preimage /\ new.signature = row.signature
  BY <1>1, <1>2, Zenon DEF Row
<1>5. Advanced(row, new)
  BY <1>3, <1>4, Ranks DEF Advanced
<1>. QED
  BY <1>3, <1>5, PutAdvances, Zenon

LEMMA PersistMarkerAdvances ==
  ASSUME LifecycleInv, NEW o \in Operation, NEW row \in operations[o], NEW p, NEW previous,
         PersistMarker(o, row, p, previous)
  PROVE  SagaOnlyAdvances /\ receipts' = receipts
<1>1. PICK new : new = [row EXCEPT !.preimage = {p}, !.state = "marker_persisted"]
  BY Zenon
<1>2. row \in Row
  BY RowFacts, Zenon
<1>3. Put(o, new) /\ row.state = "export_satisfied" /\ receipts' = receipts
  BY <1>1, Zenon DEF PersistMarker
<1>4. /\ new.intent = row.intent /\ new.state = "marker_persisted"
      /\ new.export = row.export /\ new.signature = row.signature
  BY <1>1, <1>2, Zenon DEF Row
<1>5. row.preimage = {}
  BY <1>3, Zenon DEF LifecycleInv, SagaInv, RowInv, Early
<1>6. Advanced(row, new)
  BY <1>3, <1>4, <1>5, Ranks DEF Advanced
<1>. QED
  BY <1>3, <1>6, PutAdvances, Zenon

LEMMA AttachSignatureAdvances ==
  ASSUME LifecycleInv, NEW c, NEW call, call.op \in Operation, NEW row \in operations[call.op],
         AttachSignature(c, call, row)
  PROVE  SagaOnlyAdvances /\ receipts' = receipts
<1>1. PICK new : new = [row EXCEPT !.signature = {call.preimage}, !.state = "receipt_signed"]
  BY Zenon
<1>2. row \in Row
  BY RowFacts, Zenon
<1>3. receipts' = receipts
  BY Zenon DEF AttachSignature
<1>4. CASE Attachable(call, row)
  <2>1. Put(call.op, new) /\ row.state = "marker_persisted"
    BY <1>1, <1>4, Zenon DEF AttachSignature, Attachable
  <2>2. /\ new.intent = row.intent /\ new.state = "receipt_signed"
        /\ new.export = row.export /\ new.preimage = row.preimage
    BY <1>1, <1>2, Zenon DEF Row
  <2>3. row.signature = {}
    BY <2>1, Zenon DEF LifecycleInv, SagaInv, RowInv
  <2>4. Advanced(row, new)
    BY <2>1, <2>2, <2>3, Ranks DEF Advanced
  <2>. QED
    BY <1>3, <2>1, <2>4, PutAdvances, Zenon
<1>5. CASE ~Attachable(call, row)
  BY <1>3, <1>5, KeptRowsAdvance, Zenon DEF AttachSignature
<1>. QED
  BY <1>4, <1>5, Zenon

\* The steps that change the state of the row alone.
LEMMA StateAdvances ==
  ASSUME LifecycleInv, NEW o \in Operation, NEW row \in operations[o], NEW s,
         Put(o, [row EXCEPT !.state = s]), Rank(s) = Rank(row.state) + 1
  PROVE  SagaOnlyAdvances
<1>1. PICK new : new = [row EXCEPT !.state = s]
  BY Zenon
<1>2. row \in Row
  BY RowFacts, Zenon
<1>3. /\ new.intent = row.intent /\ new.state = s /\ new.export = row.export
      /\ new.preimage = row.preimage /\ new.signature = row.signature
  BY <1>1, <1>2, Zenon DEF Row
<1>4. Advanced(row, new)
  BY <1>3, Zenon DEF Advanced
<1>. QED
  BY <1>1, <1>4, PutAdvances, Zenon

LEMMA TransactAdvances ==
  ASSUME LifecycleInv, NEW c \in Caller, NEW call \in calls[c], NEW row \in operations[call.op],
         Transact(c, call, row)
  PROVE  /\ SagaOnlyAdvances
         /\ \A o \in Operation : receipts[o] \subseteq receipts'[o]
<1>. call.op \in Operation
  BY CallFacts, Zenon
<1>1. CASE AttachSignature(c, call, row)
  BY <1>1, AttachSignatureAdvances, Zenon
<1>2. CASE RemovePayload(c, call, row)
  <2>1. CASE Removable(call, row)
    <3>1. Put(call.op, [row EXCEPT !.state = "payload_removed"]) /\ row.state = "receipt_signed"
      BY <1>2, <2>1, Zenon DEF RemovePayload, Removable
    <3>. QED
      BY <1>2, <3>1, Ranks, StateAdvances DEF RemovePayload
  <2>2. CASE ~Removable(call, row)
    BY <1>2, <2>2, KeptRowsAdvance, Zenon DEF RemovePayload
  <2>. QED
    BY <2>1, <2>2, Zenon
<1>3. CASE BindBackupObligations(c, call, row)
  <2>1. CASE SameSnapshot(call, row) /\ row.state = "payload_removed"
    <3>1. Put(call.op, [row EXCEPT !.state = "backups_pending"])
      BY <1>3, <2>1, Zenon DEF BindBackupObligations
    <3>. QED
      BY <1>3, <2>1, <3>1, Ranks, StateAdvances DEF BindBackupObligations
  <2>2. CASE ~(SameSnapshot(call, row) /\ row.state = "payload_removed")
    BY <1>3, <2>2, KeptRowsAdvance, Zenon DEF BindBackupObligations
  <2>. QED
    BY <2>1, <2>2, Zenon
<1>4. CASE RecordBackupReceipt(c, call, row)
  <2>1. \A o \in Operation : receipts[o] \subseteq receipts'[o]
    BY <1>4, Zenon DEF RecordBackupReceipt, LifecycleInv, LifecycleTypeOK
  <2>. QED
    BY <1>4, <2>1, KeptRowsAdvance, Zenon DEF RecordBackupReceipt
<1>5. CASE Complete(c, call, row)
  <2>1. CASE Completable(call, row)
    <3>1. Put(call.op, [row EXCEPT !.state = "completed"]) /\ row.state = "backups_pending"
      BY <1>5, <2>1, Zenon DEF Complete, Completable
    <3>. QED
      BY <1>5, <3>1, Ranks, StateAdvances DEF Complete
  <2>2. CASE ~Completable(call, row)
    BY <1>5, <2>2, KeptRowsAdvance, Zenon DEF Complete
  <2>. QED
    BY <2>1, <2>2, Zenon
<1>. QED
  BY <1>1, <1>2, <1>3, <1>4, <1>5, Zenon DEF Transact

LEMMA ReserveAdvances ==
  ASSUME LifecycleInv, NEW o \in Operation, NEW i, Reserve(o, i)
  PROVE  SagaOnlyAdvances /\ receipts' = receipts
<1>1. receipts' = receipts /\ \A p \in Operation : operations[p] \subseteq operations'[p]
  BY Zenon DEF Reserve, LifecycleInv, LifecycleTypeOK
<1>. QED
  BY <1>1, KeptRowsAdvance, Zenon

\* A step moves the row of an operation to the next state of the saga at
\* most, replaces no evidence it has, and an incident among its receipts is
\* there to stay and keeps it from being completed.
THEOREM SagaStaysMonotone == Spec => SagaIsMonotone
<1>1. LifecycleInv /\ LifecycleInv' /\ [Next]_vars => [SagaOnlyAdvances /\ IncidentIsForever]_vars
  <2>. SUFFICES ASSUME LifecycleInv, LifecycleInv', Next
                PROVE  SagaOnlyAdvances /\ IncidentIsForever
    BY Zenon
  <2>1. ASSUME UNCHANGED saga  PROVE SagaOnlyAdvances /\ receipts' = receipts
    BY <2>1, KeptRowsAdvance, Zenon DEF saga
  <2>2. SagaOnlyAdvances /\ \A o \in Operation : receipts[o] \subseteq receipts'[o]
    <3>1. ASSUME \E e \in Epoch, event \in Event : AppendChecked(e, event)
          PROVE  UNCHANGED saga
      BY <3>1, Zenon DEF AppendChecked
    <3>2. ASSUME \E r \in records : SignRecord(r)  PROVE UNCHANGED saga
      BY <3>2, Zenon DEF SignRecord
    <3>3. ASSUME NEW o \in Operation, NEW row \in operations[o], NEW c \in Caller,
                 Preflight(c, o, row)
          PROVE  UNCHANGED saga
      BY <3>3, Zenon DEF Preflight, PreflightAttach, PreflightRemove, PreflightBind,
         PreflightRecord,
                  PreflightComplete, Start
    <3>4. ASSUME NEW r, NEW e, NEW q,
                 ReadLifecycle(r, e) \/ ReadBoundary(r, q) \/ ReadRecords(r, q)
          PROVE  UNCHANGED saga
      BY <3>4, Zenon DEF ReadLifecycle, ReadBoundary, ReadRecords
    <3>5. ASSUME Restart  PROVE UNCHANGED saga
      BY <3>5, Zenon DEF Restart
    <3>6. CASE UNCHANGED saga
      BY <2>1, <3>6, Zenon
    <3>. QED
      BY <3>1, <3>2, <3>3, <3>4, <3>5, <3>6, ReserveAdvances, BindExportAdvances,
         PersistMarkerAdvances, TransactAdvances, Zenon DEF Next
  <2>. QED
    BY <2>2, IncidentStays, Zenon
<1>. QED
  BY <1>1, LifecycleInvariant, PTL DEF Spec, SagaIsMonotone
=============================================================================
