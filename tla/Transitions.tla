----------------------------- MODULE Transitions -----------------------------
(***************************************************************************)
(* The claim and handoff rules of one transcript: TransitionValidator of   *)
(* internal/relay/service/transition.go, which folds the stored records    *)
(* into a transcriptState and applies the candidate to it inside the       *)
(* append transaction.                                                     *)
(*                                                                         *)
(* The validator rebuilds its state for every candidate; the variables     *)
(* claims, offers and acceptances are that state after the transcript.     *)
(* A candidate it refuses is not appended, so only admitted ones are       *)
(* steps.  An event's ID is its position.  The fields an acceptance repeats *)
(* from its offer (handoff ID, claim, digests) must all be equal and are   *)
(* represented by the offer's event ID.                                    *)
(***************************************************************************)
EXTENDS Integers, Sequences, FiniteSets

CONSTANTS
  Participant,  \* authenticated participant instances
  Work,         \* work URIs
  ClaimKey,     \* (claim_id, generation) pairs
  Root,         \* of "question" and "review_request", the kinds published
  MaxClaims,    \* active claims per work: 32 in the code
  MaxOffers,    \* current offers per claim: 32 in the code
  MaxEvents     \* bound on the transcript

ASSUME TransitionsAssumption ==
  /\ Root \subseteq {"question", "review_request"}
  /\ MaxClaims \in Nat \ {0} /\ MaxOffers \in Nat \ {0} /\ MaxEvents \in Nat

VARIABLES
  transcript,  \* the accepted events in sequence order
  claims,      \* claims[k]: {} or the claim that used key k
  offers,      \* every offer ever made
  acceptances  \* acceptances no successor claim has used

transitionsVars == <<transcript, claims, offers, acceptances>>

NoEvent == 0
Kind == {"claim", "progress", "release", "handoff_offer", "handoff_accept",
         "question", "answer", "review_request", "verdict", "evidence_verification"}

\* causation is the event the validator resolves; key is {} outside the
\* claim family; to is the recipient of an offer.
TransitionEvent ==
  [kind: Kind, work: Work, participant: Participant, causation: Nat,
   key: SUBSET ClaimKey, to: SUBSET Participant]
Claim == [root: 1..MaxEvents, work: Work, last: 1..MaxEvents, active: BOOLEAN,
          offers: SUBSET (1..MaxEvents)]
Offer == [event: 1..MaxEvents, key: ClaimKey, recipient: Participant, accepted: BOOLEAN]
Acceptance == [event: 1..MaxEvents, participant: Participant]

TransitionsTypeOK ==
  /\ transcript \in Seq(TransitionEvent) /\ Len(transcript) <= MaxEvents
  /\ claims \in [ClaimKey -> {{}} \cup {{c} : c \in Claim}]
  /\ offers \in SUBSET Offer
  /\ acceptances \in SUBSET Acceptance

TransitionsInit ==
  /\ transcript = << >>
  /\ claims = [k \in ClaimKey |-> {}]
  /\ offers = {}
  /\ acceptances = {}

(***************************************************************************)
(* transcriptState.apply                                                   *)
(***************************************************************************)
NextID == Len(transcript) + 1

\* Append the event if its causation resolves to an event about the same work.
Admit(kind, p, w, cause, key, to) ==
  /\ Len(transcript) < MaxEvents
  /\ cause = NoEvent \/ (cause \in 1..Len(transcript) /\ transcript[cause].work = w)
  /\ transcript' = Append(transcript, [kind |-> kind, work |-> w, participant |-> p,
                                       causation |-> cause, key |-> key, to |-> to])

ActiveClaims(w) == {k \in ClaimKey : \E c \in claims[k] : c.active /\ c.work = w}

NewClaim(w) == [root |-> NextID, work |-> w, last |-> NextID, active |-> TRUE, offers |-> {}]

\* A claim uses its key once; a successor uses up the acceptance it names.
MakeClaim(p, w, k, predecessor) ==
  /\ claims[k] = {}
  /\ predecessor # NoEvent => [event |-> predecessor, participant |-> p] \in acceptances
  /\ Cardinality(ActiveClaims(w)) < MaxClaims
  /\ Admit("claim", p, w, predecessor, {k}, {})
  /\ acceptances' = acceptances \ {[event |-> predecessor, participant |-> p]}
  /\ claims' = [claims EXCEPT ![k] = {NewClaim(w)}]
  /\ UNCHANGED offers

\* progress, release and handoff_offer continue the claim's last event.
Continues(c, w) == c.active /\ c.work = w

Progress(p, w, k) ==
  \E c \in claims[k] :
    /\ Continues(c, w)
    /\ Admit("progress", p, w, c.last, {k}, {})
    /\ claims' = [claims EXCEPT ![k] = {[c EXCEPT !.last = NextID]}]
    /\ UNCHANGED <<offers, acceptances>>

Release(p, w, k) ==
  \E c \in claims[k] :
    /\ Continues(c, w)
    /\ Admit("release", p, w, c.last, {k}, {})
    /\ claims' = [claims EXCEPT ![k] =
         {[c EXCEPT !.last = NextID, !.active = FALSE, !.offers = {}]}]
    /\ UNCHANGED <<offers, acceptances>>

HandoffOffer(p, w, k, to) ==
  \E c \in claims[k] :
    /\ Continues(c, w)
    /\ Cardinality(c.offers) < MaxOffers
    /\ Admit("handoff_offer", p, w, c.last, {k}, {to})
    /\ claims' = [claims EXCEPT ![k] = {[c EXCEPT !.last = NextID, !.offers = @ \cup {NextID}]}]
    /\ offers' = offers \cup
         {[event |-> NextID, key |-> k, recipient |-> to, accepted |-> FALSE]}
    /\ UNCHANGED acceptances

AcceptKeepsLast(p, w, o) ==
  \E c \in claims[o.key] :
    /\ ~o.accepted /\ c.active /\ o.event \in c.offers
    /\ p = o.recipient
    /\ Admit("handoff_accept", p, w, o.event, {o.key}, {})
    /\ claims' = [claims EXCEPT ![o.key] = {[c EXCEPT !.offers = {}]}]
    /\ offers' = {IF x.event \in c.offers THEN [x EXCEPT !.accepted = TRUE] ELSE x : x \in offers}
    /\ acceptances' = acceptances \cup {[event |-> NextID, participant |-> p]}

\* The recipient accepts a current offer; every other current offer of the
\* claim is closed with it.
HandoffAccept(p, w, o) ==
  \E c \in claims[o.key] :
    /\ ~o.accepted /\ c.active /\ o.event \in c.offers
    /\ p = o.recipient
    /\ Admit("handoff_accept", p, w, o.event, {o.key}, {})
    /\ claims' = [claims EXCEPT ![o.key] = {[c EXCEPT !.last = NextID, !.offers = {}]}]
    /\ offers' = {IF x.event \in c.offers THEN [x EXCEPT !.accepted = TRUE] ELSE x : x \in offers}
    /\ acceptances' = acceptances \cup {[event |-> NextID, participant |-> p]}

Publish(p, w, kind) ==
  /\ Admit(kind, p, w, NoEvent, {}, {})
  /\ UNCHANGED <<claims, offers, acceptances>>

\* An answer needs its question, a verdict its review request, and a
\* verification an event.  The digests of the evidence they name are those of
\* the parent, or the reply is refused.
ReplyTo(kind) ==
  CASE kind = "answer" -> {"question"}
    [] kind = "verdict" -> {"review_request"}
    [] kind = "evidence_verification" -> Kind

Reply(p, w, kind, parent) ==
  /\ transcript[parent].kind \in ReplyTo(kind)
  /\ Admit(kind, p, w, parent, {}, {})
  /\ UNCHANGED <<claims, offers, acceptances>>

TransitionsNext ==
  \E p \in Participant, w \in Work :
    \/ \E k \in ClaimKey, n \in {NoEvent} \cup 1..Len(transcript) : MakeClaim(p, w, k, n)
    \/ \E k \in ClaimKey :
         \/ Progress(p, w, k)
         \/ Release(p, w, k)
         \/ \E to \in Participant : HandoffOffer(p, w, k, to)
    \/ \E o \in offers : HandoffAccept(p, w, o)
    \/ \E kind \in Root : Publish(p, w, kind)
    \/ \E n \in 1..Len(transcript), kind \in {"answer", "verdict", "evidence_verification"} :
         Root # {} /\ Reply(p, w, kind, n)

TransitionsSpec == TransitionsInit /\ [][TransitionsNext]_transitionsVars

(***************************************************************************)
(* Properties                                                              *)
(***************************************************************************)

LifecycleKind == {"claim", "progress", "handoff_offer", "handoff_accept", "release"}

Of(kinds, k) == {n \in 1..Len(transcript) : transcript[n].kind \in kinds /\ k \in transcript[n].key}

Successors ==
  {n \in 1..Len(transcript) : transcript[n].kind = "claim" /\ transcript[n].causation # NoEvent}

\* An accepted handoff has at most one successor claim, made by the
\* participant that accepted, who is the one the offer named: the recipient
\* cannot turn one acceptance into two claims under fresh keys.
OneSuccessorPerAcceptance ==
  /\ \A m, n \in Successors : transcript[m].causation = transcript[n].causation => m = n
  /\ \A n \in Successors :
       LET a == transcript[transcript[n].causation]
       IN  /\ a.kind = "handoff_accept"
           /\ a.participant = transcript[n].participant
           /\ transcript[a.causation].to = {a.participant}

\* "An acceptance after the source claim is released, superseded, changed, or
\* after another acceptance fails": between an offer and its acceptance the
\* claim is neither released nor handed to anyone else.
AcceptanceIsCurrent ==
  \A k \in ClaimKey : \A n \in Of({"handoff_accept"}, k) :
    \A m \in Of({"handoff_accept", "release"}, k) : m < n => m < transcript[n].causation

\* Every progress, release and offer continues the latest lifecycle event of
\* its claim, acceptances of its offers included, and nothing follows the
\* release: concurrent writers cannot fork a claim's history.
LifecycleIsAChain ==
  \A k \in ClaimKey : \A n \in Of({"progress", "handoff_offer", "release"}, k) :
    /\ \A m \in Of(LifecycleKind, k) : m < n => m <= transcript[n].causation
    /\ transcript[n].kind = "release" => \A m \in Of(LifecycleKind, k) : m <= n

Unreleased(w) ==
  {n \in 1..Len(transcript) : /\ transcript[n].kind = "claim" /\ transcript[n].work = w
                              /\ \A k \in transcript[n].key : Of({"release"}, k) = {}}

CurrentOffers(k) ==
  {n \in Of({"handoff_offer"}, k) : \A m \in Of({"handoff_accept", "release"}, k) : m < n}

\* At most MaxClaims claims of one work are unreleased, and at most MaxOffers
\* offers of one claim are neither accepted, closed nor released.
ResourceLimits ==
  /\ \A w \in Work : Cardinality(Unreleased(w)) <= MaxClaims
  /\ \A k \in ClaimKey : Cardinality(CurrentOffers(k)) <= MaxOffers

\* The claims of a work do not fork and stay within their limits, and a handoff
\* is accepted while it is current and succeeded at most once: what the
\* validator promises of every transcript it admits.
ClaimsAreSound ==
  OneSuccessorPerAcceptance /\ AcceptanceIsCurrent /\ LifecycleIsAChain /\ ResourceLimits
=============================================================================
