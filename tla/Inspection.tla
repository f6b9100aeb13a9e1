----------------------------- MODULE Inspection -----------------------------
(***************************************************************************)
(* Inspect of internal/client/inspect.go: the client folds the records it  *)
(* has replayed into a work view.  It knows only the transcript, where the *)
(* relay's validator (Transitions) keeps the claims themselves.            *)
(***************************************************************************)
EXTENDS Transitions, SequencesExt

OffersKeptOnce(e, n, c) == IF e.kind = "handoff_offer" THEN c.offers \cup {n} ELSE {}

\* The offers of claim c after the event e at n continued it.
OffersAfter(e, n, c) ==
  CASE e.kind = "handoff_offer" -> c.offers \cup {n}
    [] e.kind = "release" -> {}
    [] OTHER -> c.offers

\* The client's claimState: offers are handoff IDs, one per offer event.
ViewStep(w, view, n) ==
  LET e == transcript[n]
      live(k) == {c \in view[k] : c.active}
  IN  IF e.work # w THEN view ELSE
      CASE e.kind = "claim" ->
             [k \in ClaimKey |->
                IF k \in e.key THEN {[active |-> TRUE, last |-> n, offers |-> {}]} ELSE view[k]]
        [] e.kind \in {"progress", "handoff_offer", "release"} ->
             [k \in ClaimKey |->
                IF k \in e.key /\ \E c \in live(k) : c.last = e.causation
                THEN {[active |-> e.kind # "release", last |-> n,
                       offers |-> OffersAfter(e, n, c)] : c \in view[k]}
                ELSE view[k]]
        [] e.kind = "handoff_accept" ->
             [k \in ClaimKey |->
                {IF c.active THEN [c EXCEPT !.offers = {}] ELSE c : c \in view[k]}]
        [] OTHER -> view

\* The work view of claim states cs: active claims, current offers, state.
WorkView(cs) ==
  LET active == {k \in ClaimKey : \E c \in cs[k] : c.active}
      current == UNION {c.offers : c \in UNION {cs[k] : k \in active}}
  IN  [claims |-> active,
       offers |-> IF Cardinality(active) > 1 THEN {} ELSE current,
       state |-> CASE active = {} /\ \A k \in ClaimKey : cs[k] = {} -> "unclaimed"
                   [] active = {} -> "released"
                   [] Cardinality(active) = 1 /\ current # {} -> "handoff_offered"
                   [] Cardinality(active) = 1 -> "claimed"
                   [] OTHER -> "conflicting"]

Inspect(w) ==
  WorkView(FoldLeft(LAMBDA view, n : ViewStep(w, view, n), [k \in ClaimKey |-> {}],
                    [n \in 1..Len(transcript) |-> n]))

(***************************************************************************)
(* Properties                                                              *)
(***************************************************************************)

\* The client's view of a work is the projection the protocol defines over the
\* relay's claims, as long as no handoff of that work was accepted.
InspectAgreesBeforeAcceptance ==
  \A w \in Work :
    LET relayView == [k \in ClaimKey |-> {c \in claims[k] : c.work = w}]
    IN  (\A n \in 1..Len(transcript) :
           transcript[n].work = w => transcript[n].kind # "handoff_accept")
        => Inspect(w) = WorkView(relayView)

\* The same at all times: "zero active claims with any historical claim yields
\* released", also after an accepted handoff.
InspectAgrees ==
  \A w \in Work :
    Inspect(w) = WorkView([k \in ClaimKey |-> {c \in claims[k] : c.work = w}])
=============================================================================
