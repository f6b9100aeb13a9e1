-------------------------- MODULE MCRelayTranscript --------------------------
(* The instance of RelayTranscript for TLC: two events, one of which is also *)
(* published with another body.                                              *)
EXTENDS RelayTranscript, TLC

CONSTANTS e1, e2, b1, b2, s1, s2

Publications == {<<e1, b1>>, <<e1, b2>>, <<e2, b1>>}

\* Two signers may disagree on the first event.
Signatures == e1 :> {s1, s2} @@ e2 :> {s1}

=============================================================================
