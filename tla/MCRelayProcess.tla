----------------------------- MODULE MCRelayProcess -----------------------------
(* RelayProcess for TLC: a session with a stream, and one that expires later. *)
EXTENDS RelayProcess, TLC

CONSTANTS s1, s2, x1, o1

MCSession == {s1, s2}

MCExpires == (s1 :> 1) @@ (s2 :> 2)

MCSessionOf == x1 :> s1

MCRevocation == {<<o1, s1>>}
=============================================================================
