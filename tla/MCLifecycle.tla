----------------------------- MODULE MCLifecycle -----------------------------
(* The instance of Lifecycle for TLC: two epochs, of which the first requires *)
(* an export; custodians that answer in time, late, with a failure and twice. *)
EXTENDS Lifecycle, TLC

Intents == {[epoch |-> 1, action |-> "redact", target |-> {1}, high |-> 2],
            [epoch |-> 1, action |-> "delete", target |-> {}, high |-> 1],
            [epoch |-> 2, action |-> "delete", target |-> {}, high |-> 1]}

Answer(id, domain, outcome, time) ==
  [id |-> id, domain |-> domain, set |-> "set", outcome |-> outcome, time |-> time]

Answers == {Answer(1, "event", "success", 1), Answer(2, "identity", "success", 2),
            Answer(3, "security_audit", "success", 1), Answer(3, "security_audit", "success", 3),
            Answer(4, "event", "failure", 1)}

Symmetry == Permutations(Event) \cup Permutations(Preimage) \cup Permutations(Operation) \cup
            Permutations(Caller)
=============================================================================
