----------------------------- MODULE RelayEvents -----------------------------
(* What is published on a relay, whichever of its stores keeps it. *)
CONSTANTS
  Event,     \* event IDs
  Body,      \* canonical events without their ID
  Signature  \* signatures of receipts
=============================================================================
