SPECIFICATION TransitionsSpec
CONSTANTS
  Participant = {p1, p2}
  Work = {w1}
  ClaimKey = {k1, k2, k3, k4}
  Root = {"question"}
  MaxClaims = 3
  MaxOffers = 2
  MaxEvents = 5
SYMMETRY Symmetry
CHECK_DEADLOCK FALSE
INVARIANTS ClaimsAreSound InspectAgreesBeforeAcceptance
