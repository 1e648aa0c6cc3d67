SPECIFICATION Spec
CONSTANTS
  Nodes = {"seat", "peer"}
  SponsorNode = "seat"
  Offers = {"o"}
  AutoApprove = {"o"}
  Claimants = {c1, c2, c3}
  Home <- FarHomes
  max_sponsees = 2
  MaxTasks = 1
  MaxEvents = 0
SYMMETRY ClaimantSymmetry
INVARIANT
  NoOverClaim
