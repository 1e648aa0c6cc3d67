SPECIFICATION FairSpec
CONSTANTS
  Nodes = {"seat", "peer"}
  SponsorNode = "seat"
  Offers = {"o"}
  AutoApprove = {"o"}
  Claimants = {"c"}
  Home <- FarHomes
  max_sponsees = 2
  MaxTasks = 1
  MaxEvents = 1
INVARIANTS
  TypeOK
  
  PeersNeverOvercount

  
CHECK_DEADLOCK FALSE
