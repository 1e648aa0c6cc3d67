CONSTANTS
  g = g a1 = a1 b1 = b1 b2 = b2 none = none
  Blocks = {g, a1, b1, b2}
  Genesis = g
  NoBlock = none
  Parent <- Tree
  Height <- Tall
  Chain <- Paths
  Weight <- Tall
  Rank <- Order
  Carries <- Content
  Actions = {"admit_p", "note", "admit_q"}
  Grants = {"admit_p", "admit_q"}
  Author <- Signer
  Sponsee <- Admits
  Root = "root"
  Heard = {"note"}
  Handlers = {"handler"}
  SyncLoop = "sync"
  MaxScan = 1
  MaxCrashes = 1
  Watched = b2
SPECIFICATION FairSpec
INVARIANT TypeOK
PROPERTY EffectsOnce
INVARIANT AppliedMeansGranted
 
 
CHECK_DEADLOCK FALSE
