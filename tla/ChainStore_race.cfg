SPECIFICATION Spec
CONSTANTS
  Blocks <- TreeBlocks
  Genesis = "g"
  NoBlock = "none"
  Parent <- TreeParent
  Height <- TreeHeight
  Chain <- TreeChain
  Weight <- TreeWeight
  Load <- TreeLoad
  Rank <- TreeRank
  MAX_FORK_LOCATOR_TIPS = 6
  Writers = {w1, w2}
  MaxOffers = 2
  MaxRejects = 0
  MaxCrashes = 0
INVARIANT
  CanonicalTip
