SPECIFICATION FairSpec
CONSTANTS
  Peers = {p1, p2}
  Formers = {task}
  MaxHeight = 1
  Grace = 1
  MaxHold = 1
  FORM_BEHIND_TOLERANCE = 0
  CORROBORATING_PEERS = 2
  MAX_TRACKED_PEERS = 2
INVARIANTS
  TypeOK
  NoEarlySoloFormation
  HoldNeedsCorroboration
  OpenGateYieldsOnlyToWork
PROPERTIES
  ClaimsDelayNotVeto
