SPECIFICATION Spec
CONSTANTS
  Peers = {p1}
  Formers = {task}
  MaxHeight = 1
  Grace = 1
  MaxHold = 1
  FORM_BEHIND_TOLERANCE = 0
  CORROBORATING_PEERS = 1
  MAX_TRACKED_PEERS = 1
PROPERTIES
  ParityMeansCaughtUp
