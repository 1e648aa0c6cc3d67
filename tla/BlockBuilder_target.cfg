SPECIFICATION Spec
CONSTANTS
  Actions = {"p", "q", "e"}
  Threads = {"t1"}
  Spaces = {"s1"}
  NoAction = "none"
  Actor <- EditActor
  Outsiders = {}
  Pow <- EditPow
  ThreadOf <- EditThread
  SpaceOf <- EditSpace
  Replaces <- EditReplaces
  Creates = {}
  NetworkBlocks <- EditBlocks
  MAX_MEMPOOL_ACTIONS = 3
  MAX_ACTIONS_PER_SPACE = 3
  MaxSlots = 4
PROPERTIES
  ReplacesOnlyItsTarget
