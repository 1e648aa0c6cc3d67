SPECIFICATION Spec
CONSTANTS
  Actions = {"p", "q", "z", "e"}
  Threads = {"t1", "t2", "t3"}
  Spaces = {"s1", "s2", "s3"}
  NoAction = "none"
  Actor <- PlainActor
  Outsiders = {"bob"}
  Pow <- PlainPow
  ThreadOf <- PlainThread
  SpaceOf <- PlainSpace
  Replaces <- PlainReplaces
  Creates = {"z"}
  NetworkBlocks <- PlainBlocks
  MAX_MEMPOOL_ACTIONS = 3
  MAX_ACTIONS_PER_SPACE = 3
  MaxSlots = 3
INVARIANTS
  AcceptedNotLost
