SPECIFICATION FairSpec
CONSTANTS
  c1 = c1 c2 = c2 c3 = c3
  None = None
  Peers = {"p", "q"}
  Conns = {c1, c2, c3}
  PeerOf <- Ends
  Talkers = {"p"}
  Ways <- Arrivals
  max_inbound = 1
  max_outbound = 1
  max_connections = 2
  target_peers = 1
  MAX_SEND_STRIKES = 2
  MaxStrikes = 2
INVARIANTS
  TypeOK
  PooledIsRead
  LivePeersAreCounted
PROPERTIES
  UnpooledLoopsEnd
  EvictedIsForgotten
CHECK_DEADLOCK FALSE
