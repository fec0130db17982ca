SPECIFICATION FairSpec
CONSTANTS
  Bytes = 3
  MAX_CONN_TRIES = 3
  MaxLoops = 10
  Backlog = 2
INVARIANTS TypeOK LiveTunnelPasses OneLeftover
PROPERTY EndsOrBlocks
