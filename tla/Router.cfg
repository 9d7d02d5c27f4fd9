SPECIFICATION FairRouterSpec
CONSTANTS
  a = a
  b = b
  Streams <- TwoStreams
  Shard <- SameShard
  Workers = 2
  ChannelSize = 1
  MaxPending = 1
  MaxPackets = 2
  MayExpire = TRUE
  MayDie = TRUE
INVARIANTS
  EachOnce
  AtMostOneStranded
PROPERTIES
  
  RouterMoves
CHECK_DEADLOCK FALSE
