SPECIFICATION FairTransferSpec
CONSTANTS
  SeqModulus = 16
  MaxBuffer = 4
  OverflowChecks = TRUE
  Missing = Missing
  None = None
  Dual = TRUE
  Bulk = 2
  InitialSeq = 0
  NumSeqs = 3
  ChannelSize = 2
  CommandSize = 2
  MaxArrivals = 8
  MaxEnds = 1
  MayDrop <- NoSinks
  MayCancel <- NoSinks
  MayClose = FALSE
  MayExit = FALSE
  InitialCredits = 3
  SenderBuffer = 3
  Frags = 1
  MaxGroups = 2
  MaxLosses = 0
  MaxRequests = 0
  Reorder = FALSE
  MayTimeout = FALSE
  HandleDrops <- ReceiverPeer
PROPERTIES
  KeepsPromise
  EndSucceeds
  ReliableEof
CHECK_DEADLOCK FALSE
