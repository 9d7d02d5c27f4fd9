SPECIFICATION TransferSpec
CONSTANTS
  SeqModulus = 16
  MaxBuffer = 8
  OverflowChecks = TRUE
  Missing = Missing
  None = None
  Dual = TRUE
  Bulk = 1
  InitialSeq = 0
  NumSeqs = 4
  ChannelSize = 1
  CommandSize = 1
  MaxArrivals = 8
  MaxEnds = 1
  MayDrop <- NoSinks
  MayCancel <- NoSinks
  MayClose = FALSE
  MayExit = FALSE
  InitialCredits = 4
  SenderBuffer = 4
  Frags = 1
  MaxGroups = 2
  MaxLosses = 1
  MaxRequests = 0
  Reorder = FALSE
  MayTimeout = FALSE
  HandleDrops <- NoPeers
INVARIANTS
  InOrder
CHECK_DEADLOCK FALSE
