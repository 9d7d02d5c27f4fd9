SPECIFICATION TransferSpec
CONSTANTS
  SeqModulus = 16
  MaxBuffer = 4
  OverflowChecks = TRUE
  Missing = Missing
  None = None
  Dual = TRUE
  Bulk = 1
  InitialSeq = 0
  NumSeqs = 1
  ChannelSize = 2
  CommandSize = 2
  MaxArrivals = 8
  MaxEnds = 1
  MayDrop <- NoSinks
  MayCancel <- NoSinks
  MayClose = FALSE
  MayExit = FALSE
  InitialCredits = 2
  SenderBuffer = 2
  Frags = 1
  MaxGroups = 2
  MaxLosses = 0
  MaxRequests = 0
  Reorder = FALSE
  MayTimeout = FALSE
  HandleDrops <- NoPeers
INVARIANTS
  UnreliableComplete
CHECK_DEADLOCK FALSE
