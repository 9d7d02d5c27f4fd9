SPECIFICATION TransferSpec
CONSTANTS
  SeqModulus = 16
  MaxBuffer = 4
  OverflowChecks = TRUE
  Missing = Missing
  None = None
  Dual = TRUE
  Bulk = 1
  InitialSeq = 0
  NumSeqs = 2
  ChannelSize = 2
  CommandSize = 1
  MaxArrivals = 8
  MaxEnds = 1
  MayDrop <- NoSinks
  MayCancel <- NoSinks
  MayClose = FALSE
  MayExit = FALSE
  InitialCredits = 4
  SenderBuffer = 1
  Frags = 2
  MaxGroups = 1
  MaxLosses = 1
  MaxRequests = 1
  Reorder = TRUE
  MayTimeout = FALSE
  HandleDrops <- NoPeers
INVARIANTS
  CreditConservation
CHECK_DEADLOCK FALSE
