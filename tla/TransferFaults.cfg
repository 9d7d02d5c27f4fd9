SPECIFICATION FairTransferSpec
CONSTANTS
  SeqModulus = 16
  MaxBuffer = 4
  OverflowChecks = TRUE
  Missing = Missing
  None = None
  Dual = TRUE
  Bulk = 1
  InitialSeq = 0
  NumSeqs = 3
  ChannelSize = 2
  CommandSize = 2
  MaxArrivals = 8
  MaxEnds = 1
  MayDrop <- BothSinks
  MayCancel <- UnreliableSink
  MayClose = FALSE
  MayExit = TRUE
  InitialCredits = 2
  SenderBuffer = 2
  Frags = 1
  MaxGroups = 2
  MaxLosses = 1
  MaxRequests = 0
  Reorder = FALSE
  MayTimeout = TRUE
  HandleDrops <- BothPeers
INVARIANTS
  WithinCreditWindow
  HolesCanBeFilled
  EndMeansSurfaced
PROPERTIES
  EndReturns
CHECK_DEADLOCK FALSE
