SPECIFICATION Spec
CONSTANTS
  SeqModulus = 16
  MaxBuffer = 4
  OverflowChecks = TRUE
  Missing = Missing
  None = None
  Dual = TRUE
  Bulk = 2
  InitialSeq = 0
  NumSeqs = 3
  ChannelSize = 1
  CommandSize = 1
  MaxArrivals = 3
  MaxEnds = 2
  MayDrop <- BothSinks
  MayCancel <- ReliableSink
  MayClose = TRUE
  MayExit = TRUE
INVARIANTS
  TypeOK
  NeverEarly
  DrainsAreReturned
  NoBatchWithheld
  EachCreditOnce
  CreditsFollowDrain
  AcksAreOwed
CHECK_DEADLOCK FALSE
