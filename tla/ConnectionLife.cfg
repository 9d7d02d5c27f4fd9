SPECIFICATION FairConnectionSpec
CONSTANTS
  none = none
  gzip = gzip
  zstd = zstd
  Types = {none, gzip, zstd}
  None = none
  Supported <- ServerTypes
  Configs <- AllConfigs
  KeepaliveTimeout <- Timeouts
  HandshakeTimeout <- Handshakes
  Openers = {"client"}
  MayDrop = TRUE
  MaxDelay = 1
  MaxLate = 0
  MayCut = TRUE
  MaxStreams <- Streams
INVARIANTS ConnectionTypeOK HandshakeAgrees HealthyStaysOpen NoticedInTime
CHECK_DEADLOCK FALSE
PROPERTIES HandshakeEnds GoneIsNoticed
