SPECIFICATION FairJitterSpec
CONSTANTS
  Stamps = {0, 2, 3, 4, 6, 8}
  FrameMs = 2
  DelayMs = 4
  MaxArrivals = 4
  MaxFaults = 1
  MaxStalls = 1
  NoSlot = NoSlot
INVARIANTS
  SlotBySlot
  TimelyNotConcealed
  TimelyPlayed
PROPERTIES
  EofFinishes
CHECK_DEADLOCK FALSE
