SPECIFICATION FairLifecycleSpec
CONSTANTS
  Turns <- AA
  MaxPayloads <- OnePayload
  Kinds <- DualOrNot
  MessageSize = 1
  Polite = TRUE
  MayDropSinks <- OnlyB
  MayLose <- OnlyB
INVARIANTS
  LifecycleTypeOK
  EndOkMeansAcked
  ClosesSettled
  AckBeforeClose
  
PROPERTIES
  CallsReturn
  AskedSinkEnds
  TasksEnd
CHECK_DEADLOCK FALSE
