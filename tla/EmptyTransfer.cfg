SPECIFICATION FairLifecycleSpec
CONSTANTS
  Turns <- A
  MaxPayloads <- NoPayloads
  Kinds <- AllKinds
  MessageSize = 1
  Polite = TRUE
  MayDropSinks <- NoSides
  MayLose <- NoSides
PROPERTIES
  EmptyTransferEnds
CHECK_DEADLOCK FALSE
