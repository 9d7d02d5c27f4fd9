SPECIFICATION FairReconnectSpec
CONSTANTS
  a = a
  b = b
  Subscribers <- TwoSubscribers
  Forever = Forever
  MaxRetries = 1
  InitialBackoff = 2
  MaxBackoff = 5
  Multiplier = 2
  MaxConnections = 3
  MaxFailures = 4
  MaxCalls = 2
INVARIANTS
  RetriesExhausted
  SubscribersTold

  
CHECK_DEADLOCK FALSE
