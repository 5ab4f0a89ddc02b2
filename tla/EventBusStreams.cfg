CONSTANTS
  Stream = {s1, s2}
  MaxQueue = 2
  MaxEvents = 4
  MaxQueues = 2
  MaxConsumers = 3
SPECIFICATION FairSpec
INVARIANTS StreamsShareQueue QueueHoldsTheNewest DeliveredOnce
PROPERTY FinalStatusEndsStream
CHECK_DEADLOCK FALSE
