SPECIFICATION FairSpec
CONSTANTS
  LastOffset = 2
  Malformed = {2}
  Undecodable = {}
  Worker = {w1, w2}
  Null = Null
  RealtimeMax = 2
  MaxAttempts = 2
  MaxFault = 1
  MaxOps = 1
  Resettable = {"pending", "processing", "processed", "exhausted", "poison"}
INVARIANTS
  TypeOK
  NoSilentLoss
PROPERTIES
  QueueDrains
  ConsumerFinishes
CHECK_DEADLOCK FALSE
