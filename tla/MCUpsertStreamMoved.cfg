SPECIFICATION Spec
CONSTANTS
  Buckets = {b1, b2}
  SlotBufferSize = 1
  MaxBufferSize = 2
  MaxRetries = 1
  MaxRows = 3
  MaxMoves = 1
INVARIANTS
  FlushMeansApplied
CHECK_DEADLOCK FALSE
