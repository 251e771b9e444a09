SPECIFICATION SessionSpec
CONSTANTS
  Buckets = {b1, b2}
  SlotBufferSize = 1
  MaxBufferSize = 2
  MaxRetries = 1
  MaxRows = 3
  MaxMoves = 1
  MaxPolls = 1
  MaxSharedRows = 1
  MaxSharedMoves = 0
INVARIANTS
  EachRowOnce
  CommitKeepsItsWord
  KeepaliveFollowsStop

PROPERTIES
  SessionCallsEnd
CHECK_DEADLOCK FALSE
