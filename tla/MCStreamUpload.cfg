SPECIFICATION Spec
CONSTANTS
  Writers = {w1, w2}
  MaxRetries = 1
  RetryTimes = 0
  MaxSlots = 2
  MaxRows = 1
  MaxChanges = 1
INVARIANTS
  
  ForcedReloadIsFresh
PROPERTIES
  CallsReturn
CHECK_DEADLOCK FALSE
