SPECIFICATION Spec
CONSTANTS
  QueueSize = 2
  Batches = 5
INVARIANTS
  CallNotStuck
  NothingLost
  
PROPERTIES
  EndMeansAll
  ReadsReturn
  
CHECK_DEADLOCK FALSE
