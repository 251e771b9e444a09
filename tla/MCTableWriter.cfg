SPECIFICATION Spec
CONSTANTS
  Main = main
  Children = {c1, c2}
  Threads = {t1, t2}
  MainThread = t1
  MaxRows = 2
INVARIANTS
  BlocksOfOneWriter
  
PROPERTIES
  CallsReturn
CHECK_DEADLOCK FALSE
