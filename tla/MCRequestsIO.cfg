SPECIFICATION Spec
CONSTANTS
  ChunkSize = 2
  MaxPieces = 5
  MaxTimeouts = 2
  MaxReloads = 1
INVARIANTS
  CallNotStuck
PROPERTIES
  BodyIsWhatWasWritten
  CallsReturn
