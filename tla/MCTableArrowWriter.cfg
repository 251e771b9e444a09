SPECIFICATION Spec
CONSTANTS
  MaxPendingBuffers = 2
  BufferSize = 2
  MaxTableBatches = 1
  MaxBatches = 3
  MaxFlushes = 3
  MaxFailures = 1
INVARIANTS
  OneWriteInFlight
  PermitsBalance
  RowsConserved
  FailureNotErased
  OffsetInStep
  OrderWithoutFailure
PROPERTIES
  NoWriteAfterClose
