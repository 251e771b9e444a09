\* Whether an append can meet a restore (docstring of _capture_buffer_state).
SPECIFICATION Spec
CONSTANTS
  MaxPendingBuffers = 1
  BufferSize = 2
  MaxTableBatches = 1
  MaxBatches = 2
  MaxFlushes = 2
  MaxFailures = 1
INVARIANT NoRowLost
