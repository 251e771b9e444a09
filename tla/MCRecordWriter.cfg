SPECIFICATION RecordSpec
CONSTANTS
  MaxPendingBuffers = 1
  BufferSize = 1
  MaxTableBatches = 1
  MaxBatches = 2
  MaxFlushes = 2
  MaxFailures = 1
  RowCountPerBatch = 2
  BlobBatchFileNum = 1
  MaxBlobs = 1
  MaxRows = 2
  MaxItems = 2
INVARIANTS
  RowsBatchedOnce
  RecordsDelivered
  ReferencesMatch
  CallNotStuck
PROPERTIES
  RecordCallsReturn
