SPECIFICATION Spec
CONSTANTS
  Creator = creator
  Reloaders = {reloader}
  Workers = {w1, w2}
  Blocks = {b1}
  Attempts = {a1, a2}
  MaxRows = 1
  MaxDescriptors = 2
  MaxAbandoned = 1
SYMMETRY Symmetry
CONSTRAINT Families
INVARIANTS
  CloseSparesCommit
  LateWorkersWriteNothing
  CommittedRowsAreWritten
PROPERTIES
  ReportsTrueOutcome
