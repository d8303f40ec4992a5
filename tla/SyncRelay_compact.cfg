SPECIFICATION Spec
CONSTANTS
  Device = {d1, d2}
  d1 = d1
  d2 = d2
  Book = {b1}
  b1 = b1
  Writer = {d1, d2}
  MaxHlc = 2
  ChunkSize = 1
  PageSize = 2
  MaxFailures = 0
  MaxResets = 0
  MaxSnapshots = 1
SYMMETRY Symmetry
INVARIANT SnapshotCoversPruned
CHECK_DEADLOCK FALSE
