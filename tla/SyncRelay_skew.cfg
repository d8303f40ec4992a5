SPECIFICATION Spec
CONSTANTS
  Device = {d1, d2, d3}
  d1 = d1
  d2 = d2
  d3 = d3
  Writer = {d1, d2}
  Book = {b1, b2}
  b1 = b1
  b2 = b2
  MaxHlc = 2
  ChunkSize = 1
  PageSize = 2
  MaxFailures = 0
  MaxResets = 0
  MaxSnapshots = 0
SYMMETRY Symmetry
INVARIANT CursorImmuneToSkew
CHECK_DEADLOCK FALSE
