SPECIFICATION Spec
CONSTANTS
  Device = {d1, d2, d3}
  d1 = d1
  d2 = d2
  d3 = d3
  Book = {b1}
  b1 = b1
  Writer = {d1, d2}
  MaxHlc = 3
  ChunkSize = 2
  PageSize = 2
  MaxFailures = 1
  MaxResets = 0
  MaxSnapshots = 0
SYMMETRY Symmetry
INVARIANT DeliveredUpToCursor
INVARIANT EffectiveUpToCursor
CHECK_DEADLOCK FALSE
