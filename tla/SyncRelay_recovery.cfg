SPECIFICATION Spec
CONSTANTS
  Device = {d1, d2}
  d1 = d1
  d2 = d2
  Book = {b1}
  b1 = b1
  Writer = {d1, d2}
  MaxHlc = 2
  ChunkSize = 1
  PageSize = 1
  MaxFailures = 1
  MaxResets = 1
  MaxSnapshots = 2
PROPERTY ImplementsDelivery
CONSTRAINT FewTroubles
SYMMETRY Symmetry
CHECK_DEADLOCK FALSE
