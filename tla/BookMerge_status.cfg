SPECIFICATION Spec
CONSTANTS
  Device = {d1, d2}
  d1 = d1
  d2 = d2
  Rating = {0, 1}
  Status = {"want-to-read", "reading", "read"}
  Page = {1, 2}
  MaxHlc = 4
SYMMETRY Symmetry
INVARIANT StatusConverges
CHECK_DEADLOCK FALSE
