SPECIFICATION Spec
CONSTANTS
  Base = 3
  Pad = 3
  CounterMax = 4
  Device = {1, 2}
  MaxWall = 2
  MaxOps = 5
INVARIANT CausalOrder
CHECK_DEADLOCK FALSE
