\* One parameter more than paramInfos_ has slots.
SPECIFICATION MCSpec
CONSTANTS
  Modulators = {m1, m2}
  Params = {p1, p2, p3}
  MaxModulations = 2
  CountModulus = 16
  Amounts = {0}
  Switches = {}
  One = 1
  NoParam = NoParam
  NoModulator = NoModulator
  CountBound = 5
  ValueBound = 0
SYMMETRY Symmetry
INVARIANT AddStopsAtLimit
CHECK_DEADLOCK FALSE
