\* Stale slots: three links, three parameters.
SPECIFICATION MCSpec
CONSTANTS
  Modulators = {m1, m2}
  Params = {p1, p2, p3}
  MaxModulations = 3
  CountModulus = 16
  Amounts = {0}
  Switches = {}
  One = 1
  NoParam = NoParam
  NoModulator = NoModulator
  CountBound = 5
  ValueBound = 0
SYMMETRY Symmetry
INVARIANT LinksOfParamComplete
CHECK_DEADLOCK FALSE
