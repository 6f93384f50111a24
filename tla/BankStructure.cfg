\* The tables alone: every amount is 0, four links, three parameters.
SPECIFICATION MCSpec
CONSTANTS
  Modulators = {m1, m2}
  Params = {p1, p2, p3}
  MaxModulations = 4
  CountModulus = 32
  Amounts = {0}
  Switches = {}
  One = 1
  NoParam = NoParam
  NoModulator = NoModulator
  CountBound = 5
  ValueBound = 0
SYMMETRY Symmetry
INVARIANTS
  RegisteredOnce
  RoutesKept
  NoDuplicateLink
  ChargesConserved
PROPERTIES
  FreesOnlyRegistered
  RefinesRoutes
CHECK_DEADLOCK FALSE
