\* Two links, two parameters, both switches, Tick with real amounts.
SPECIFICATION MCTasksSpec
CONSTANTS
  Modulators = {m1, m2}
  Params = {p1, p2}
  MaxModulations = 2
  CountModulus = 16
  Amounts = {0, 1}
  Switches = {TRUE, FALSE}
  One = 1
  NoParam = NoParam
  NoModulator = NoModulator
  NoAdd = NoAdd
  CountBound = 3
  ValueBound = 4
SYMMETRY Symmetry
INVARIANTS
  NothingLeftBehind
PROPERTIES
  QuietTickExact
CHECK_DEADLOCK FALSE
