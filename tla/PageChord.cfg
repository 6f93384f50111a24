\* Two keys in one scan of the keyboard.
SPECIFICATION MCGuiSpec
CONSTANTS
  Modulators = {24, 25}
  Params = {p1, p2, p3}
  MaxModulations = 3
  CountModulus = 32
  Amounts = {0}
  Switches = {}
  One = 1
  NoParam = NoParam
  NoModulator = NoModulator
  Steps <- OneStep
  MaxPartials = 2
  MaxParttern = 2
  Turns <- OneStep
  Touched = {{"links"}}
  CountBound = 5
  PressBound = 2
SYMMETRY Symmetry
INVARIANT ChooserGoesBack
CHECK_DEADLOCK FALSE
