\* kOk and an unconnected input that reads 1.
SPECIFICATION Spec
CONSTANTS
  Keys = {7, 45}
  MaxTurn = 0
  Pictures = {p1}
  StartPage = p1
  NoPicture = none
  Parts = 1
  Trys = 2
  Touched = {{"keys"}}
INVARIANTS
  UnusedSilent
CHECK_DEADLOCK FALSE
