\* kOk, kPitchUp, which shares the masked byte, and kRecord, which is masked; a
\* detent on one side; two pictures, sent in two parts.  One of the three is
\* moved at a time.
SPECIFICATION Spec
CONSTANTS
  Keys = {7, 41, 47}
  MaxTurn = 5
  Pictures = {p1, p2}
  StartPage = p1
  NoPicture = none
  Parts = 2
  Trys = 2
  Touched = {{"keys"}, {"knob"}, {"pages"}}
INVARIANTS
  OneTurn
  CountExact
  NoTear
PROPERTIES
  EdgesAlternate
  HeldIsReported
  AllTaken
  NewestShown
CHECK_DEADLOCK FALSE
