\* Two modulators (env2 and lfo1), three parameters, three links; or waves of up
\* to 16 partials and patterns of up to 7.
SPECIFICATION MCGuiSpec
CONSTANTS
  Modulators = {24, 25}
  Params = {p1, p2, p3}
  MaxModulations = 3
  CountModulus = 32
  Amounts = {0}
  Switches = {}
  One = 1
  NoParam = NoParam
  NoModulator = NoModulator
  Steps <- OneStep
  MaxPartials = 16
  MaxParttern = 7
  Turns <- OneStep
  Touched = {{"links"}, {"sound"}}
  CountBound = 3
  PressBound = 2
SYMMETRY Symmetry
INVARIANTS
  HandlesLive
  PageShowsTarget
  OverlayModal
  StrayKeyNeedsChord
  WaveComplete
  PatternSplits
CHECK_DEADLOCK FALSE
