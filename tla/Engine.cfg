\* Three keys, an envelope (they share nothing), two pairs of partials.  A
\* block of 512 samples and a tick every 160, in units of 32 samples: the ticks
\* fall on the same places of the blocks.  The increment 4 ends a stage at once.
SPECIFICATION MCEngineSpec
CONSTANTS
  Notes = {36, 40, 43}
  Envelopes = {amp}
  BlockSize = 16
  SampleRate = 1000
  UpdateRate = 200
  MaxPairs = 2
  One = 3
  Increments = {1, 2, 4}
  StackBound = 5
  LateBound = 20
INVARIANTS
  PitchChangeTriggers
  StrayAttackNeedsTap
  EvenTicks
  KeyHeardInTime
PROPERTIES
  RefinesLastNote
  CountedInTune
  NoJump
