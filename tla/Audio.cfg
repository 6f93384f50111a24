\* Block numbers modulo 5; nothing else needs a bound.
SPECIFICATION Spec
CONSTANTS
  BlockModulus = 5
INVARIANTS
  NeverIntoPlayed
  OneBlockPerHalf
PROPERTIES
  Gapless
  RefillsBoth
