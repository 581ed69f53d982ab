SPECIFICATION FairSpec
CONSTANTS
  PcMod = 3
  Bases = {0, 1}
  RunLength = 2
  MaxSteps = 3
INVARIANT TypeOK
INVARIANT FlagIsHonest
INVARIANT StepsAreWhole
INVARIANT CyclesAreExact
INVARIANT ResetHolds
PROPERTY RunEnds
