SPECIFICATION FairSpec
CONSTANTS
  Half = 4
  DefaultPeriod = 13
  OrHigh <- MCOrHigh
  PcMod = 4
  InsnBytes = 2
  LoadAddr = 2
  Variants = {"full", "tn9k"}
  SprWrites <- MCSprWrites
  JumpTargets = {0}
  BreakTargets = {2}
  PeriodWrites = {12}
  Watched = FALSE
INVARIANT TypeOK
INVARIANT NoDeliverableLeft
PROPERTY NoMissedExpiry
PROPERTY ContextsPreserved
PROPERTY AlarmFires
