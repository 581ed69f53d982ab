SPECIFICATION AsmSpec
CONSTANTS
  Labels = {"x", "y", "z"}
  Programs <- MCPrograms
  Origin = 4
  InsnBytes = 4
  ImmMin <- MCImmMin
  ImmMax = 11
  Half = 48
  Passes = 4
INVARIANT AsmTypeOK
INVARIANT CountedAsEmitted
INVARIANT JumpsLand
CHECK_DEADLOCK FALSE
