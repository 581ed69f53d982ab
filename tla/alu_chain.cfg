SPECIFICATION Spec
CONSTANTS
  Width = 2
  HalfRange = 2
  Registers <- MCRegisters
  Immediates <- MCImmediates
  MaxScale = 16
INVARIANT TypeOK
INVARIANT ChainsCompute
INVARIANT ConditionsDecide
