SPECIFICATION CalcSpec
CONSTANTS
  Width = 6
  HalfRange = 32
  Base = 3
  TopExp = 3
  DigitOf <- MCDigitOf
  MaxTyped = 70
INVARIANT CalcTypeOK
INVARIANT AnswersRight
INVARIANT LinesStartClean
PROPERTY AnswerComes
