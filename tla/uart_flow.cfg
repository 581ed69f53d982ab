SPECIFICATION FairSpec
CONSTANTS
  Byte = {a, b}
  Depth = 2
  MaxStored = 2
  MaxInjected = 2
  MaxFed = 3
INVARIANT TypeOK
INVARIANT SentAsWritten
INVARIANT ReceivedAsFed
INVARIANT StatusStaysTrue
PROPERTY FifoDrains
