SPECIFICATION Spec
CONSTANTS
  WordMod = 2
  WordBytes = 2
  RamWords = 2
  Byte = {0, 1}
  ZeroByte = 0
  BreakAddrs = {1}
  Sent = {0, 1, 2}
  Ranges <- MCRanges
  Writes <- MCWrites
INVARIANT TypeOK
INVARIANT BeliefsHold
INVARIANT StopsAreTold
