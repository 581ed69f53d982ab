SPECIFICATION CodeSpec
CONSTANTS
  Lanes = {0}
  Byte = {0, 1, 2, 3, 4, 5, 6, 7}
  FifthBit = 4
  Plus <- MCPlus
  Ram <- MCRam
  Reg = {"r0", "r1", "r2", "r3", "r30"}
  R0 = "r0"
  R1 = "r1"
  R2 = "r2"
  R3 = "r3"
  SP = "r30"
  One <- MCOne
  Four <- MCOne
  MinusFour <- MCMinusFour
  Counter <- MCCounter
  Top <- MCTop
  MaxDepth = 2
  MaxCount <- MCMaxCount
  Depth <- MCDepth
  Slot <- MCSlot
INVARIANT CodeTypeOK
INVARIANT RegistersTransparent
PROPERTY CodeIsAtomic
