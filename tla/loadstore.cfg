SPECIFICATION Spec
CONSTANTS
  Lanes = {0, 1}
  Byte = {0, 1}
  FifthBit = 4
  Plus <- MCPlus
  Ram <- MCRam
  Reg = {r0, r1, r2}
  R0 = r0
  One <- MCOne
  Imms <- MCImms
  MaskUses <- MCMasks
SYMMETRY MCSymmetry
INVARIANT TypeOK
INVARIANT MonitorGuardsWord
PROPERTY FaultsAreConfined
