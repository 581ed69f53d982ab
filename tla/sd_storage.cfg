SPECIFICATION Spec
CONSTANTS
  p = p
  q = q
  Paths <- MCPaths
  Data <- MCData
  Zero = 0
  CardSectors = 2
  Lbas = {0, 2}
  FirstDisks <- MCSmallDisks
  NewSizes = {1}
SYMMETRY MCSymmetry
INVARIANT TypeOK
INVARIANT PromisesKept
INVARIANT CardShowsImage
