SPECIFICATION Spec
CONSTANTS
  p = p
  q = q
  i = i
  Pair <- MCPair
  Param <- MCParam
  Impl <- MCImpl
  ImplParam <- MCImplParam
  MaxCells = 2
SYMMETRY MCSymmetry
INVARIANT TypeOK
INVARIANT NothingUnverifiedIsHidden
INVARIANT MultipliersAgree
INVARIANT SidesChangeTogether
