SPECIFICATION CheckSpec
CONSTANTS
  a = a
  b = b
  s = s
  Root = Root
  Base <- MCBase
  Sig <- MCSig
  MaxLines = 0
SYMMETRY MCSymmetry
INVARIANT AssertFindsUnproven
