SPECIFICATION Spec
CONSTANTS
  a = a
  b = b
  c = c
  State <- MCState
  MaxK = 3
  MaxSkip = 2
  MaxRun = 4
SYMMETRY MCSymmetry
INVARIANT SkipIgnoresWarmupOnly
