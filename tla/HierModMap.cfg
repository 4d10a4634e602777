SPECIFICATION Spec
CONSTANTS
  a = a
  b = b
  c = c
  s = s
  t = t
  Root = Root
  Base <- MCBase
  Sig <- MCSig
  MaxLines = 2
SYMMETRY MCSymmetry
INVARIANT TypeOK
INVARIANT OneToOne
INVARIANT EveryModuleListed
INVARIANT NoMatchLeft
INVARIANT CecPairsAreMapped
PROPERTY PairsAreFinal
