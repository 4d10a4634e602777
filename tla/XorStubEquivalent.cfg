SPECIFICATION Spec
CONSTANT
  Width = 2
INVARIANT PassedMeansEquivalent
