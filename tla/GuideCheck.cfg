SPECIFICATION CheckSpec
CONSTANTS
  a = a
  b = b
  s = s
  Root = Root
  Base <- MCBase
  Sig <- MCSig
  MaxLines = 1
SYMMETRY MCSymmetry
INVARIANT CheckTypeOK
INVARIANT PassedMeansProved
INVARIANT BoxesComeInPairs
INVARIANT AssertAgreesWithReport
INVARIANT ReportedRunCleansUp
