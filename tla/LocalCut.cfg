SPECIFICATION Spec
CONSTANTS
  r1 = r1
  r2 = r2
  q1 = q1
  q2 = q2
  i = i
  GoldReg <- MCGoldReg
  GateReg <- MCGateReg
  Input <- MCInput
  ChildOut = {TRUE, FALSE}
  GoldNetlist <- MCGoldNetlist
  GateNetlist <- MCGateNetlist
  k_induct = 1
  StepSkip <- MCStepSkip
  MaxItems = 2
SYMMETRY MCSymmetry
INVARIANT TypeOK
INVARIANT StrictFallbackIsSound
INVARIANT AuthoritativeIsSound
PROPERTY FallbackKeepsAgreement
