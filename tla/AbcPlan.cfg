SPECIFICATION Spec
CONSTANT Cost <- MCCost
INVARIANT TypeOK
INVARIANT VerdictMatchesReference
INVARIANT DecidingRunProves
INVARIANT FailureIsReported
INVARIANT SampleIsLabelled
PROPERTY ExecutedOnce
PROPERTY ImplementsPairProof
