SPECIFICATION Spec
CONSTANTS
  MaxJobs = 3
  MaxCores = 3
INVARIANT TypeOK
INVARIANT NoLostWakeup
INVARIANT SafeIndexing
INVARIANT ProcessBound
PROPERTY ImplementsPipeline
PROPERTY CompletesUnlessLeaked
