SPECIFICATION Spec
CONSTANTS
  MaxJobs = 2
  MaxCores = 3
PROPERTY Completes
