\* A flow of two jobs, one of a job that is not submitted, one without that is made
\* meanwhile; two read at once.
CONSTANTS
  a = a
  b = b
  None = None
  Flow = {1, 2, 3}
  Made = {1, 2}
  Edited = {2}
  Run = {1}
  JobsOf <- MCJobsOf
  Uuid <- MCUuid
  TagArgs <- MCTagArgs
  Program <- MCProgram
  SlurmId <- MCSlurmId
  Parallelism = 2
  Filters <- MCFilters
  MaxLimit = 2
SPECIFICATION Spec
INVARIANTS TypeOK NewAllOrNothing EveryFlowListed NewestFirst RollupFinal RowFindsItself ViewsAgree
