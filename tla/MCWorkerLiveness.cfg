\* One offer at a time: then the limit is never passed.  Only main is scheduled
\* fairly: jobs, server and network may hang.
CONSTANTS
  Job = {j1, j2}
  Runner <- OneRunner
  JobOf <- OwnJob
  NoRunner = NoRunner
  MaxConcurrentJobs = 1
  Window = 1
SPECIFICATION ShutdownSpec
INVARIANTS
  OverCommitBound
PROPERTIES
  ShutdownCompletes
  CancelledJobLeaves
