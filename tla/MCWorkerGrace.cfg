\* One job and a shutdown that does not come from a signal.
CONSTANTS
  Job = {j1}
  Runner <- OneRunner
  JobOf <- OwnJob
  NoRunner = NoRunner
  MaxConcurrentJobs = 1
  Window = 1
SPECIFICATION Spec
INVARIANT
  DrainGrace
