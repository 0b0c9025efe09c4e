\* Room for one job and two offers in flight: one job too many can arrive.
CONSTANTS
  Job = {j1, j2}
  Runner <- OneRunner
  JobOf <- OwnJob
  NoRunner = NoRunner
  MaxConcurrentJobs = 1
  Window = 2
SPECIFICATION Spec
SYMMETRY JobSymmetry
INVARIANTS
  TypeOK
  LateAdvertBound
  RegistrySound
  RegistryExact
  DrainIsClean
  DrainLosesNothing
PROPERTY
  AdmissionSpec
