\* A merge; half frames.
CONSTANTS
  MaxParticipant = 2
  Frame = 2
  Delay = 1
SPECIFICATION FairSpec
INVARIANTS
  TypeOK
  OldAudioBound
  EgressCleanedUp
PROPERTIES
  EndsForCause
  MergeTakesOver
  StopReturns
