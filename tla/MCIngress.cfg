\* Frames of four samples, packets of up to two frames and one sample.
CONSTANTS
  Frame = 4
  MaxPacket = 9
  MaxSample = 20
SPECIFICATION Spec
INVARIANTS
  TypeOK
  NothingLost
  FramesKeepSamples
