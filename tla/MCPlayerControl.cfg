CONSTANTS
  f1 = f1
  Frame = {f1}
  NoFrame = NoFrame
  ExtraFrames = 2
  Leases = 1
  HasAudio = TRUE
  Volumes = {1}
SPECIFICATION LiveSpec
INVARIANTS StatusIsTrue
PROPERTIES FaultStaysVisible SeekEnds ShutdownEnds
