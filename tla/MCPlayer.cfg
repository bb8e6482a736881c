CONSTANTS
  f1 = f1
  f2 = f2
  Frame = {f1, f2}
  NoFrame = NoFrame
  ExtraFrames = 2
  Leases = 2
  HasAudio = FALSE
  Volumes = {}
SPECIFICATION Spec
SYMMETRY Frames
INVARIANTS FramesAreSafe
PROPERTIES QueuedIsKept
