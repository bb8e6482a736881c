CONSTANTS
  f1 = f1
  f2 = f2
  f3 = f3
  Frame = {f1, f2, f3}
  NoFrame = NoFrame
  ExtraFrames = 3
  Leases = 3
  HasAudio = FALSE
  Volumes = {}
SPECIFICATION OrderSpec
SYMMETRY Frames
INVARIANTS OneDeferred
PROPERTIES ShownInOrder PreservedIsKept
