CONSTANTS
  f1 = f1
  f2 = f2
  Torn = Torn
  Frames <- MCFrames
  MaxWake = 1
SPECIFICATION MCFairSpec
PROPERTIES EveryFrameEnds StopEndsWorker
CHECK_DEADLOCK FALSE
