CONSTANTS
  Snapshots = 2
  Length = 3
  Replays = 1
SPECIFICATION LiveSpec
INVARIANTS PlaybackInv ReplayIsFresh
PROPERTIES NothingSkipped FinalFrameArrives ShutdownEnds
