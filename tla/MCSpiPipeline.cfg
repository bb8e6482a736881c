CONSTANTS
  f1 = f1
  f2 = f2
  f3 = f3
  Torn = Torn
  Frames <- MCFrames
  MaxWake = 1
SPECIFICATION MCSpec
SYMMETRY FrameSymmetry
INVARIANTS XferInv RingInv
PROPERTIES EventsHonoured DmaPixelsStable ReceiptIsTrue QuarantineHolds
CHECK_DEADLOCK FALSE
