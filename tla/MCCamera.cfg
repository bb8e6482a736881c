CONSTANTS
  Count = 3
  UseBarcode = TRUE
  MaxGen = 2
  MaxReaders = 1
SPECIFICATION LiveSpec
INVARIANTS CaptureInv ResultsAreCurrent
PROPERTIES RequestsSettle ShutdownEnds
