SPECIFICATION Spec
CONSTANTS
  SrcFiles <- OneSrc
  Assert <- AssertFile
  TestFiles <- OneTest
  Fragile <- OneBreaks
  Modes <- Serving
  MaxRuns = 2
  MaxInterrupts = 0
CHECK_DEADLOCK FALSE
PROPERTY DoneMeansFinished
