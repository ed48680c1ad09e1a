SPECIFICATION Spec
CONSTANTS
  SrcFiles <- OneSrc
  Assert <- AssertFile
  TestFiles <- OneTest
  Fragile <- OneBreaks
  Modes <- Resets
  MaxRuns = 2
  MaxInterrupts = 0
CHECK_DEADLOCK FALSE
INVARIANT ResetForcesBootstrap
