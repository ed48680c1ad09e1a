SPECIFICATION Spec
CONSTANTS
  SrcFiles <- TwoSrc
  Assert <- AssertFile
  TestFiles <- TwoTests
  Fragile <- AnyUserFile
  Modes <- Every
  MaxRuns = 1
  MaxInterrupts = 0
CHECK_DEADLOCK FALSE
INVARIANT WindowIsOwn
PROPERTY ImplementsBattery
