SPECIFICATION FairSpec
CONSTANTS
  SrcFiles <- OneSrc
  Assert <- AssertFile
  TestFiles <- OneTest
  Fragile <- OneBreaks
  Modes <- Every
  MaxRuns = 2
  MaxInterrupts = 2
CHECK_DEADLOCK FALSE
INVARIANTS TypeOK LogOrder LeavesDaemonListening
PROPERTIES ProbeMeansListening BootstrapStartsClean ScriptTerminates
