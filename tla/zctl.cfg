SPECIFICATION FairSpec
CONSTANTS
  MaxPids = 3
  MaxChunks = 3
  MaxFaults = 2
INVARIANTS TypeOK StatusIsTrue VmIsRecorded
PROPERTIES ReadyMeansListening EvalIsOwn DownIsDown CommandReturns
