SPECIFICATION FairSpec
CONSTANTS
  Lengths <- UpToTwo
  FifoSize = 4
  BufSize = 3
  Guests <- BothLoops
  MaxPushes = 3
  MaxFaults = 1
CHECK_DEADLOCK FALSE
INVARIANTS TypeOK NoByteLost FramesAreWhole
PROPERTIES DoneIsOwn PushAnswered
