SPECIFICATION FairSpec
CONSTANTS
  s1 = s1
  s2 = s2
  t1 = t1
  Nothing = Nothing
  SrcFiles <- Src
  TestFiles <- Tests
  MaxSaves = 2
  MaxWarmups = 2
  MaxResets = 1
  MaxFails = 1
CHECK_DEADLOCK FALSE
INVARIANTS TypeOK QuietIsCurrent
PROPERTIES SnapshotIsReady SnapshotAdvances ComesToRest
