CONSTANTS
  Timeouts <- SomeTimeouts
  Codes = {0, 1}
  MaxTime = 4
SPECIFICATION FairSpec
INVARIANTS
  TypeOK
  KeepsCpuWhileRunning
  ReturnsAfterCommand
PROPERTY
  GivesCpuBack
CHECK_DEADLOCK FALSE
