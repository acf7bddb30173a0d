SPECIFICATION FairSpec
CONSTANTS
  Threads = {"ipc", "status", "watchdog"}
  ClockTicks = FALSE
  MaxFaults = 1
INVARIANTS
  TypeOK
  CriticalFailureKept
PROPERTIES
  StallFound
  FailureEnds
  DegradedTold
CHECK_DEADLOCK FALSE
