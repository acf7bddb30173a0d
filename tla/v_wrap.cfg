SPECIFICATION Spec
CONSTANTS
  Threads = {"planning", "status", "watchdog"}
  ClockTicks = TRUE
  MaxFaults = 0
INVARIANTS
  NoFalseAlarm
CHECK_DEADLOCK FALSE
