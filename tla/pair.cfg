SPECIFICATION Spec
CONSTANTS
  p1 = p1
  p2 = p2
  Procs = {p1, p2}
  Order <- TwoOrder
  Deps <- TwoDeps
  Role <- TwoRole
  Critical <- NoneCritical
  RestartPolicy <- MixedPolicy
  MaxRestart <- MCMax
  MaxForks = 3
  Faults = {"crash", "hang", "slow"}
  MaxFaults = 1
  Ops = {"start", "stop_proc", "stop", "mode"}
  CmdModes = {"SAFE", "AUTO"}
  MaxCommands = 3
  Scheduled = {"monitor"}
INVARIANTS
  ActuatorsLastOnFirstOff
PROPERTIES
  StopCompleteEach
  StopsDependantsFirst
  ModeReached
CHECK_DEADLOCK FALSE
