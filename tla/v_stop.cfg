SPECIFICATION Spec
CONSTANTS
  p1 = p1
  p2 = p2
  Procs = {p1, p2}
  Order <- TwoOrder
  Deps <- TwoDeps
  Role <- TwoRole
  Critical <- NoneCritical
  RestartPolicy <- MCPolicy
  MaxRestart <- MCMax
  MaxForks = 3
  Faults = {"crash"}
  MaxFaults = 1
  Ops = {"start", "stop"}
  CmdModes = {}
  MaxCommands = 2
  Scheduled = {"monitor"}
PROPERTIES
  StopComplete
CHECK_DEADLOCK FALSE
