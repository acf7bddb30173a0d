SPECIFICATION Spec
CONSTANTS
  p1 = p1
  p2 = p2
  Procs = {p1}
  Order <- OneOrder
  Deps <- OneDeps
  Role <- OneRole
  Critical <- OneCritical
  RestartPolicy <- OneNever
  MaxRestart <- OneMax
  MaxForks = 2
  Faults = {}
  MaxFaults = 0
  Ops = {"start_proc", "stop_proc"}
  CmdModes = {}
  MaxCommands = 4
  Scheduled = {"monitor"}
INVARIANTS
  NoLostZombie
CHECK_DEADLOCK FALSE
