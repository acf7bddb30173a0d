SPECIFICATION FairSpec
CONSTANTS
  p1 = p1
  p2 = p2
  Procs = {p1}
  Order <- OneOrder
  Deps <- OneDeps
  Role <- OneRole
  Critical <- OneCritical
  RestartPolicy <- OneAlways
  MaxRestart <- OneMax
  MaxForks = 2
  Faults = {"crash"}
  MaxFaults = 1
  Ops = {"start_proc", "stop_proc", "shutdown"}
  CmdModes = {}
  MaxCommands = 2
  Scheduled = {"monitor"}
PROPERTIES
  CommandAnswered
  ShutdownEnds
  ExitComplete
