SPECIFICATION Spec
CONSTANTS
  p1 = p1
  p2 = p2
  Procs = {p1}
  Order <- OneOrder
  Deps <- OneDeps
  Role <- OneRole
  Critical <- OneCritical
  RestartPolicy <- OneAlways
  MaxRestart <- OneMax
  MaxForks = 2
  Faults = {"crash"}
  MaxFaults = 1
  Ops = {"restart", "shutdown"}
  CmdModes = {}
  MaxCommands = 2
  Scheduled = {"monitor", "poll"}
INVARIANTS
  TypeOK
  RecordConsistent
  PidsUnreaped
  RestartBudget
PROPERTIES
  LifecycleSpec
