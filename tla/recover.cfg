SPECIFICATION FairSpec
CONSTANTS
  p1 = p1
  p2 = p2
  Procs = {p1}
  Order <- OneOrder
  Deps <- OneDeps
  Role <- OneRole
  Critical <- OneIsCritical
  RestartPolicy <- OneNever
  MaxRestart <- OneMax
  MaxForks = 2
  Faults = {"crash", "hang", "sick"}
  MaxFaults = 1
  Ops = {"start_proc", "stop_proc", "stop"}
  CmdModes = {}
  MaxCommands = 2
  Scheduled = {"monitor", "poll"}
PROPERTIES
  RecoversFromDegraded
  ZombieReaped
  CriticalExitReported
  StopComplete
