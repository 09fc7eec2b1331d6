SPECIFICATION DFairSpec
CONSTANTS
  h1 = h1
  h2 = h2
  Hosts <- BothHosts
  HostList <- InOrder
  ThreadCount = 1
  MachineOf <- OwnMachine
  AsHost <- Itself
  ByDaemon = FALSE
  Slave = TRUE
  SameDir = TRUE
  Faults = {"timeout", "io", "sync_io", "kill", "crash"}
INVARIANTS
  DTypeOK
  NoFalseStart
  FreshResults
PROPERTIES
  DriverEnds
CHECK_DEADLOCK FALSE
