SPECIFICATION DFairSpec
CONSTANTS
  h1 = h1
  h2 = h2
  Hosts <- BothHosts
  HostList <- InOrder
  ThreadCount = 1
  MachineOf <- OwnMachine
  AsHost <- NextHost
  ByDaemon = TRUE
  Slave = TRUE
  SameDir = FALSE
  Faults = {"timeout", "sync_io"}
PROPERTIES
  DriverEnds
CHECK_DEADLOCK FALSE
