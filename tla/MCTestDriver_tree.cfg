SPECIFICATION DSpec
CONSTANTS
  h1 = h1
  h2 = h2
  Hosts <- BothHosts
  HostList <- InOrder
  ThreadCount = 1
  MachineOf <- OwnMachine
  AsHost <- Itself
  ByDaemon = FALSE
  Slave = TRUE
  SameDir = FALSE
  Faults = {"timeout"}
INVARIANTS
  TreesReady
