SPECIFICATION DSpec
CONSTANTS
  h1 = h1
  h2 = h2
  Hosts <- BothHosts
  HostList <- InOrder
  ThreadCount = 1
  MachineOf <- OneMachine
  AsHost <- Itself
  ByDaemon = TRUE
  Slave = TRUE
  SameDir = FALSE
  Faults = {}
INVARIANTS
  NoFalseStart
