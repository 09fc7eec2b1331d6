SPECIFICATION FairSpec
CONSTANTS
  Hosts = {h1}
  ThreadCount = 3
  MachineOf <- OwnMachine
  Slave = FALSE
  SameDir = TRUE
  Faults = {"timeout", "io", "sync_io", "kill"}
INVARIANTS
  TypeOK
  NoFalseStart
  TreesReady
PROPERTIES
  AllEnd
CHECK_DEADLOCK FALSE
