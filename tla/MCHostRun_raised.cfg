SPECIFICATION Spec
CONSTANTS
  Hosts = {h1}
  ThreadCount = 2
  MachineOf <- OwnMachine
  Slave = FALSE
  SameDir = FALSE
  Faults = {"io"}
INVARIANTS
  RaisedIsReported
