SPECIFICATION Spec
CONSTANTS
  Threads = {t1, t2}
  Iterations = 3
  FilesBetweenChecks = 2
  FilesPerDir = 3
  RqPerFile = 1
  StonewallOn = TRUE
  FinishAllRq = FALSE
  DirsOnDemand = FALSE
  SameDir = FALSE
  ClockAdvances = FALSE
  IOFaults = FALSE
  None = None
INVARIANTS
  EndTestOnce
