SPECIFICATION FairSpec
CONSTANTS
  Threads = {t1, t2}
  Iterations = 4
  FilesBetweenChecks = 2
  FilesPerDir = 2
  RqPerFile = 1
  StonewallOn = TRUE
  FinishAllRq = TRUE
  DirsOnDemand = TRUE
  SameDir = FALSE
  ClockAdvances = TRUE
  IOFaults = TRUE
  None = None
INVARIANTS
  EndTestOnce
  FinishCompletes
PROPERTIES
  RaceSpec
  AllMeasured
