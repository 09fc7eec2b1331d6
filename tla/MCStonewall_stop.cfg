SPECIFICATION Spec
CONSTANTS
  Threads = {t1, t2, t3}
  Iterations = 5
  FilesBetweenChecks = 2
  FilesPerDir = 3
  RqPerFile = 1
  StonewallOn = TRUE
  FinishAllRq = FALSE
  DirsOnDemand = TRUE
  SameDir = TRUE
  ClockAdvances = FALSE
  IOFaults = TRUE
  None = None
SYMMETRY Symmetry
INVARIANTS
  TypeOK
  ShortMeasureJustified
  CountsConsistent
  BoundedOverrun
  ResultsRecorded
