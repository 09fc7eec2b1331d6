SPECIFICATION Spec
CONSTANTS
  some_prime = 900593
  ThreadCount = 2
  Iterations = 2
  FilesPerDir = 2
  DirsPerDir = 2
  TopCount = 2
  FilesBetweenChecks = 2
  Campaigns <- ThreeCampaigns
  FinishChoices = {TRUE, FALSE}
  MaxSeeds = 2
  MaxFaults = 1
INVARIANTS
  FTypeOK
  CleanupComplete
  NoTempLeft
PROPERTIES
  SequenceSpec
  PutIsAtomic
