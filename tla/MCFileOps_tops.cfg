SPECIFICATION Spec
CONSTANTS
  some_prime = 900593
  ThreadCount = 2
  Iterations = 3
  FilesPerDir = 2
  DirsPerDir = 2
  TopCount = 2
  FilesBetweenChecks = 2
  Campaigns <- OneCampaign
  FinishChoices = {TRUE, FALSE}
  MaxSeeds = 2
  MaxFaults = 0
INVARIANTS
  TopsSupported
