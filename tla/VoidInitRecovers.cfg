SPECIFICATION FairSpec
CONSTANTS
  Media <- Good
  Mac <- MCMac
  Faults = {}
  MaxRuns = 3
  MaxCrashes = 2
PROPERTIES
  Configures
INVARIANTS
  EditsSurvive
