SPECIFICATION Spec
CONSTANTS
  Media <- Good
  Mac <- MCMac
  Faults = {}
  MaxRuns = 2
  MaxCrashes = 0
INVARIANTS
  DynamicIsServed
