SPECIFICATION FairSpec
CONSTANTS
  k1 = k1
  k2 = k2
  xbpsTools <- MCTools
  Key <- MCKey
  Latest = 5
  ToolsOf <- MCToolsOf
  KeyDirectory <- MCKeyDirectory
  KeysOf <- MCKeysOf
  Hosts <- MCHosts
  MaxRuns = 3
  MaxCuts = 1
INVARIANTS
  TypeOK
  OnlyVerifiedInstalled
  Available
  UpdateIsExact
  FailureKeepsCache
  NotFoundOnlyOffPath
  NothingLeftInTmp
PROPERTIES
  RunEnds
