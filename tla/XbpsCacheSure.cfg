SPECIFICATION Spec
CONSTANTS
  k1 = k1
  k2 = k2
  xbpsTools <- MCTools
  Key <- MCKey
  Latest = 5
  ToolsOf <- MCToolsOf
  KeyDirectory <- MCKeyDirectory
  KeysOf <- MCKeysOf
  Hosts <- MCHosts
  MaxRuns = 1
  MaxCuts = 0
INVARIANTS
  MadeSure
