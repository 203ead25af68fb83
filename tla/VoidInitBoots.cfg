SPECIFICATION Spec
CONSTANTS
  Media <- All
  Mac <- MCMac
  Faults = {"call", "mount"}
  MaxRuns = 2
  MaxCrashes = 1
INVARIANTS
  TypeOK
  UserDataInEffect
  StaticNetworkInEffect
  HostsAddressIsAssigned
