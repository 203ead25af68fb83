SPECIFICATION FairSpec
CONSTANTS
  Faults = {"command", "timeout", "umount", "detach"}
  MaxSignals = 2
INVARIANTS
  TypeOK
  NothingLeftSilently
  CompleteIfAllReleased
  NothingOnHost
  NeverCorrupts
PROPERTIES
  InnermostFirst
  ContentsSurvive
  UsesStack
  Terminates
