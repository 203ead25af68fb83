SPECIFICATION Spec
CONSTANTS
  Faults = {"timeout"}
  MaxSignals = 1
INVARIANTS
  NoLeak
