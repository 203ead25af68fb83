SPECIFICATION Spec
CONSTANTS
  Faults = {}
  MaxSignals = 0
INVARIANTS
  BuiltImageCanBeReused
