SPECIFICATION Spec
CONSTANTS
  Faults = {"umount"}
  MaxSignals = 1
INVARIANTS
  ImageBoots
