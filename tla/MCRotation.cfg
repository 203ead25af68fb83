SPECIFICATION Spec
CONSTANTS
  maxLogSize = 3
  maxLogBackups = 3
  Length <- MCLength
  MaxLines = 6
  MaxStarts = 3
INVARIANTS
  TypeOK
  Ordered
  OnlyOldestLost
  SizeBound
  SizeTracked
