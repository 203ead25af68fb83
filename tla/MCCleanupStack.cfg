SPECIFICATION FairSpec
CONSTANTS
  main = main
  handler = handler
  other = other
  detach = detach
  remove = remove
  umount = umount
  Goroutine <- MCGoroutine
  Callback <- MCCallback
  NoOwner = NoOwner
INVARIANTS
  TypeOK
  AtMostOnce
  NothingForgotten
  StackInv
PROPERTIES
  ReverseOrder
  UnwindReturns
  RegisteredIsRun
