CONSTANTS
  w1 = w1
  w2 = w2
  r1 = r1
  NoThread = NoThread
  Threads <- MCThreads
  MaxStringSize = 3
  Input <- MCLongLine
  UserStrings = {1, 2}
  GetSizes = {1, 4}
  IntValues <- MCIntValues
  Ops <- MCOps
  MaxCalls = 1

SPECIFICATION Spec
INVARIANT KernelBufferInBounds
