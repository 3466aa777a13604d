CONSTANTS
  w1 = w1
  w2 = w2
  r1 = r1
  NoThread = NoThread
  Threads <- MCThreads
  MaxStringSize = 3
  Input <- MCInput
  UserStrings = {1, 2}
  GetSizes = {1, 3}
  IntValues <- MCIntValues
  Ops <- MCOps
  MaxCalls = 1

SPECIFICATION Spec

INVARIANT TypeOK
INVARIANT PutNeverBusy
INVARIANT StringsWhole
INVARIANT LinesWhole
PROPERTY Termination
PROPERTY AbstractConsoleSpec
