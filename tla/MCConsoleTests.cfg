CONSTANTS
  main = main
  Main = main
  NoThread = NoThread
  Threads <- MCThreads
  MaxStringSize = 3
  Input <- MCInput
  UserStrings = {1}
  GetSizes = {1}
  IntValues <- MCIntValues
  Ops <- MCOps
  MaxCalls = 0
  Tests = {"ConsoleTest", "SynchConsoleTest"}

SPECIFICATION TestSpec

INVARIANT TestTypeOK
INVARIANT PutNeverBusy
INVARIANT EchoFramed
PROPERTY TestReturns
