CONSTANTS
  main = main
  Main = main
  NoThread = NoThread
  Threads <- MCThreads
  MaxStringSize = 3
  Input <- MCInputNoQuit
  UserStrings = {1}
  GetSizes = {1}
  IntValues <- MCIntValues
  Ops <- MCOps
  MaxCalls = 0
  Tests = {"SynchConsoleTest"}

SPECIFICATION TestSpec

PROPERTY TestReturns
