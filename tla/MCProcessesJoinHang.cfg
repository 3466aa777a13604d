CONSTANTS
  m = m  u1 = u1  u2 = u2  u3 = u3  s1 = s1  s2 = s2  s3 = s3
  Threads <- MCThreads
  MainThread = m
  SpaceIds <- MCSpaces
  FirstSpace = s1
  NumPhysPages = 3
  InitPages = 1
  ExecPages = {1, 2}
  NoExec = 0
  PageSize = 4
  UserStackSize = 3
  ThreadStackSize = 1
  Headers <- MCHeaders
  InitProCounter = 0
  InitLivePro = 1
  FirstOps <- FirstProgram
  OtherOps <- OtherProgram
  MaxCalls = 4
SPECIFICATION Spec
CHECK_DEADLOCK FALSE
PROPERTY Termination
