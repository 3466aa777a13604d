CONSTANTS
  t1 = t1
  t2 = t2
  t3 = t3
  a = a
  b = b
  Threads <- MCThreads
  Addrs <- MCAddrs
  InitMem <- Zeroed
  ArraySize = 100
  Programs <- MCPrograms
  Mutexes = {a}

SPECIFICATION Spec

INVARIANT TypeOK
INVARIANT MutualExclusion
PROPERTY Termination
