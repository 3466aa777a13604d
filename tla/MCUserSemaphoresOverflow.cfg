CONSTANTS
  t1 = t1
  t2 = t2
  t3 = t3
  a = a
  b = b
  Threads <- MCThreads
  Addrs <- ManyAddrs
  InitMem <- ManyZeroed
  ArraySize = 100
  Programs <- ManyInits
  Mutexes = {a}

SPECIFICATION Spec

INVARIANT SemaphoreIndexValid
