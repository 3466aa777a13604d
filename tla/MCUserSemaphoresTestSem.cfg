CONSTANTS
  t1 = t1
  t2 = t2
  t3 = t3
  a = a
  b = b
  Threads <- MCThreads
  Addrs <- MCAddrs
  InitMem <- Garbage
  ArraySize = 100
  Programs <- TestSem
  Mutexes = {a}

SPECIFICATION Spec

INVARIANT SemaphoreIndexValid
