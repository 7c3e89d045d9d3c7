SPECIFICATION Spec
CONSTANTS
  Threads = {t1, t2, t3}
  Width = 4
INVARIANTS
  WriterIsAlone
  LockInv
PROPERTIES
  ImplementsFairLock
  EveryRequestIsServed
