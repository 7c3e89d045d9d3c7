SPECIFICATION MCSpec
CONSTANTS
  a = a
  b = b
  t1 = t1
  t2 = t2
  NoKey = NoKey
  NoThread = NoThread
  Threads = {t1, t2}
  Keys = {a, b}
  First <- SameStart
  Step <- BothStrides
  InitialCapacity = 2
  Lengths = {4}
  Operations = {"push", "contains", "erase", "clear", "resize"}
  Calls <- ThreeAndTwo
  FailingAllocations = TRUE
  FirstValue <- Key0
  Layouts <- Containers
  HashCapacity = 1
  Tokens = {0, 1}
  NoToken = NoToken
INVARIANTS
  KeysAreFindable
  SizeIsExact
  ElectionIsSound
  EdgesAreCounted
PROPERTIES
  ImplementsAtomicSet
  CallsEnd
  ContainerIsAtomicSet
