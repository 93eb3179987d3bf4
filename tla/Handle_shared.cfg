SPECIFICATION Spec
CONSTANTS
  Threads = {t1, t2}
  Addrs = {a1, a2}
  NoThread = NoThread
  NoAddr = NoAddr
  MaxCalls = 3
  MaxInits = 2
  Freedoms = {}
INVARIANTS
  TypeOK
  OneCallInside
  LockIsReleased
  TornDownOnce
  NoUseAfterFree
PROPERTIES
  CallsReturn
CHECK_DEADLOCK FALSE
