SPECIFICATION FairSpec
CONSTANTS
  p1 = p1 p2 = p2
  t1 = t1 t2 = t2
  Paths = {p1, p2}
  Threads = {t1, t2}
  MaxOpen = 1
  IdleTTL = 1
  MaxAge = 1
PROPERTIES UnwantedHandlesClose MutexesAreReleased LeaseSpec
