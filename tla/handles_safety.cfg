SPECIFICATION Spec
CONSTANTS
  p1 = p1 p2 = p2 p3 = p3
  t1 = t1 t2 = t2
  Paths = {p1, p2, p3}
  Threads = {t1, t2}
  MaxOpen = 1
  IdleTTL = 1
  MaxAge = 1
SYMMETRY Symmetry
INVARIANTS LeasedHandleStaysOpen RefsCountLeases OpenMapAgrees OvershootBounded
