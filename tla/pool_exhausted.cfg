\* As many writers as connections.
CONSTANTS
  w1 = w1  w2 = w2  r1 = r1  k1 = k1  k2 = k2
  Callers = {w1, w2}
  Writers = {w1, w2}
  Conns = {k1, k2}
  Free = Free
  Closed = Closed
  Rotations = 0
SPECIFICATION FairSpec
PROPERTIES EveryCallReturns
