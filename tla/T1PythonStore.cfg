CONSTANTS
  n1 = n1  n2 = n2  n3 = n3
  w1 = w1  w2 = w2
  Nonce = {n1, n2, n3}
  Worker = {w1, w2}
  PyTTL = 2
  PySessions = 2
  PyBytes = 3
  TextBytes = {1, 2}
  PyMaxTime = 3
SPECIFICATION FairSpec
INVARIANTS TextWithinLimits ExpiryCovered LeasedOnce
PROPERTIES PassedMeansHeld EveryTextForgotten
