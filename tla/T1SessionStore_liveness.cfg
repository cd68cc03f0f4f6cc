CONSTANTS
  s1 = s1  s2 = s2
  t1 = t1  t2 = t2
  n1 = n1
  b1 = b1
  NoNonce = NoNonce
  Subject = {s1, s2}
  Token = {t1, t2}
  Nonce = {n1}
  Binding = {b1}
  TTL = 2
  MaxSessions = 2
  MaxBytes = 2
  InputBytes = {1}
  InputRemaining = {5}
  EarlyBy = 1
  MaxTime = 3
SPECIFICATION FairSpec
PROPERTIES EverySessionEnds
