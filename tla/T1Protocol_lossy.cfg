CONSTANTS
  s1 = s1  s2 = s2  r1 = r1  r2 = r2
  t1 = t1  t2 = t2
  n1 = n1  n2 = n2
  NoNonce = NoNonce
  Subject = {s1, s2}
  Request = {r1, r2}
  Token = {t1}
  Nonce = {n1}
  Binding = {0}
  TTL = 1
  MaxSessions = 1
  MaxBytes = 1
  PyTTL = 1
  PySessions = 1
  PyBytes = 1
  MaxVersion = 0
  MaxRevision = 1
  Lossy = TRUE
SPECIFICATION Spec
SYMMETRY Symmetric
INVARIANTS NoOrphanReview
PROPERTIES NoReleaseAfterWithdrawal
