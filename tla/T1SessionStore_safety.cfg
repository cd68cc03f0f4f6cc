CONSTANTS
  s1 = s1  s2 = s2  s3 = s3
  t1 = t1  t2 = t2  t3 = t3
  n1 = n1
  b1 = b1
  NoNonce = NoNonce
  Subject = {s1, s2, s3}
  Token = {t1, t2, t3}
  Nonce = {n1}
  Binding = {b1}
  TTL = 2
  MaxSessions = 2
  MaxBytes = 3
  InputBytes <- MCInputBytes
  InputRemaining <- MCInputRemaining
  EarlyBy = 1
  MaxTime = 3
SPECIFICATION Spec
SYMMETRY Symmetric
INVARIANTS TypeOK OneReviewPerSubject WithinCapacity AbortMeansRemoved TimerCovers
PROPERTIES NeverExtended OnlyOwnerEndsReview EndedNonceHandedBack ImplementsReviewTokens
