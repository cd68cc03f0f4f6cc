CONSTANTS
  ann = ann  ben = ben  eve = eve
  f1 = f1  f2 = f2
  q1 = q1  q2 = q2
  User <- MCUser
  Field <- MCField
  Seed <- MCSeed
  Request = {q1, q2}
  Kinds = {"conversation", "message", "report", "profile", "onboarding", "matches", "waitlist", "seeds"}
  Faults = {"crash", "read"}
SPECIFICATION Spec
SYMMETRY Symmetric
INVARIANTS FileConsistent AcknowledgedKept
PROPERTIES CalmBlockRespected
