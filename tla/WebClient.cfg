CONSTANTS
  None = None
  p1 = p1  p2 = p2
  f1 = f1  f2 = f2
  us = us  gb = gb  low = low
  wording = wording  structure = structure
  a = a  b = b
  Peer = {p1, p2}
  Candidate = {p2}
  Threads <- MCThreads
  Fixture = {us, gb, low}
  Excerpt = gb
  DefaultFixture = us
  Profile = {wording, structure}
  DefaultProfile = wording
  rateLimitMax = 2
  rateLimitWindow = 3
  MaxCalls = 2
  MaxSent = 1
  Field = {f1, f2}
  Value = {a, b}
  StepFields <- MCStepFields
  MaxSaves = 2
SPECIFICATION FairSpec
INVARIANTS ShownAsSelected RateHolds ThreadShown LinksKept KeptAsShown
PROPERTIES LoadingEnds
