CONSTANTS
  None = None
  wording = wording
  structure = structure
  t1 = t1  t2 = t2
  Token = {t1, t2}
  DefaultChoice = wording
  Choice = {wording}
  MaxRevision = 6
SPECIFICATION Spec
INVARIANTS ClearAsksServer
CHECK_DEADLOCK FALSE
