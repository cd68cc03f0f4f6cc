CONSTANTS
  None = None
  wording = wording
  structure = structure
  t1 = t1  t2 = t2  t3 = t3
  Token = {t1, t2, t3}
  DefaultChoice = wording
  Choice = {wording, structure}
  MaxRevision = 8
SPECIFICATION FairSpec
INVARIANTS HoldsWhatItShows NoTokenForgotten ShownForChoice
PROPERTIES RestsUntilTheUserActs TokenLetGo BusyEnds
CHECK_DEADLOCK FALSE
