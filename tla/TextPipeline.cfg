CONSTANTS
  Category <- MCCategory
  Label <- MCLabel
  Rules <- MCRules
  Residual <- MCResidual
  Fold <- MCFold
  InlineTag = {"de", "zz"}
  SafeTag = {"de"}
  MAX_TEXT_CHARACTERS = 5
  MAX_LANGUAGE_SEGMENTS = 2
  MAX_REDACTION_CATEGORIES = 2
  Cues <- MCCues
  Bound <- MCBound
  MAX_CUES = 2
  Reach = 2
  Text <- MCText
  Declared = {"en-GB"}
  Profile = {"wording"}
  Fixture <- MCFixture
  Task = {"draft", "excerpt"}
  DetectorTag = {"en-GB", "de"}
  Detected <- MCDetected
SPECIFICATION TextSpec
INVARIANTS MergeSound RedactsExactly OnlyMinimised CuesWellChosen QuotesDoNotCount
