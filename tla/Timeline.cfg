CONSTANTS
  Duration <- MCDuration
  ItemCount = 2
  MinSlot = 2
  Settings <- MCSettings
SPECIFICATION TimelineSpec
CHECK_DEADLOCK FALSE
INVARIANT PictureIsTrue
PROPERTY ResumesWhereLeft ResetOnlyAfterAbsence ChoiceIsPlayed GuideIsTrueSoon
