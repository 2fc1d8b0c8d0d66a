\* Three polls, the second of which refreshes.
CONSTANTS
  Polls = 3
  RefreshAt = 1
  MaxAnswers = 2
  MaxChanges = 2
SPECIFICATION FairSpec
INVARIANT TypeOK
INVARIANT Askable
INVARIANT ReportTrue
PROPERTY WalkEnds
CHECK_DEADLOCK FALSE
