CONSTANTS
  s1 = s1
  s2 = s2
  s3 = s3
  Null = Null
  Absent = Absent
  Story <- MCStory
  Position <- MCPosition
  DependsOn <- MCDependsOn
  Required <- MCRequired
  MaxReview = 2
  MaxFix = 2
  MaxAttempts = 1
  TurnsPerStory = 1
  SparedTurns = 1
  OtherChecks <- AlwaysGreen
  Found <- FinishedOnly
  MayInterrupt = FALSE
  MaxSessions = 1
  MaxEdits = 1
  MaxFailures = 0
SPECIFICATION FairSpec
PROPERTY FinishedIsHandedOver
CHECK_DEADLOCK FALSE
