CONSTANTS
  s1 = s1
  s2 = s2
  s3 = s3
  Null = Null
  Absent = Absent
  Story <- MCStory
  Position <- MCPosition
  DependsOn <- MCDependsOn
  Required <- MCRequired
  MaxReview = 2
  MaxFix = 2
  MaxAttempts = 1
  TurnsPerStory = 1
  SparedTurns = 1
  OtherChecks <- AnyAnswer
  Found <- MCFound
  MayInterrupt = TRUE
  MaxSessions = 2
  MaxEdits = 1
  MaxFailures = 1
SPECIFICATION FairSpec
INVARIANTS DependenciesFirst ReviewedIsComplete NothingIsLeftOver NoStaleVerdict FixesAnswerReviews
PROPERTIES StopShowsWhy HandOverNeedsFailure LoopImplementsMilestone SessionEnds
CHECK_DEADLOCK FALSE
