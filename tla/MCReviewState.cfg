CONSTANTS
  c1 = c1
  c2 = c2
  c3 = c3
  Null = Null
  Absent = Absent
  Torn = Torn
  MaxReview = 2
  MaxFix = 2
  MaxFailures = 1
  Caller <- MCCaller
  Initialiser <- MCInitialiser
  SetTargets <- HookOnly
SPECIFICATION Spec
INVARIANTS TypeOK VerdictMatchesStatus AttemptsBounded
PROPERTY SpentStaysSpent
