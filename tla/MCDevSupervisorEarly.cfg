CONSTANTS
  N = 3
  MayBeMissing <- Nobody
SPECIFICATION FairSpec
PROPERTY IfAnyDies
CHECK_DEADLOCK FALSE
