CONSTANTS
  p1 = p1
  p2 = p2
  p3 = p3
  None = None
  Proc <- MCProc
  MaxWait = 2
  MayCrash <- MCMayCrash
  MayTerm <- MCMayTerm
SPECIFICATION FairSpec
INVARIANTS TypeOK FlockProtects FallbackProtectsUntilBroken
PROPERTIES EveryCommandEnds FlockImplementsAtomicStore
CHECK_DEADLOCK FALSE
