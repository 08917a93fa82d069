CONSTANTS
  p1 = p1
  p2 = p2
  p3 = p3
  None = None
  Proc <- MCProc
  MaxWait = 2
  MayCrash <- Nobody
  MayTerm <- Nobody
SPECIFICATION Spec
INVARIANT MutualExclusion
CHECK_DEADLOCK FALSE
