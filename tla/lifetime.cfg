CONSTANTS
  q1 = q1  q2 = q2
  Request = {q1, q2}
SPECIFICATION FairSpec
CHECK_DEADLOCK FALSE
INVARIANTS
  PoolOutlivesItsUsers
  CleanExitLeavesNothing
PROPERTY
  StopsDrain
