CONSTANTS
  g1 = g1  g2 = g2
  Nobody = Nobody
  Worker = {g1, g2}
  Reversal = {1}
  BatchSize = 1
  ClaimLease = 2
  RetryBaseDelay = 1
  RetryMaxDelay = 2
  MaxAttempts = 2
  TTL = 3
  Horizon = 1
  AttemptCap = 4
SPECIFICATION FairSpec
INVARIANTS
  TypeOK
  LookedForWithinLimit
  RefusedOnlyAfterBudget
PROPERTIES
  ConclusionStands
  EveryWaitEnds
