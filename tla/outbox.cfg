CONSTANTS
  p1 = p1  p2 = p2
  Nobody = Nobody
  Publisher = {p1, p2}
  Event = {1, 2}
  Rejected = {1}
  BatchSize = 1
  ClaimLease = 1
  RetryBaseDelay = 2
  RetryMaxDelay = 1
  MaxSkew = 1
  Horizon = 1
  MaxAttempts = 1
SPECIFICATION FairSpec
INVARIANTS
  TypeOK
  ConfirmedMeansSent
PROPERTIES
  ConfirmationStands
  EveryEventDelivered
