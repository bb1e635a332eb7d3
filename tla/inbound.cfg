CONSTANTS
  c1 = c1  c2 = c2
  wa = wa
  Nobody = Nobody
  Consumer = {c1, c2}
  Message = {1, 2}
  Group <- OneWallet
  Hopeless = {1}
  MaxMessages = 2
  Concurrency = 1
  VisibilityTimeout = 3
  HandlerTimeout = 2
  MaxReceiveCount = 2
SPECIFICATION FairSpec
INVARIANTS
  TypeOK
  DeletedMeansRecorded
PROPERTIES
  CoveredUntilDone
  EveryMessageEnds
