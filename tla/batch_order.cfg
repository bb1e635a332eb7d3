CONSTANTS
  c1 = c1  c2 = c2
  wa = wa
  Nobody = Nobody
  Consumer = {c1, c2}
  Message = {1, 2}
  Group <- OneWallet
  Hopeless = {}
  MaxMessages = 2
  Concurrency = 2
  VisibilityTimeout = 2
  HandlerTimeout = 1
  MaxReceiveCount = 2
SPECIFICATION Spec
SYMMETRY ConsumerSymmetry
INVARIANTS
  HandledInOrder
