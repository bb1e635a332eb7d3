CONSTANTS
  c1 = c1  c2 = c2
  wa = wa
  Nobody = Nobody
  Consumer = {c1, c2}
  Message = {1, 2, 3}
  Group <- WalletEach
  Hopeless = {}
  MaxMessages = 3
  Concurrency = 1
  VisibilityTimeout = 2
  HandlerTimeout = 1
  MaxReceiveCount = 2
SPECIFICATION Spec
SYMMETRY ConsumerSymmetry
INVARIANTS
  OneHandlerPerMessage
