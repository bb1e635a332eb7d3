CONSTANTS
  a1 = a1  a2 = a2
  w1 = w1  w2 = w2
  ana = ana  bia = bia
  brl = brl  usd = usd
  r1 = r1
  e1 = e1  e2 = e2  e3 = e3  e4 = e4
  k1 = k1  k2 = k2  k3 = k3  k4 = k4
  m1 = m1  m2 = m2
  Opening = Opening
  None = None
  Call = {a1, a2}
  Wallet = {w1}
  Player = {ana, bia}
  Currency = {brl, usd}
  Round = {r1}
  Ext = {e1, e2, e3}
  Key = {k1, k2, k3}
  MaxMoney = 2
  MessageId = {m1}
  Command <- Operations
  Message <- Nothing
  InitialBalance = {1}
SPECIFICATION Spec
SYMMETRY CallSymmetry
INVARIANTS
  TypeOK
  NoStaleDecision
  LedgerExplainsBalance
  AppliedOnce
  ReversedOnce
  EventsTellTheStory
  AnswersAreDurable
PROPERTIES
  TerminalForGood
  ImplementsWalletLedger
