CONSTANTS
  a1 = a1  a2 = a2
  w1 = w1
  ana = ana
  brl = brl
  r1 = r1
  e1 = e1  e2 = e2
  k1 = k1  k2 = k2
  m1 = m1
  Opening = Opening
  None = None
  Call = {a1, a2}
  Wallet = {w1}
  Player = {ana}
  Currency = {brl}
  Round = {r1}
  Ext = {e1, e2}
  Key = {k1, k2}
  MaxMoney = 2
  MessageId = {m1}
  Command <- BetAndWin
  Message <- Nothing
  InitialBalance = {1, 2}
  Limit = 1
  MaxSeq = 4
SPECIFICATION SpecReads
SYMMETRY CallSymmetry
INVARIANTS
  HistoryInOrder
  PagesMissNothing
  ReconciliationIsConsistent
