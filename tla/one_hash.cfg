CONSTANTS
  p1 = p1  p2 = p2
  w1 = w1  w2 = w2
  documented = documented  other = other
  Spelling = {documented, other}
  Wallet = {w1, w2}
  e1 = e1  r1 = r1  long = long
  k1 = k1  k2 = k2
  t1 = t1
  NoName = NoName
  Null = Null
  Absent = Absent
  NilId = NilId
  NewId = NewId
  Refused = Refused
  Top = 15
  Currency = {brl, usd}
  brl = brl  usd = usd
  NoCurrency = NoCurrency
  Base = 2
  Dot = Dot  Minus = Minus
  MaxLength = 6
  Name = {e1, r1, long, k1, k2}
  TooLong = {long}
  Call = {p1}
  Delivery <- Reworded
  Balance = {0, 1}
  ReferenceId = r1
  MaxInstant = 4
SPECIFICATION Spec
INVARIANTS
  SameOperationSameHash
