SPECIFICATION TpSpec
CONSTANTS
  m1 = m1
  m2 = m2
  k1 = k1
  k2 = k2
  Messages = {m1, m2}
  Keys = {k1, k2}
  Key <- MCDistinct
  PayloadSize <- MCPayloadSize
  MaxSize = 5
  MaxSegment = 2
  MaxCopies = 2
  Absent = Absent
INVARIANTS TpTypeOK ReturnsAMessage NothingStuck 
PROPERTY Promise
