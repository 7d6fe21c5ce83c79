SPECIFICATION FairSpec
CONSTANTS
  n1 = n1
  n2 = n2
  p1 = p1
  p2 = p2
  Nodes = {n1, n2}
  Packets = {p1, p2}
  NoPacket = NoPacket
  Delays = {3}
  QMin = 4
  QMax = 8
  QUp = 2
  QDown = 2
  ForceQueue = FALSE
  Ticks = {0, 1}
  MaxGT = 6
INVARIANT Accounted
INVARIANT QuantumFloor
PROPERTY Delivered
CHECK_DEADLOCK FALSE
