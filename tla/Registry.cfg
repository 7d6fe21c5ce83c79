SPECIFICATION Spec
CONSTANTS
  m1 = m1
  m2 = m2
  g2 = g2
  d1 = d1
  d2 = d2
  e2 = e2
  c1 = c1
  c2 = c2
  NoMac = NoMac
  NoAddr = NoAddr
  Ids = {1, 2}
  Macs = {m1, m2, g2}
  MacBase <- Bases
  MacsOf <- Cards
  Addrs = {d1, d2, e2, c1, c2}
  DataPorts <- Ports
  CtrlPort <- SharedCtrl
  MaxNodes = 3
  MaxTime = 1
INVARIANT OneEntry
INVARIANT OwnStamps
INVARIANT Located
CHECK_DEADLOCK FALSE
