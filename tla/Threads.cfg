SPECIFICATION FairSpec
CONSTANTS
  n1 = n1
  n2 = n2
  Nodes = {n1, n2}
  Timers = {"heartbeat"}
  QMin = 1
  Quanta = {1}
  QMax = 1
  FreeRun = 1
  MaxGT = 4
INVARIANT Announced
INVARIANT RacedSkew
PROPERTY BarrierHonoured
PROPERTY EventuallyTold
CHECK_DEADLOCK FALSE
