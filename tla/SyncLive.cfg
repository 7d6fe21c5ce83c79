SPECIFICATION FairSpec
CONSTANTS
  n1 = n1
  n2 = n2
  Nodes = {n1, n2}
  QMin = 1
  Quanta = {1}
  QMax = 2
  MedQuantum = 2
  Overshoot = 1
  MaxGT = 4
  Faults = {"lost_sync"}
  AskTime = {}
  CpuidArgs = {}
  Terminators = {n1}
PROPERTY WaitersResume
PROPERTY AllReleased
CHECK_DEADLOCK FALSE
