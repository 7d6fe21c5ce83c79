SPECIFICATION FairSpec
CONSTANTS
  n1 = n1
  n2 = n2
  Nodes = {n1, n2}
  QMin = 1
  Quanta = {1}
  QMax = 1
  MedQuantum = 1
  Overshoot = 0
  MaxGT = 2
  Faults = {}
  AskTime = {n1}
  CpuidArgs = {}
  Terminators = {}
PROPERTY BarrierOpens
