SPECIFICATION Spec
CONSTANTS
  n1 = n1
  n2 = n2
  Nodes = {n1, n2}
  QMin = 1
  Quanta = {1}
  QMax = 1
  MedQuantum = 1
  Overshoot = 0
  MaxGT = 2
  Faults = {"dup_stamp"}
  AskTime = {n1, n2}
  CpuidArgs = {0}
  Terminators = {}
INVARIANT ArrivalReported
SYMMETRY Symmetric
