SPECIFICATION Spec
CONSTANTS
  n1 = n1
  n2 = n2
  Nodes = {n1, n2}
  QMin = 1
  Quanta = {1, 2}
  QMax = 2
  MedQuantum = 1
  Overshoot = 1
  MaxGT = 3
  Faults = {"lost_stamp", "port_change", "send_error"}
  AskTime = {}
  CpuidArgs = {}
  Terminators = {}
INVARIANT TypeOK
INVARIANT BoundedSkew
PROPERTY JoinedStays
PROPERTY ImplementsBarrier
SYMMETRY Symmetric
