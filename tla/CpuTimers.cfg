SPECIFICATION TimersSpec
CONSTANTS
  Addrs = {1, 2}
  Nexts = {0, 2}
  PredSizes = {1}
  MaxBB = 2
  Mems = {3}
  MaxLat = 1
  ILats = {2}
  DcachePorts = 2
  FetchWidth = 2
  CommitWidth = 2
  MaxFtq = 1
  MaxWindow = 3
  PipeStages = 1
  BpredLatency = 0
  Lookahead = 1
  MaxBuffer = 2
  Code <- ThreeInstructions
  LineSize = 2
  Repeats = FALSE
  LineLats = {0, 2}
  DLats = {2}
  Ports = 2
  Fetches = 2
  ExecuteWidth = 2
  BufferSize = 3
  Idles = {5}
  MaxIns = 7
  MaxCycles = 10
  Patience = 40
INVARIANT OnPath
INVARIANT Performed
INVARIANT FetchedLine
INVARIANT BlockIntact
INVARIANT BufferSound
PROPERTY Drains
PROPERTY Returns
CHECK_DEADLOCK FALSE
