SPECIFICATION FairSamplingSpec
CONSTANTS
  Samplers <- Kinds
  NetQ = 3
  Late = 1
  MaxSamples = 0
  MaxNanos = 6
  Zones = 2
  MaxTime = 9
INVARIANT Armed
PROPERTY UnbrokenLength
PROPERTY Stops
CHECK_DEADLOCK FALSE
