SPECIFICATION Spec
CONSTANTS
  Size = 1
  Space = 3
  MaxIns = 6
  MaxPools = 2
  Hold = 1
  Timers = {"timer0", "timer_dep"}
  Shapes = {"load", "prefetch", "cpuid", "asm", "unknown"}
  MaxCode = 4
INVARIANT InOrder
INVARIANT HistoryIntact
INVARIANT Attached
INVARIANT HeldIntact
CHECK_DEADLOCK FALSE
