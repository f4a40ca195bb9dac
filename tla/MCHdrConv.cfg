CONSTANTS
  Files = {f1, f2}
  Full = 2
  MaxSessions = 2
  MaxTries = 2
  QueueMax = 3
  Stride = 2
  Avif = Avif
  None = None
SPECIFICATION Spec
INVARIANTS TypeOK NeverPartial SkipIsSafe
PROPERTY AloneConverted
CHECK_DEADLOCK FALSE
