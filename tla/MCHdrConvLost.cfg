CONSTANTS
  Files = {f1, f2}
  Full = 2
  MaxSessions = 2
  MaxTries = 2
  QueueMax = 6
  Stride = 2
  Avif = Avif
  None = None
SPECIFICATION Spec
PROPERTY AllConverted
CHECK_DEADLOCK FALSE
