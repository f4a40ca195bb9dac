SPECIFICATION Spec
CONSTANTS
  MaxOptions = 3
  Requests <- MCRequests
  Contents <- MCContents
  Garbage <- MCGarbage
  DefaultContent <- MCDefaultContent
  DefaultLuminance = 3
  MeasuredLuminances = {0, 3}
  NULL = NULL
INVARIANT MemorySafe
INVARIANT NoLeak
INVARIANT ExitCodeTells
INVARIANT CrashesKnown
INVARIANT FileAsAsked
CHECK_DEADLOCK FALSE
