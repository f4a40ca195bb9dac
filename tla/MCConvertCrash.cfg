SPECIFICATION Spec
CONSTANTS
  MaxOptions = 3
  Requests <- MCRequests
  Contents <- MCContents
  Garbage <- MCGarbage
  DefaultContent <- MCDefaultContent
  DefaultLuminance = 3
  MeasuredLuminances = {0, 3}
  NULL = NULL
INVARIANT ErrorsAreReported
CHECK_DEADLOCK FALSE
