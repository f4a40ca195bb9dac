CONSTANTS
  NaN = NaN
  ErrorTerms = {0, 1, 2}
  GammaFirst = 2
  GammaLast = 6
  TaskLimit = 3
  Slots = {0, 1, 2}
  MaxLuminance = 1
SPECIFICATION FairSpec
INVARIANTS TypeOK NoOrphanThread MinIsBest Answered
PROPERTIES TaskSpec ScanImplemented Terminates
