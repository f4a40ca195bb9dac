CONSTANTS
  TaskLimit = 3
  Slots = {0, 1, 2}
  MaxPixels = 7
SPECIFICATION FairSpec
INVARIANTS TypeOK NoRace Converted
PROPERTIES TaskSpec Returns
