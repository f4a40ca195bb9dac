CONSTANTS
  ByteMax = 3
  MaxData = 2
  Lengths = {0, 1, 2, 3, 6, 7, 9}
  MaxMarkers = 4
  Unset = Unset
SPECIFICATION Spec
INVARIANTS TypeOK FoundIsWritten OnlyImageKept
PROPERTY CompleteIsFound
