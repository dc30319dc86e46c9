SPECIFICATION Spec
CONSTANTS
  NumSecs = 2
  SecRecs = 2
  Averaging = 1
  Requests = {2}
  MaxSerial = 2
  MaxRequests = 1
  MaxClears = 0
  MaxCrashes = 0
PROPERTY
  ReaderIsTold
