SPECIFICATION Spec
CONSTANTS
  NumSecs = 3
  SecRecs = 2
  Averaging = 2
  Requests = {3,7}
  MaxSerial = 7
  MaxRequests = 2
  MaxClears = 1
  MaxCrashes = 1
INVARIANTS
  TypeOK
  RestartFindsPlace
  RecordOnErased
  NewestFirst
  NothingLeftOut
PROPERTY
  ReadoutStops
