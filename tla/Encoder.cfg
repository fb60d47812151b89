SPECIFICATION Spec
CONSTANTS
  MaxRows = 4
  MaxPass = 3
  MaxHeaderBits = 2
  MaxSize = 3
INVARIANTS
  EndsCleanly
  StreamIsBest
  StreamIsOfOnePass
PROPERTY
  EncodeReturns
