SPECIFICATION Spec
CONSTANTS
  Features = {"futio"}
  Responses <- MCResponses
  MaxServed = 3
  MaxDecoded = 3
  FileOf <- MCFileOf
  Setups <- SelectSetups
  Ids <- MCIds
  Capacity = 5
INVARIANT CountOfRecords
CHECK_DEADLOCK FALSE
