SPECIFICATION Spec
CONSTANTS
  Features = {"futio"}
  Responses <- MCResponses
  MaxServed = 3
  MaxDecoded = 3
  FileOf <- MCFileOf
  Setups <- FetchSetups
  Ids <- MCIds
  Capacity = 5
INVARIANT ConvertsBack
CHECK_DEADLOCK FALSE
