SPECIFICATION FairSpec
CONSTANTS
  Features = {"futio"}
  Responses <- MCResponses
  MaxServed = 3
  MaxDecoded = 3
  FileOf <- MCFileOf
  Setups <- MCSetups
  Ids <- MCIds
  Capacity = 5
INVARIANTS TypeOK TimeoutJustified DialogWithinLimits DecodedAccountsForBody ConvertsBackUnlessDecoded DeliveredInOrder CompleteAtSuccess FilesKept
PROPERTY EndsUnderTimeouts
CHECK_DEADLOCK FALSE
