SPECIFICATION Spec
CONSTANTS
  TextLen = 1
  Headers <- MCHeaders
  Bytes = {"a", "cr", "lf"}
  Records <- MCRecords
  Strategies <- MCStrategies
  Tunes <- MCTunes
  MaxRecord = 19
  MaxHBlock = 11
  MaxReqBody = 4
  MaxHeaders = 2
  ResEstimate = 4
  MaxZ = 2
  MaxWrites = 2
INVARIANTS TypeOK RoundTrip ErrorsJustified RamBodiesFit PanicsOnlyOverLimit CompressedIfWorth
