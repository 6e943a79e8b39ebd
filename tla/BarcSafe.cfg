SPECIFICATION Spec
CONSTANTS
  t1 = t1  t2 = t2  r1 = r1  r2 = r2
  NoOne = NoOne
  Threads <- TwoThreads
  Readers <- OneReader
  MaxWrites = 2
  MaxLen = 2
  InitFiles <- GoodFiles
  Faults <- AllButShort
INVARIANTS TypeOK DeliveredWhole ReadersNeverErr NoRecordSkipped ReturnedOffsetsGood
PROPERTY AppendOnly
