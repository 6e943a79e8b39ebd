SPECIFICATION Spec
CONSTANTS
  t1 = t1  t2 = t2  r1 = r1  r2 = r2
  NoOne = NoOne
  Threads <- OneThread
  Readers <- OneReader
  MaxWrites = 3
  MaxLen = 1
  InitFiles <- AnyFiles
  Faults <- ShortFaults
INVARIANT SessionRecordsWhole
