SPECIFICATION PollingSpec
CONSTANTS
  t1 = t1  t2 = t2  r1 = r1  r2 = r2
  NoOne = NoOne
  Threads <- TwoThreads
  Readers <- TwoReaders
  MaxWrites = 2
  MaxLen = 1
  InitFiles <- NewFile
  Faults <- NoFaults
PROPERTY EventuallyDelivered
