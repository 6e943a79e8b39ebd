SPECIFICATION Spec
CONSTANTS
  i1 = i1  i2 = i2  r1 = r1  r2 = r2
  None = None
  Images <- TwoImages
  Readers <- TwoReaders
  MaxOffered = 4
  MaxLen = 2
  Faults <- IoFaults
INVARIANTS TypeOK ReadAllOfLen
PROPERTY BufferSpec
CHECK_DEADLOCK FALSE
