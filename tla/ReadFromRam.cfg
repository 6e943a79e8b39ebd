SPECIFICATION Spec
CONSTANTS
  MaxBodyRam = 2
  MaxBody = 4
  BufferRam = 2
  UsizeMax = 1000
  Spare = 1
  MaxSource = 8
  MaxRead = 3
  Faults <- NoFaults
INVARIANT RamLimit
CHECK_DEADLOCK FALSE
