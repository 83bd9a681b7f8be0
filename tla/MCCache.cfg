SPECIFICATION Spec
CONSTANTS
  Block <- MCBlock
  Value = {0, 1}
  ZERO = 0
  NR_BUFS = 2
  NR_BUF2 = 2
  NR_IOREQS = 2
  ROOT_DEV = "b"
  RESERVE = 0
  Reads = TRUE
  Writes = 1
  MaxHeld = 1
  MaxUses = 2
INVARIANTS BuffersSound CleanIsOnDisk SyncWorks
PROPERTIES DiskKept CallsEnd
