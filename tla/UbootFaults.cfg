SPECIFICATION FairSpec
CONSTANTS
  Blobs <- MCBlobs
  Fit <- MCFit
  Length <- MCLength
  NoBlob = "none"
  Copies = 2
  SlotSectors = 3
  Seek = 1
  DiskSectors = 9
  RerunFirst = FALSE
  Signals = TRUE
  ReadFaults = TRUE
  MaxFaults = 2
  MaxBlobs = 2
INVARIANTS
  WrittenIsExact
PROPERTIES
  SlotsBecomeCurrent
CHECK_DEADLOCK FALSE
