SPECIFICATION Spec
CONSTANTS
  Blobs <- MCBlobs
  Fit <- MCFit
  Length <- MCLength
  NoBlob = "none"
  Copies = 2
  SlotSectors = 3
  Seek = 1
  DiskSectors = 9
  RerunFirst = TRUE
  Signals = FALSE
  ReadFaults = FALSE
  MaxFaults = 3
  MaxBlobs = 2
INVARIANTS
  NoTailSurvives
CHECK_DEADLOCK FALSE
