SPECIFICATION FairSpec
CONSTANTS
  Tids = {t0, t1}
  HasHE = TRUE
  StaleSec = 10
  QueueSize = 1
  MaxFaults = 1
INVARIANTS
  TypeOK
  OneProbePerTid
PROPERTIES
  Renegotiated
