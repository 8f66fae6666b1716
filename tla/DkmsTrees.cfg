SPECIFICATION FairSpec
CONSTANTS
  ShipsIR = {TRUE, FALSE}
  Wired = FALSE
  Truncations = {"dkms.conf", "patched file"}
  MaxFaults = 4
INVARIANTS
  TypeOK
  Rebuildable
PROPERTIES
  OnlyWholeTreesBuilt
  OnlyDriverComesBack
