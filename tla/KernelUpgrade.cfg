SPECIFICATION FairSpec
CONSTANTS
  Kernels = {k1, k2}
  ShipsIR = {TRUE, FALSE}
  MaxUpgrades = 2
  MaxFaults = 2
INVARIANTS
  TypeOK
  DefaultDrives
  BuildsHaveTools
PROPERTIES
  DriverReturns
