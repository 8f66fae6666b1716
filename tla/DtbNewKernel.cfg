SPECIFICATION Spec
CONSTANTS
  Kernels = {k1, k2}
  Trees = {t1, t2}
  Stock = stock
  NoTree = none
  MaxAborts = 0
  MaxUpgrades = 2
  MaxRevisions = 2
PROPERTIES
  NewKernelLoads
