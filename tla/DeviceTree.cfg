SPECIFICATION FairSpec
CONSTANTS
  Kernels = {k1, k2}
  Trees = {t1, t2}
  Stock = stock
  NoTree = none
  MaxAborts = 2
  MaxUpgrades = 2
  MaxRevisions = 2
INVARIANTS
  TypeOK
  OurTreesOnly
  NotNeededIsInstalled
  NotNeededIsTrue
PROPERTIES
  TreeTakesEffect
