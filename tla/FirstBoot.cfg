SPECIFICATION FairSpec
CONSTANTS
  Packages = {"ir", "wifi", "usb", "phy"}
  Provided = {"phy"}
  Conflict = {"usb"}
  MaxFaults = 3
INVARIANTS
  TypeOK
  LoadersIntact
  ConflictNeverBuilt
PROPERTIES
  DriversGetBuilt
