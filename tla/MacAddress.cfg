SPECIFICATION FairSpec
CONSTANTS
  Ports = {"end0", "end1"}
  Slot <- MCSlot
  Radio = "wlan0"
  Listed <- MCListed
  Boxes <- MCBoxes
  WaitTicks = 1
  Polls = 2
INVARIANTS
  TypeOK
  PaysOnce
  NeverFresh
  NetworkSeesOwn
PROPERTIES
  KeepsLabel
  BoxAddress
  NotLeftDown
