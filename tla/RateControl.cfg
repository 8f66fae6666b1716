SPECIFICATION FairSpec
CONSTANTS
    Table <- MCTable
    MaxRungs = 6
    Floor = 1
    FastOnly = FALSE
    Peers <- MCPeers
    Links <- MCLinks
    MinTries = 3
    Step = 1
    Down = 1
    Loads = {0, 1, 3}
    Pins <- MCPins
    MaxEvents = 1
INVARIANTS
    TypeOK
    BackoffBounded
    OnLadder
PROPERTIES
    Settles
    KeepsProbing
  
