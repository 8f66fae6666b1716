SPECIFICATION BuildSpec
CONSTANTS
  Names <- MCNames
  Paths <- MCPaths
  Labels <- MCLabels
  Props <- MCProps
  Orders <- MCOrders
  Bases <- MCBases
  Targets <- MCTargets
INVARIANTS
  VerifiedIsSame
  Regenerates
CHECK_DEADLOCK FALSE
