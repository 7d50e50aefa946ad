SPECIFICATION Spec
CONSTANTS
  ByteBits = 2
  Bytes = 3
  V4Bytes = 2
  Invalid = invalid
  Sizes = {3, 4}
  MaxPools = 2
  MaxSlices = 4
  MaxHostBits = 3
  Connectors <- MCConnectors
  Carrying <- MCCarrying
  Hosts <- MCHosts
  AliasNames <- MCAliasNames
  Foreign <- MCForeign
  None = none
CONSTRAINT UntilAnswered
CHECK_DEADLOCK FALSE
INVARIANTS LowestOfFirst WalksFindTheEnds NamesComeBack  
