SPECIFICATION Spec
CONSTANTS
  Configs <- MCConfigs
  HeaderCells = 8
  Wrap = 4096
INVARIANTS
  TypeOK
  HeadersIntact
  FirstPairUsable
CHECK_DEADLOCK FALSE
