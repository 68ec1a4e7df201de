SPECIFICATION Spec
CONSTANTS
  Configs <- MCTwoPairs
  HeaderCells = 8
  Wrap = 4096
INVARIANTS
  AllQueuesInitialized
CHECK_DEADLOCK FALSE
