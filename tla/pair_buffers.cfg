SPECIFICATION FairSpec
CONSTANTS
  Size = 2
  IdxMod = 4
  BufSize = 2
  ReadCap = 2
  Zero = "z"
  Cells <- MCCells
  SlavePackets <- MCSlavePackets
  MasterPackets <- MCMasterPackets
PROPERTIES
  PacketsIntact
