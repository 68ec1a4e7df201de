SPECIFICATION FairSpec
CONSTANTS
  Size = 2
  IdxMod = 8
  WriterIsMaster = FALSE
  BufSize = 2
  ReadCap = 4
  Zero = "z"
  Cells <- MCCells
  Packets <- MCPackets
INVARIANTS
  TypeOK
  RingNeverOverrun
  SlotOwnership
  NoIncompleteChain
PROPERTIES
  UnreadStays
  FifoSpec
  WriterUnblocked
