SPECIFICATION FairSpec
CONSTANTS
  Size = 4
  IdxMod = 8
  WriterIsMaster = TRUE
  BufSize = 2
  ReadCap = 4
  Zero = "z"
  Cells <- MCCells
  Packets <- MCFewPackets
INVARIANTS
  TypeOK
  RingNeverOverrun
  SlotOwnership
  NoIncompleteChain
  OfferedBuffersAreFull
PROPERTIES
  UnreadStays
  FifoSpec
  WriterUnblocked
