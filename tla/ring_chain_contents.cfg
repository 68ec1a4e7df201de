SPECIFICATION FairSpec
CONSTANTS
  Size = 2
  IdxMod = 4
  WriterIsMaster = FALSE
  BufSize = 2
  ReadCap = 4
  Zero = "z"
  Cells <- MCCells
  Packets <- MCChained
INVARIANTS
  WritesOnePacket
