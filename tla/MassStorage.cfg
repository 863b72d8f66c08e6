SPECIFICATION FairSpec
CONSTANTS
  LastLba = 3
  MaxBlocks = 3
  Word = 6
  Data = {d1, d2}
  Mbr = mbr
  Faults = {}
  NULL = NULL
INVARIANTS TypeOK TransferTracked WindowCoherent
PROPERTIES BufferNotShared CommandsServed CommandAnswered
