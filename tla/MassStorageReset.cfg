SPECIFICATION FairSpec
CONSTANTS
  LastLba = 2
  MaxBlocks = 2
  Word = 5
  Data = {d1, d2}
  Mbr = mbr
  Faults = {"reset"}
  NULL = NULL
PROPERTY CommandAnswered
