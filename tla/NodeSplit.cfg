\* Nodes of up to eight inodes, from tiny ones to one larger than a page.
SPECIFICATION SplitSpec
CONSTANTS
  MaxInodes = 8
  Sizes = {2, 5, 11}
  HeaderSize = 1
  PageSize = 10
  Thresholds <- MCThresholds
INVARIANTS
  InodesKept
  EnoughKeys
  NodesFit
  CutsAreLate
PROPERTY
  SplitEnds
CHECK_DEADLOCK FALSE
