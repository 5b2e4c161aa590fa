\* Nodes of up to three inodes, and those of four that are too many for the count.
SPECIFICATION NodePageSpec
CONSTANTS
  Byte = {0, 1, 2}
  Keys <- MCKeys
  Values <- MCValues
  Flags = {0, 1}
  Pgids = {4, 5}
  MaxInodes = 4
  SpecialCount = 4
  ElementSize = 4
  Stale = {0, 1}
  PageBytes = 24
INVARIANTS
  KeysSurvive
  StaysInPage
CHECK_DEADLOCK FALSE
