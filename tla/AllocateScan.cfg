SPECIFICATION ScanSpec
CONSTANTS
  MaxPage = 7
  Lists <- MCLists
  Lengths <- MCLengths
INVARIANTS
  ScanCorrect
  ScanIsAllocate
CHECK_DEADLOCK FALSE
