SPECIFICATION SliceSpec
CONSTANTS
  Slice = {s1, s2, s3}
  Block = {b1, b2, b3}
  Cell = {c1, c2}
  Byte = {x, y}
  Null = Null
  Stale = Stale
  MaxCap = 3
SYMMETRY Interchangeable
INVARIANTS
  SliceTypeOK
  CountsReferences
  BuffersOwned
  SharedTogether
  NothingStale
PROPERTY
  AppendIsLocal
CHECK_DEADLOCK FALSE
