\* FreeList on a file of four usable pages and three transaction ids; no list
\* reaches the special count.
SPECIFICATION Spec
CONSTANTS
  MaxPage = 5
  MaxTxn = 2
  MaxOverflow = 2
  MaxRun = 3
  SpecialCount = 5
  SizeofPageID = 8
  Words = 12
  Stale = {0, 7}
INVARIANTS
  TypeOK
  TrackedOnce
  CacheCovers
  ImageSound
  RoundTrip
  FitsByteSize
PROPERTY
  ImplementsLedger
