\* Lists that reach the special count.
SPECIFICATION Spec
CONSTANTS
  MaxPage = 5
  MaxTxn = 1
  MaxOverflow = 2
  MaxRun = 3
  SpecialCount = 3
  SizeofPageID = 8
  Words = 12
  Stale = {0, 7}
INVARIANT RoundTrip
