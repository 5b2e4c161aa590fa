SPECIFICATION TxnsSpec
CONSTANTS
  MaxPage = 5
  MaxTxn = 3
  MaxOverflow = 2
  MaxRun = 3
  Reader = {r1, r2}
INVARIANTS
  TxnsTypeOK
  PagesAccounted
  CacheIsExact
  CrashRecovers
  ReadersKeepPages
PROPERTY
  ImplementsSnapshots
