SPECIFICATION DbSpec
CONSTANTS
  Proc = {w1, w2, r1}
  ReadOnly = {r1}
  Faults = {"flock", "short", "write", "sync", "read", "kill", "power"}
  MaxFaults = 2
INVARIANTS
  DbTypeOK
  WriterAlone
  CleanOpen
PROPERTIES
  NothingLost
  HoldersFinish
