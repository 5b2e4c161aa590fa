SPECIFICATION DbSpec
CONSTANTS
  Proc = {r1, r2}
  ReadOnly = {r1, r2}
  Faults = {}
  MaxFaults = 0
INVARIANT OneInitialises
