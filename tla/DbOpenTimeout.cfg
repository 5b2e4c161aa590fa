SPECIFICATION DbSpec
CONSTANTS
  Proc = {w1, w2}
  ReadOnly = {}
  Faults = {}
  MaxFaults = 0
PROPERTY WaitsEnd
