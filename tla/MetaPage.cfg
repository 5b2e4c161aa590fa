\* Two commits and an extreme, torn at every byte and damaged at every bit.
SPECIFICATION MetaSpec
CONSTANTS
  ByteBits = 8
  Polynomial <- MCPolynomial
  Metas <- MCMetas
  Bursts <- MCBursts
  OsPageSizes <- MCOsPageSizes
  Leftover <- MCLeftover
INVARIANTS
  MetaRoundTrip
  DamageRejected
  TableIsDivision
CHECK_DEADLOCK FALSE
