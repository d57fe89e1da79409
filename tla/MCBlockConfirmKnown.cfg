\* A block the node reports as known is answered as bad, not as stale.
CONSTANTS
  h1 = h1
  h2 = h2
  c1 = c1
  c2 = c2
  NoHash = NoHash
  Hashes <- MCHashes
  Callers <- MCCallers
  TTL = 2
  HoldLimit = 1
  MaxEntries = 2
  MaxQueue = 3
  MaxTime = 4
  ConfirmAttempts = 2
SPECIFICATION ConfirmSpec
SYMMETRY MCSymmetry
INVARIANT KnownBlockIsStale
