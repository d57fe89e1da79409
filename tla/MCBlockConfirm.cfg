\* Two blocks, two callers: retries, lost and late answers, time for a second
\* success of a block after the TTL, two polls per success.
CONSTANTS
  h1 = h1
  h2 = h2
  c1 = c1
  c2 = c2
  NoHash = NoHash
  Hashes <- MCHashes
  Callers <- MCCallers
  TTL = 2
  HoldLimit = 1
  MaxEntries = 2
  MaxQueue = 3
  MaxTime = 4
  ConfirmAttempts = 2
SPECIFICATION ConfirmSpec
SYMMETRY MCSymmetry
INVARIANTS SingleFlight NoOrphanMark FoundOncePerRetention
PROPERTIES SuccessSpacing BlockOncePerTtl
