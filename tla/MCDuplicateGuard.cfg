\* Fewer places than keys, so that the cap evicts; tasks that outlast the TTL.
CONSTANTS
  k1 = k1
  k2 = k2
  k3 = k3
  s1 = s1
  s2 = s2
  NoKey = NoKey
  Keys <- MCKeys
  Submitters <- MCSubmitters
  Final = {"Accepted", "Bad"}
  TTL = 1
  HoldLimit = 2
  MaxEntries = 2
  MaxTime = 4
  MaxSubmits = 5
SPECIFICATION Spec
SYMMETRY MCSymmetry
INVARIANTS SingleWorker ServedAge OrderMatchesEntries CreditSpacing
PROPERTIES OncePerTtl
\* Connections may stop submitting.
CHECK_DEADLOCK FALSE
