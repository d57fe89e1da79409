\* Two clients, three values, five assignments: the counter wraps.
CONSTANTS
  c1 = c1
  c2 = c2
  Clients <- MCClients
  MaxExtranonce = 2
  MaxAssigned = 5
SPECIFICATION HandshakeSpec
SYMMETRY MCSymmetry
INVARIANTS ReuseSpacing WorksWithIts
