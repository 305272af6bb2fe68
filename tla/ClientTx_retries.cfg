\* Two guests on two connections; bodies pass errors on.
CONSTANTS
  None = None
  Guests = {g1, g2}
  Conns = {c1, c2}
  MAX_ITERATIONS = 3
  Queries = 2
  MaxCounter = 4
  Careless = {"control"}
CHECK_DEADLOCK FALSE
SPECIFICATION Spec
SYMMETRY Symmetry
INVARIANTS
  TypeOK
  IdleConnectionsClean
  NoConnectionLeak
PROPERTIES
  ImplementsTransactions
