\* Two guests share one connection; bodies may ignore errors, panic, and run
\* statements that start or end a transaction.
CONSTANTS
  None = None
  Guests = {g1, g2}
  Conns = {c1}
  MAX_ITERATIONS = 1
  Queries = 2
  MaxCounter = 4
  Careless = {"ignore", "panic", "control"}
CHECK_DEADLOCK FALSE
SPECIFICATION FairSpec
PROPERTIES
  ImplementsTransactions
  EveryCallReturns
