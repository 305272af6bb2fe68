\* Two connections, two changes of directory, a restart, in all three modes.
CONSTANTS
  None = None
  db1 = db1
  Tasks = {t1, t2}
  Main = main
  Setters <- BothAndMain
  Dbs = {db1}
  Names <- OneName
  Dirs = {d1, d2}
  Modes = {"fd", "unix", "http"}
  Paths <- SomePaths
  TestDb = db1
  TestDir = d1
  MaxChanges = 2
  MaxCrashes = 1
SPECIFICATION FairSpec
INVARIANTS
  TypeOK
  AcknowledgedDirectoryServed
PROPERTIES
  EveryExchangeEnds
  EveryStartServes
