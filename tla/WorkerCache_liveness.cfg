\* Both modes: two requests around a redeploy, a set_directory, hang-ups.  With
\* one directory Purge waits for the lock of the workers, and finds nothing to
\* remove: what it removes with two is in WorkerCache_directories.cfg.
CONSTANTS
  None = None
  Tasks = {t1, t2}
  Dbs = {db1}
  Names = {n1}
  Dirs = {d1}
  Paths <- FilePaths
  Cells = {c1, c2}
  Workers = {w1, w2}
  Setters = {s1}
  MaxVersion = 1
  Mtime <- FileMtime
  Modes = {"unix", "http"}
  TestDb = db1
SPECIFICATION FairSpec
INVARIANTS
  TypeOK
PROPERTIES
  EveryRequestAnswered
