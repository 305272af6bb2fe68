\* A worker whose guest has panicked serves the next request.
CONSTANTS
  None = None
  Tasks = {t1, t2}
  Dbs = {db1}
  Names = {n1}
  Dirs = {d1}
  Paths <- FilePaths
  Cells = {c1, c2, c3}
  Workers = {w1, w2, w3}
  Setters = {s1}
  MaxVersion = 0
  Mtime <- FileMtime
  Modes = {"unix"}
  TestDb = db1
SPECIFICATION Spec
PROPERTIES
  PanicRestartsVM
