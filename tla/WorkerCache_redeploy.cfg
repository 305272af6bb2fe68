\* Test mode: three requests and their hang-ups while a wasm file is replaced.
CONSTANTS
  None = None
  Tasks = {t1, t2, t3}
  Dbs = {db1}
  Names = {n1}
  Dirs = {d1}
  Paths <- FilePaths
  Cells = {c1, c2, c3}
  Workers = {w1, w2, w3}
  Setters = {}
  MaxVersion = 1
  Mtime <- FileMtime
  Modes = {"http"}
  TestDb = db1
SPECIFICATION Spec
SYMMETRY Symmetry
INVARIANTS
  ServedFresh
  OneCallPerStore
