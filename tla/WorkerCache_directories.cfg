\* Unix socket mode: two requests of one database while its directory changes.
CONSTANTS
  None = None
  Tasks = {t1, t2}
  Dbs = {db1}
  Names = {n1}
  Dirs = {d1, d2}
  Paths <- FilePaths
  Cells = {c1, c2}
  Workers = {w1, w2, w3}
  Setters = {s1}
  MaxVersion = 0
  Mtime <- FileMtime
  Modes = {"unix"}
  TestDb = db1
SPECIFICATION Spec
SYMMETRY Symmetry
INVARIANTS
  ServedFromConfiguredDirectory
PROPERTIES
  ReplacedByOtherModule
  ImplementsService
