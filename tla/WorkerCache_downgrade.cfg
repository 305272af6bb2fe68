\* Two requests at a time around a redeploy: the slow one puts the old worker back.
CONSTANTS
  None = None
  Tasks = {t1, t2}
  Dbs = {db1}
  Names = {n1}
  Dirs = {d1}
  Paths <- FilePaths
  Cells = {c1, c2, c3}
  Workers = {w1, w2, w3}
  Setters = {}
  MaxVersion = 1
  Mtime <- FileMtime
  Modes = {"http"}
  TestDb = db1
SPECIFICATION Spec
PROPERTIES
  RefreshNeverDowngrades
