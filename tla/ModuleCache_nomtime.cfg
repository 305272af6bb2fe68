\* Liveness on a smaller instance, without symmetry; modified() may fail on a cached module.
CONSTANTS
  None = None
  Tasks = {t1, t2}
  Paths = {p1}
  Cells = {c1, c2, c3}
  MaxVersion = 1
  Mtime <- FineMtime
  ModifiedCanFail = TRUE
SPECIFICATION FairSpec
PROPERTIES
  CallsAnswered
