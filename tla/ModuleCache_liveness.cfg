\* Liveness on a smaller instance, without symmetry; modified() never fails.
CONSTANTS
  None = None
  Tasks = {t1, t2}
  Paths = {p1}
  Cells = {c1, c2, c3}
  MaxVersion = 1
  Mtime <- FineMtime
  ModifiedCanFail = FALSE
SPECIFICATION FairSpec
PROPERTIES
  CallsAnswered
