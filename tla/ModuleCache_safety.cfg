\* Two calls at a time, three builds of one file of which two share an mtime.
CONSTANTS
  None = None
  Tasks = {t1, t2}
  Paths = {p1}
  Cells = {c1, c2, c3, c4}
  MaxVersion = 2
  Mtime <- CoarseMtime
  ModifiedCanFail = TRUE
SPECIFICATION Spec
SYMMETRY Symmetry
INVARIANTS
  TypeOK
  FreshModule
  SingleLoad
  NoDuplicateModule
PROPERTIES
  ImplementsLookup
