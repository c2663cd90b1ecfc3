SPECIFICATION Spec
CONSTANTS
  Wines = {w1, w2}
  Files = {f1, f2, f3}
  Reqs = {r1, r2}
  None = None
  Databases = {"PostgreSQL", "SQLite"}
SYMMETRY Symmetry
INVARIANTS
  ShownPhotoExists
  NoLitter
CHECK_DEADLOCK FALSE
