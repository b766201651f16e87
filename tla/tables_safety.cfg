SPECIFICATION Spec
CONSTANTS
  Engines = {e1, e2}
  WubiTables = {"86", "98"}
  Wubi86 = "86"
  Empty = Empty
  None = None
  Loaders = {l1, l2}
  Objects = {o1, o2, o3, o4}
CHECK_DEADLOCK FALSE
INVARIANTS TypeOK QuerySafe NeverDangling NeverForgotten
PROPERTY KeepsSlot
SYMMETRY TablesSymmetry
