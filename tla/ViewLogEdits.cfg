\* Two processes make every kind of edit but linearized ones, on stale handles.
SPECIFICATION ViewSpec
CONSTANTS
  OpId = {r, o1, o2, o3, o4, o5}
  Root = r
  Proc = {p1, p2}
  Commands = {}
  NoOp = NoOp
  Seeded = TRUE
  Serial = FALSE
  MaxEdits = 3
  Ref = {main, side}
  Main = main
  NoRef = NoRef
  Node = {n}
  Edit = {"add", "remove", "bury", "unbury", "stage ref", "choose branch", "set ref", "delete ref", "move head", "switch"}
SYMMETRY Symmetric
INVARIANTS RefChangesKept NodesKept CommitsKept TombstonesKept
CHECK_DEADLOCK FALSE
