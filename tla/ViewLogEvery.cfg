\* Every kind of edit, from an empty store that both processes may initialise.
SPECIFICATION ViewSpec
CONSTANTS
  OpId = {r, o1, o2, o3, o4}
  Root = r
  Proc = {p1, p2}
  Commands = {}
  NoOp = NoOp
  Seeded = FALSE
  Serial = FALSE
  MaxEdits = 2
  Ref = {main, side}
  Main = main
  NoRef = NoRef
  Node = {n}
  Edit = {"linearize", "add", "remove", "bury", "unbury", "stage ref", "choose branch", "set ref", "delete ref", "move head", "switch"}
SYMMETRY Symmetric
INVARIANTS NoOpLost WalkNeverMisses
PROPERTY HistoryOnlyGrows
CHECK_DEADLOCK FALSE
